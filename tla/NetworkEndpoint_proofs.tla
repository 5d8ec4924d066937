----------------------- MODULE NetworkEndpoint_proofs -----------------------
(***************************************************************************)
(* What holds of the Node binding's endpoint and its message layer for any *)
(* number of messages, sockets and retries.                                *)
(***************************************************************************)
EXTENDS NetworkEndpoint, TLAPS

(* OnceInOrder of any data written, waiting and ever queued, index by      *)
(* index.                                                                  *)
Ordered(w, p, Q) ==
  /\ \A i, j \in 1 .. Len(w) : i < j => w[i] # w[j]
  /\ \A i, j \in 1 .. Len(w) : i < j => ((w[i] \in Q <=> w[j] \in Q) => w[i] < w[j])
  /\ \A i, j \in 1 .. Len(p) : i < j => p[i] < p[j]
  /\ \A i \in 1 .. Len(w), j \in 1 .. Len(p) : w[i] # p[j]
  /\ \A i \in 1 .. Len(w), j \in 1 .. Len(p) : w[i] \in Q => w[i] < p[j]

-----------------------------------------------------------------------------
(* What waits is written after what was written, and waits no more.        *)
LEMMA FlushOrdered ==
  ASSUME NEW w \in Seq(Nat), NEW p \in Seq(Nat), NEW Q, Ordered(w, p, Q),
         \A j \in 1 .. Len(p) : p[j] \in Q
  PROVE  Ordered(w \o p, <<>>, Q)
<1> DEFINE v == w \o p
<1>1. v \in Seq(Nat) /\ Len(v) = Len(w) + Len(p) OBVIOUS
<1>2. \A i \in 1 .. Len(w) : v[i] = w[i] OBVIOUS
<1>3. \A i \in 1 .. Len(v) : i > Len(w) => i - Len(w) \in 1 .. Len(p) /\ v[i] = p[i - Len(w)]
  OBVIOUS
<1> HIDE DEF v
<1>4. ASSUME NEW i \in 1 .. Len(v), NEW j \in 1 .. Len(v), i < j
      PROVE  v[i] # v[j] /\ ((v[i] \in Q <=> v[j] \in Q) => v[i] < v[j])
  <2>1. CASE j <= Len(w)
    <3>1. i \in 1 .. Len(w) /\ j \in 1 .. Len(w) BY <2>1, <1>4, <1>1
    <3>2. v[i] = w[i] /\ v[j] = w[j] BY <3>1, <1>2
    <3> QED BY <3>1, <3>2, <1>4 DEF Ordered
  <2>2. CASE i <= Len(w) /\ j > Len(w)
    <3>1. v[i] = w[i] /\ v[j] = p[j - Len(w)] /\ j - Len(w) \in 1 .. Len(p)
      BY <2>2, <1>2, <1>3
    <3> QED BY <3>1, <2>2 DEF Ordered
  <2>3. CASE i > Len(w)
    <3>1. j > Len(w) /\ i - Len(w) < j - Len(w) BY <2>3, <1>4, <1>1
    <3>2. v[i] = p[i - Len(w)] /\ v[j] = p[j - Len(w)]
          /\ i - Len(w) \in 1 .. Len(p) /\ j - Len(w) \in 1 .. Len(p)
      BY <3>1, <2>3, <1>3
    <3>3. p[i - Len(w)] \in Nat /\ p[j - Len(w)] \in Nat BY <3>2
    <3> QED BY <3>1, <3>2, <3>3 DEF Ordered
  <2> QED BY <2>1, <2>2, <2>3, <1>1
<1>5. Ordered(v, <<>>, Q) BY <1>4 DEF Ordered
<1> QED BY <1>5 DEF v

(* What waits may also be dropped.                                         *)
LEMMA DropOrdered ==
  ASSUME NEW w, NEW p, NEW Q, Ordered(w, p, Q)
  PROVE  Ordered(w, <<>>, Q)
BY DEF Ordered

(* A new message may be written at once, ahead of what waits.              *)
LEMMA WriteOrdered ==
  ASSUME NEW w \in Seq(Nat), NEW p \in Seq(Nat), NEW Q, Ordered(w, p, Q),
         NEW m \in Nat, m \notin Q,
         \A i \in 1 .. Len(w) : w[i] < m, \A j \in 1 .. Len(p) : p[j] < m
  PROVE  Ordered(w \o <<m>>, p, Q)
<1> DEFINE v == w \o <<m>>
<1>1. v \in Seq(Nat) /\ Len(v) = Len(w) + 1 /\ v[Len(v)] = m OBVIOUS
<1>2. \A i \in 1 .. Len(w) : v[i] = w[i] /\ w[i] \in Nat OBVIOUS
<1>3. \A j \in 1 .. Len(p) : p[j] \in Nat OBVIOUS
<1> HIDE DEF v
<1>4. ASSUME NEW i \in 1 .. Len(v), NEW j \in 1 .. Len(v), i < j
      PROVE  v[i] # v[j] /\ ((v[i] \in Q <=> v[j] \in Q) => v[i] < v[j])
  <2>1. CASE j = Len(v)
    <3>1. i \in 1 .. Len(w) BY <2>1, <1>4, <1>1
    <3>2. v[i] = w[i] /\ w[i] < m /\ w[i] \in Nat BY <3>1, <1>2
    <3> QED BY <3>2, <2>1, <1>1
  <2>2. CASE j # Len(v)
    <3>0. j < Len(w) + 1 /\ Len(w) \in Nat BY <2>2, <1>1
    <3>1. i \in 1 .. Len(w) /\ j \in 1 .. Len(w) BY <3>0, <1>4
    <3>2. v[i] = w[i] /\ v[j] = w[j] BY <3>1, <1>2
    <3> QED BY <3>1, <3>2, <1>4 DEF Ordered
  <2> QED BY <2>1, <2>2
<1>5. ASSUME NEW i \in 1 .. Len(v), NEW j \in 1 .. Len(p)
      PROVE  v[i] # p[j] /\ (v[i] \in Q => v[i] < p[j])
  <2>1. CASE i = Len(v) BY <2>1, <1>1, <1>3
  <2>2. CASE i # Len(v)
    <3>1. i \in 1 .. Len(w) BY <2>2, <1>1
    <3> QED BY <3>1, <1>2 DEF Ordered
  <2> QED BY <2>1, <2>2
<1>6. Ordered(v, p, Q) BY <1>4, <1>5 DEF Ordered
<1> QED BY <1>6 DEF v

(* A new message waits behind the others.                                  *)
LEMMA WaitOrdered ==
  ASSUME NEW w \in Seq(Nat), NEW p \in Seq(Nat), NEW Q, Ordered(w, p, Q),
         NEW m \in Nat, m \notin Q,
         \A i \in 1 .. Len(w) : w[i] < m, \A j \in 1 .. Len(p) : p[j] < m
  PROVE  Ordered(w, Append(p, m), Q \cup {m})
<1> DEFINE q == Append(p, m)
<1>1. Len(q) = Len(p) + 1 /\ q[Len(q)] = m /\ Len(p) \in Nat OBVIOUS
<1>2. \A j \in 1 .. Len(p) : q[j] = p[j] /\ p[j] \in Nat OBVIOUS
<1>3. \A i \in 1 .. Len(w) : w[i] \in Nat /\ w[i] # m /\ (w[i] \in Q \cup {m} <=> w[i] \in Q)
  OBVIOUS
<1> HIDE DEF q
<1>4. ASSUME NEW i \in 1 .. Len(q), NEW j \in 1 .. Len(q), i < j
      PROVE  q[i] < q[j]
  <2>1. CASE j = Len(q)
    <3>1. i \in 1 .. Len(p) BY <2>1, <1>4, <1>1
    <3> QED BY <3>1, <2>1, <1>1, <1>2
  <2>2. CASE j # Len(q)
    <3>0. j < Len(p) + 1 /\ Len(p) \in Nat BY <2>2, <1>1
    <3>1. i \in 1 .. Len(p) /\ j \in 1 .. Len(p) BY <3>0, <1>4
    <3>2. q[i] = p[i] /\ q[j] = p[j] BY <3>1, <1>2
    <3> QED BY <3>1, <3>2, <1>4 DEF Ordered
  <2> QED BY <2>1, <2>2
<1>5. ASSUME NEW i \in 1 .. Len(w), NEW j \in 1 .. Len(q)
      PROVE  w[i] # q[j] /\ (w[i] \in Q \cup {m} => w[i] < q[j])
  <2>1. CASE j = Len(q) BY <2>1, <1>1, <1>3
  <2>2. CASE j # Len(q)
    <3>1. j \in 1 .. Len(p) BY <2>2, <1>1
    <3> QED BY <3>1, <1>2, <1>3 DEF Ordered
  <2> QED BY <2>1, <2>2
<1>6. \A i, j \in 1 .. Len(w) : i < j =>
        ((w[i] \in Q \cup {m} <=> w[j] \in Q \cup {m}) => w[i] < w[j])
  BY <1>3 DEF Ordered
<1>7. Ordered(w, q, Q \cup {m}) BY <1>4, <1>5, <1>6 DEF Ordered
<1> QED BY <1>7 DEF q

-----------------------------------------------------------------------------
(* The invariant of the message layer: entries are of numbers taken since  *)
(* the last reset.                                                         *)
PInv ==
  /\ ProtocolTypeOK
  /\ Awaited
  /\ \A m \in pendingMessages : messages[m].sequence < sequence

Message == [sequence : 1 .. MaxSequence, waiting : BOOLEAN, timer : BOOLEAN]

(* A message is sent: it alone is new, with an entry, waiting and timed.   *)
LEMMA SendKeeps ==
  ASSUME PInv, SendMessage
  PROVE  /\ PInv'
         /\ Len(messages') = Len(messages) + 1
         /\ DOMAIN messages = 1 .. Len(messages) /\ Len(messages) \in Nat
         /\ DOMAIN messages' = 1 .. Len(messages) + 1
<1> DEFINE n == Len(messages)
           new == [sequence |-> sequence, waiting |-> TRUE, timer |-> TRUE]
<1>0. MaxSequence \in Nat /\ MaxMessages \in Nat BY ProtocolConstantsOK
<1>1. messages \in Seq(Message) /\ n \in Nat /\ DOMAIN messages = 1 .. n
      /\ sequence \in 1 .. MaxSequence /\ sequence' = sequence + 1 /\ n < MaxMessages
  BY <1>0 DEF PInv, ProtocolTypeOK, SendMessage, NextSequence, Message
<1>2. new \in Message BY <1>1 DEF Message
<1>3. messages' = Append(messages, new) BY DEF SendMessage
<1>4. messages' \in Seq(Message) /\ Len(messages') = n + 1 /\ DOMAIN messages' = 1 .. n + 1
  BY <1>1, <1>2, <1>3
<1>5. messages'[n + 1] = new BY <1>1, <1>3
<1>6. \A m \in 1 .. n : messages'[m] = messages[m] BY <1>1, <1>3
<1>7. pendingMessages \subseteq 1 .. n BY <1>1 DEF PInv, ProtocolTypeOK
<1>8. ASSUME NEW m \in pendingMessages
      PROVE  messages[m].sequence \in Nat /\ messages[m].sequence < sequence
  <2>1. messages[m] \in Message BY <1>1, <1>7
  <2> QED BY <2>1 DEF PInv, Message
<1>9. pendingMessages' = pendingMessages \cup {n + 1} BY <1>8 DEF SendMessage, Entry
<1> HIDE DEF new
<1>10. new.sequence = sequence /\ new.waiting = TRUE /\ new.timer = TRUE BY DEF new
<1>11. \A m \in pendingMessages' : m = n + 1 \/ m \in pendingMessages BY <1>9
<1>12. ProtocolTypeOK'
  <2>1. sequence' \in 1 .. MaxSequence + 1 /\ Len(messages') <= MaxMessages BY <1>0, <1>1, <1>4
  <2>a. n \in Nat BY <1>1
  <2> HIDE DEF n
  <2>b. pendingMessages' \subseteq 1 .. n + 1 BY <2>a, <1>7, <1>9
  <2>2. pendingMessages' \subseteq DOMAIN messages' BY <2>b, <1>4
  <2> QED BY <2>1, <2>2, <1>4 DEF ProtocolTypeOK, Message
<1>13. ASSUME NEW m \in pendingMessages'
       PROVE  messages'[m].waiting /\ messages'[m].sequence < sequence'
  <2>1. CASE m = n + 1 BY <2>1, <1>5, <1>10, <1>1
  <2>2. CASE m \in pendingMessages BY <2>2, <1>6, <1>7, <1>8, <1>1 DEF PInv, Awaited
  <2> QED BY <2>1, <2>2, <1>11
<1>14. ASSUME NEW m \in pendingMessages', NEW k \in pendingMessages',
              messages'[m].sequence = messages'[k].sequence
       PROVE  m = k
  <2>1. CASE m \in pendingMessages /\ k \in pendingMessages
    BY <2>1, <1>14, <1>6, <1>7 DEF PInv, Awaited
  <2>2. CASE m = n + 1 /\ k = n + 1 BY <2>2
  <2>3. CASE m = n + 1 /\ k \in pendingMessages
    BY <2>3, <1>14, <1>5, <1>6, <1>7, <1>8, <1>10, <1>1
  <2>4. CASE k = n + 1 /\ m \in pendingMessages
    BY <2>4, <1>14, <1>5, <1>6, <1>7, <1>8, <1>10, <1>1
  <2> QED BY <2>1, <2>2, <2>3, <2>4, <1>11
<1>15. ASSUME NEW m \in 1 .. n + 1, messages'[m].waiting
       PROVE  messages'[m].timer
  <2>1. CASE m = n + 1 BY <2>1, <1>5, <1>10
  <2>2. CASE m # n + 1
    <3>1. m \in DOMAIN messages /\ messages'[m] = messages[m] BY <2>2, <1>1, <1>6
    <3> QED BY <3>1, <1>15 DEF PInv, Awaited
  <2> QED BY <2>1, <2>2
<1>16. Awaited' BY <1>13, <1>14, <1>15, <1>4 DEF Awaited
<1> QED BY <1>1, <1>4, <1>12, <1>13, <1>16 DEF PInv

(* Entries taken away and promises settled with them or without an entry,  *)
(* while every promise that still waits keeps its timer.                   *)
LEMMA SettleKeeps ==
  ASSUME PInv, NEW E, messages' \in Seq(Message), Len(messages') = Len(messages),
         \A m \in DOMAIN messages :
           /\ messages'[m].sequence = messages[m].sequence
           /\ messages'[m].waiting => messages[m].waiting
           /\ messages'[m].waiting => messages'[m].timer = messages[m].timer
           /\ messages[m].waiting /\ m \notin E => messages'[m].waiting,
         pendingMessages' = pendingMessages \ E, sequence' = sequence
  PROVE  PInv' /\ DOMAIN messages' = DOMAIN messages
<1>1. messages \in Seq(Message) BY DEF PInv, ProtocolTypeOK, Message
<1>2. DOMAIN messages = 1 .. Len(messages) /\ DOMAIN messages' = DOMAIN messages BY <1>1
<1>3. pendingMessages \subseteq DOMAIN messages BY DEF PInv, ProtocolTypeOK
<1>4. ProtocolTypeOK' BY <1>2, <1>3 DEF PInv, ProtocolTypeOK, Message
<1>5. Awaited' BY <1>2, <1>3 DEF PInv, Awaited
<1>6. \A m \in pendingMessages' : messages'[m].sequence < sequence'
  BY <1>3 DEF PInv
<1> QED BY <1>2, <1>4, <1>5, <1>6 DEF PInv

(* Settled keeps everything of a message but its promise.                  *)
LEMMA SettledIs ==
  ASSUME PInv, NEW E
  PROVE  /\ Settled(E) \in Seq(Message) /\ Len(Settled(E)) = Len(messages)
         /\ DOMAIN Settled(E) = DOMAIN messages
         /\ \A m \in DOMAIN messages :
              /\ Settled(E)[m].sequence = messages[m].sequence
              /\ Settled(E)[m].timer = messages[m].timer
              /\ Settled(E)[m].waiting = (messages[m].waiting /\ m \notin E)
<1>1. messages \in Seq(Message) /\ DOMAIN messages = 1 .. Len(messages) /\ Len(messages) \in Nat
  BY DEF PInv, ProtocolTypeOK, Message
<1>2. ASSUME NEW m \in DOMAIN messages
      PROVE  /\ Settled(E)[m].sequence = messages[m].sequence
             /\ Settled(E)[m].timer = messages[m].timer
             /\ Settled(E)[m].waiting = (messages[m].waiting /\ m \notin E)
             /\ Settled(E)[m] \in Message
  <2>1. messages[m] \in Message BY <1>1
  <2>2. Settled(E)[m] = [messages[m] EXCEPT !.waiting = @ /\ m \notin E] BY DEF Settled
  <2> QED BY <2>1, <2>2 DEF Message
<1>3. Settled(E) = [m \in 1 .. Len(messages) |-> Settled(E)[m]] BY <1>1 DEF Settled
<1>4. Settled(E) \in [1 .. Len(messages) -> Message] BY <1>2, <1>3, <1>1
<1>5. Settled(E) \in Seq(Message) /\ Len(Settled(E)) = Len(messages) BY <1>4, <1>1
<1> QED BY <1>2, <1>3, <1>5, <1>1

(* An answer settles the promise whose entry it takes.                     *)
LEMMA AnswerKeeps ==
  ASSUME PInv, HandleAnswer
  PROVE  PInv' /\ DOMAIN messages' = DOMAIN messages
<1>1. PICK n \in 1 .. MaxSequence :
        /\ messages' = Settled(Entry(n))
        /\ pendingMessages' = pendingMessages \ Entry(n)
        /\ UNCHANGED sequence
  BY DEF HandleAnswer
<1>2. messages' \in Seq(Message) /\ Len(messages') = Len(messages)
  BY <1>1, SettledIs
<1>3. \A m \in DOMAIN messages :
           /\ messages'[m].sequence = messages[m].sequence
           /\ messages'[m].timer = messages[m].timer
           /\ messages'[m].waiting = (messages[m].waiting /\ m \notin Entry(n))
  BY <1>1, SettledIs
<1>4. \A m \in DOMAIN messages :
           /\ messages'[m].sequence = messages[m].sequence
           /\ messages'[m].waiting => messages[m].waiting
           /\ messages'[m].waiting => messages'[m].timer = messages[m].timer
           /\ messages[m].waiting /\ m \notin Entry(n) => messages'[m].waiting
  BY <1>3
<1> QED BY <1>1, <1>2, <1>4, SettleKeeps

(* A timer settles its own promise; the entry it takes away is that of its *)
(* message, or of one that has its number now and keeps its own timer.     *)
LEMMA TimeoutKeeps ==
  ASSUME PInv, NEW m, MessageTimeout(m)
  PROVE  PInv' /\ DOMAIN messages' = DOMAIN messages
<1> DEFINE E == Entry(messages[m].sequence)
           c == Settled({m})
<1>1. m \in DOMAIN messages /\ messages' = [c EXCEPT ![m].timer = FALSE]
      /\ pendingMessages' = pendingMessages \ E /\ sequence' = sequence
  BY DEF MessageTimeout
<1>2. c \in Seq(Message) /\ Len(c) = Len(messages) /\ DOMAIN c = DOMAIN messages
      /\ \A k \in DOMAIN messages :
              /\ c[k].sequence = messages[k].sequence
              /\ c[k].timer = messages[k].timer
              /\ c[k].waiting = (messages[k].waiting /\ k \notin {m})
  BY SettledIs
<1> HIDE DEF c
<1>3. DOMAIN messages = 1 .. Len(messages) /\ Len(messages) \in Nat
      /\ \A k \in DOMAIN messages : c[k] \in Message
  BY <1>2
<1>4. ASSUME NEW k \in DOMAIN messages
      PROVE  /\ messages'[k].sequence = messages[k].sequence
             /\ messages'[k].waiting => messages[k].waiting /\ k # m
             /\ k # m => messages'[k].timer = messages[k].timer
             /\ messages[k].waiting /\ k # m => messages'[k].waiting
             /\ messages'[k] \in Message
  <2>1. CASE k # m
    <3>1. messages'[k] = c[k] BY <2>1, <1>1, <1>2
    <3> QED BY <3>1, <2>1, <1>2, <1>3
  <2>2. CASE k = m
    <3>1. messages'[m] = [c[m] EXCEPT !.timer = FALSE] BY <1>1, <1>2
    <3>2. c[m] \in Message BY <1>1, <1>3
    <3> QED BY <3>1, <3>2, <2>2, <1>2 DEF Message
  <2> QED BY <2>1, <2>2
<1>5. messages' \in Seq(Message) /\ Len(messages') = Len(messages)
  <2>1. messages' = [k \in 1 .. Len(messages) |-> messages'[k]] BY <1>1, <1>2, <1>3
  <2>2. messages' \in [1 .. Len(messages) -> Message] BY <2>1, <1>3, <1>4
  <2> QED BY <2>2, <1>3
<1>6. m \in pendingMessages => m \in E BY DEF Entry
<1> HIDE DEF E
<1>7. \A k \in pendingMessages \ E : k # m BY <1>6
<1>8. pendingMessages' = pendingMessages \ (E \cup {m}) BY <1>1, <1>6
<1> DEFINE F == E \cup {m}
<1>9. \A k \in DOMAIN messages :
           /\ messages'[k].sequence = messages[k].sequence
           /\ messages'[k].waiting => messages[k].waiting
           /\ messages'[k].waiting => messages'[k].timer = messages[k].timer
           /\ messages[k].waiting /\ k \notin F => messages'[k].waiting
  BY <1>4
<1>10. pendingMessages' = pendingMessages \ F BY <1>8
<1> HIDE DEF F
<1> QED BY <1>1, <1>9, <1>10, <1>5, SettleKeeps

(* A number taken for nobody, and a reset.                                 *)
LEMMA QuietKeeps ==
  ASSUME PInv, HandleHandshake \/ Reset
  PROVE  PInv' /\ DOMAIN messages' = DOMAIN messages
<1>1. MaxSequence \in Nat BY ProtocolConstantsOK
<1>2. messages' = messages BY DEF HandleHandshake, Reset
<1>3. sequence' \in 1 .. MaxSequence + 1 /\ pendingMessages' \subseteq pendingMessages
  BY <1>1 DEF PInv, ProtocolTypeOK, HandleHandshake, NextSequence, Reset
<1>4. ASSUME NEW m \in pendingMessages'
      PROVE  messages'[m].sequence < sequence'
  <2>1. CASE HandleHandshake
    <3>1. messages \in Seq(Message) /\ m \in DOMAIN messages
      BY <1>3, <1>4 DEF PInv, ProtocolTypeOK, Message
    <3>0. messages[m] \in Message BY <3>1
    <3>2. messages[m].sequence \in Nat BY <3>0, <1>1 DEF Message
    <3>3. sequence' = sequence + 1 /\ sequence \in Nat
      BY <2>1 DEF HandleHandshake, NextSequence, PInv, ProtocolTypeOK
    <3> QED BY <3>2, <3>3, <1>2, <1>3, <1>4 DEF PInv
  <2>2. CASE Reset BY <2>2, <1>4 DEF Reset
  <2> QED BY <2>1, <2>2
<1>5. ProtocolTypeOK' BY <1>2, <1>3 DEF PInv, ProtocolTypeOK
<1>6. Awaited' BY <1>2, <1>3 DEF PInv, Awaited
<1> QED BY <1>2, <1>4, <1>5, <1>6 DEF PInv

-----------------------------------------------------------------------------
(* What has become of the first n messages: written, waiting, or neither.  *)
DataOK(n, w, p, Q) ==
  /\ w \in Seq(1 .. n) /\ p \in Seq(1 .. n) /\ Q \subseteq 1 .. n
  /\ Ordered(w, p, Q)
  /\ \A j \in 1 .. Len(p) : p[j] \in Q

(* One more message, of which nothing becomes.                             *)
LEMMA WidenData ==
  ASSUME NEW n \in Nat, NEW w, NEW p, NEW Q, DataOK(n, w, p, Q)
  PROVE  DataOK(n + 1, w, p, Q)
<1>1. 1 .. n \subseteq 1 .. n + 1 OBVIOUS
<1>2. w \in Seq(1 .. n + 1) /\ p \in Seq(1 .. n + 1) /\ Q \subseteq 1 .. n + 1
  BY <1>1 DEF DataOK
<1> QED BY <1>2 DEF DataOK

(* The same as what the lemmas on order ask for.                           *)
LEMMA DataBelow ==
  ASSUME NEW n \in Nat, NEW w, NEW p, NEW Q, DataOK(n, w, p, Q)
  PROVE  /\ w \in Seq(Nat) /\ p \in Seq(Nat) /\ n + 1 \notin Q
         /\ \A i \in 1 .. Len(w) : w[i] < n + 1
         /\ \A j \in 1 .. Len(p) : p[j] < n + 1
<1>1. w \in Seq(1 .. n) /\ p \in Seq(1 .. n) BY DEF DataOK
<1>2. \A i \in 1 .. Len(w) : w[i] \in 1 .. n BY <1>1
<1>3. \A j \in 1 .. Len(p) : p[j] \in 1 .. n BY <1>1
<1>4. n + 1 \notin Q BY DEF DataOK
<1> QED BY <1>1, <1>2, <1>3, <1>4

(* One more message, written at once.                                      *)
LEMMA WriteData ==
  ASSUME NEW n \in Nat, NEW w, NEW p, NEW Q, DataOK(n, w, p, Q)
  PROVE  DataOK(n + 1, w \o <<n + 1>>, p, Q)
<1>0. n + 1 \in Nat /\ Ordered(w, p, Q) BY DEF DataOK
<1>1. Ordered(w \o <<n + 1>>, p, Q) BY <1>0, DataBelow, WriteOrdered
<1>2. DataOK(n + 1, w, p, Q) BY WidenData
<1>3. w \o <<n + 1>> \in Seq(1 .. n + 1) BY <1>2 DEF DataOK
<1> QED BY <1>1, <1>2, <1>3 DEF DataOK

(* One more message, left to wait.                                         *)
LEMMA WaitData ==
  ASSUME NEW n \in Nat, NEW w, NEW p, NEW Q, DataOK(n, w, p, Q)
  PROVE  DataOK(n + 1, w, Append(p, n + 1), Q \cup {n + 1})
<1>0. n + 1 \in Nat /\ Ordered(w, p, Q) BY DEF DataOK
<1>1. Ordered(w, Append(p, n + 1), Q \cup {n + 1}) BY <1>0, DataBelow, WaitOrdered
<1>2. DataOK(n + 1, w, p, Q) BY WidenData
<1>3. p \in Seq(1 .. n + 1) /\ Len(p) \in Nat BY <1>2 DEF DataOK
<1>4. Append(p, n + 1) \in Seq(1 .. n + 1) /\ Len(Append(p, n + 1)) = Len(p) + 1 BY <1>3
<1>5. \A j \in 1 .. Len(p) : Append(p, n + 1)[j] = p[j] BY <1>3
<1>6. Append(p, n + 1)[Len(p) + 1] = n + 1 BY <1>3
<1>7. ASSUME NEW j \in 1 .. Len(p) + 1
      PROVE  Append(p, n + 1)[j] \in Q \cup {n + 1}
  <2>1. CASE j = Len(p) + 1 BY <2>1, <1>6
  <2>2. CASE j # Len(p) + 1
    <3>1. j \in 1 .. Len(p) BY <2>2, <1>3
    <3> QED BY <3>1, <1>5 DEF DataOK
  <2> QED BY <2>1, <2>2
<1>8. Q \cup {n + 1} \subseteq 1 .. n + 1 BY <1>2 DEF DataOK
<1> QED BY <1>1, <1>2, <1>4, <1>7, <1>8 DEF DataOK

(* What waited is written, or lost.                                        *)
LEMMA FlushData ==
  ASSUME NEW n \in Nat, NEW w, NEW p, NEW Q, DataOK(n, w, p, Q)
  PROVE  DataOK(n, w \o p, <<>>, Q) /\ DataOK(n, w, <<>>, Q)
<1>1. Ordered(w \o p, <<>>, Q) BY DataBelow, FlushOrdered DEF DataOK
<1>2. Ordered(w, <<>>, Q) BY DropOrdered DEF DataOK
<1>3. w \o p \in Seq(1 .. n) /\ <<>> \in Seq(1 .. n) BY DEF DataOK
<1> QED BY <1>1, <1>2, <1>3 DEF DataOK

-----------------------------------------------------------------------------
(* The types of the endpoint's own variables.                              *)
ConnectionOK ==
  /\ sockets \in [Sockets -> {"closed", "connecting", "open", "failed"}]
  /\ ending \subseteq Sockets /\ socket \in Sockets \cup {NoSocket}
  /\ connected \in BOOLEAN /\ reconnect \in BOOLEAN
  /\ retryCount \in 0 .. MaxRetries /\ retries \in Nat /\ events \in 0 .. MaxEvents

Data == DataOK(Len(messages), written, pendingData, queued)

(* The invariant: message layer, connection and data each keep their own,  *)
(* and what waits waits for something.                                     *)
Inv == PInv /\ ConnectionOK /\ Data /\ WaitsForSomething

LEMMA InvInit == ASSUME Init PROVE Inv
<1>1. MaxRetries \in Nat /\ MaxEvents \in Nat /\ MaxSequence \in Nat /\ MaxMessages \in Nat
  BY EndpointConstantsOK, ProtocolConstantsOK
<1>2. PInv
  <2>1. messages = <<>> /\ pendingMessages = {} /\ sequence = 1 BY DEF Init, ProtocolInit
  <2>2. ProtocolTypeOK BY <2>1, <1>1 DEF ProtocolTypeOK
  <2>3. DOMAIN messages = {} BY <2>1
  <2> QED BY <2>1, <2>2, <2>3 DEF PInv, Awaited
<1>3. ConnectionOK
  <2>1. sockets \in [Sockets -> {"closed", "connecting", "open", "failed"}] BY DEF Init
  <2>2. connected \in BOOLEAN /\ reconnect \in BOOLEAN BY DEF Init
  <2>3. retryCount \in 0 .. MaxRetries /\ retries \in Nat /\ events \in 0 .. MaxEvents
    BY <1>1 DEF Init
  <2>4. ending \subseteq Sockets /\ socket \in Sockets \cup {NoSocket} BY DEF Init
  <2> QED BY <2>1, <2>2, <2>3, <2>4 DEF ConnectionOK
<1>4. Data BY DEF Init, ProtocolInit, Data, DataOK, Ordered
<1>5. WaitsForSomething BY DEF Init, WaitsForSomething
<1> QED BY <1>2, <1>3, <1>4, <1>5 DEF Inv

(* What the invariant says of the constants and the number of messages.    *)
LEMMA InvFacts ==
  ASSUME Inv
  PROVE  /\ MaxRetries \in Nat /\ MaxEvents \in Nat
         /\ Len(messages) \in Nat /\ DOMAIN messages = 1 .. Len(messages)
         /\ messages \in Seq(Message)
<1>1. messages \in Seq(Message) BY DEF Inv, PInv, ProtocolTypeOK, Message
<1> QED BY <1>1, EndpointConstantsOK

(* A new socket is on its way.                                             *)
LEMMA NewSocketOK ==
  ASSUME ConnectionOK, NewSocket
  PROVE  /\ sockets' \in [Sockets -> {"closed", "connecting", "open", "failed"}]
         /\ socket' \in Sockets
         /\ \E s \in Sockets : sockets'[s] = "connecting"
<1>1. PICK s \in Sockets : sockets' = [sockets EXCEPT ![s] = "connecting"] /\ socket' = s
  BY DEF NewSocket
<1> QED BY <1>1 DEF ConnectionOK

(* The steps of the message layer alone.                                   *)
LEMMA LayerStep ==
  ASSUME Inv, PInv', DOMAIN messages' = DOMAIN messages,
         UNCHANGED <<sockets, ending, socket, connected, reconnect, retryCount, retries>>,
         events' \in 0 .. MaxEvents, UNCHANGED <<pendingData, queued, written>>
  PROVE  Inv'
<1>1. messages' \in Seq(Message) BY DEF PInv, ProtocolTypeOK, Message
<1>2. Len(messages') = Len(messages) BY <1>1, InvFacts
<1>3. ConnectionOK' BY DEF Inv, ConnectionOK
<1>4. Data' BY <1>2 DEF Inv, Data
<1>5. WaitsForSomething' BY DEF Inv, WaitsForSomething
<1> QED BY <1>3, <1>4, <1>5 DEF Inv

(* An event counted is within its bound.                                   *)
LEMMA EventOK ==
  ASSUME Inv, Event
  PROVE  events' \in 0 .. MaxEvents
BY InvFacts DEF Inv, ConnectionOK, Event

LEMMA SendStep == ASSUME Inv, Send PROVE Inv'
<1> DEFINE n == Len(messages)
<1>1. PInv' /\ Len(messages') = n + 1 BY SendKeeps DEF Inv, Send
<1>2. n \in Nat /\ DataOK(n, written, pendingData, queued) BY InvFacts DEF Inv, Data
<1>3. CASE WriteNow(n + 1)
  <2>1. pendingData = <<>> BY <1>3 DEF Inv, WaitsForSomething, WriteNow
  <2>2. DataOK(n + 1, written', pendingData, queued)
    <3>1. DataOK(n + 1, written \o <<n + 1>>, pendingData, queued) BY <1>2, WriteData
    <3>2. DataOK(n + 1, written, pendingData, queued) BY <1>2, WidenData
    <3>3. written' = written \/ written' = written \o <<n + 1>> BY <1>3 DEF WriteNow, Wrote
    <3> QED BY <3>1, <3>2, <3>3
  <2>3. Data' BY <2>2, <1>1, <1>3 DEF Data, WriteNow
  <2>4. ConnectionOK' BY <1>3 DEF WriteNow, connection, Inv, ConnectionOK
  <2>5. WaitsForSomething' BY <2>1, <1>3 DEF WriteNow, WaitsForSomething
  <2> QED BY <1>1, <2>3, <2>4, <2>5 DEF Inv
<1>4. CASE WaitForConnection(n + 1)
  <2>1. DataOK(n + 1, written, Append(pendingData, n + 1), queued \cup {n + 1})
    BY <1>2, WaitData
  <2>2. Data' BY <2>1, <1>1, <1>4 DEF Data, WaitForConnection
  <2>3. /\ sockets' \in [Sockets -> {"closed", "connecting", "open", "failed"}]
        /\ socket' \in Sockets
        /\ \E s \in Sockets : sockets'[s] = "connecting"
    BY <1>4, NewSocketOK DEF WaitForConnection, Inv
  <2>4. ConnectionOK' BY <2>3, <1>4 DEF WaitForConnection, Inv, ConnectionOK
  <2>5. WaitsForSomething' BY <2>3, <1>4 DEF WaitForConnection, WaitsForSomething
  <2> QED BY <1>1, <2>2, <2>4, <2>5 DEF Inv
<1>5. CASE RejectSend
  <2>1. DataOK(n + 1, written, pendingData, queued) BY <1>2, WidenData
  <2>2. Data' BY <2>1, <1>1, <1>5 DEF Data, RejectSend, endpoint
  <2>3. ConnectionOK' BY <1>5 DEF RejectSend, endpoint, connection, Inv, ConnectionOK
  <2>4. WaitsForSomething'
    BY <1>5 DEF RejectSend, endpoint, connection, Inv, WaitsForSomething
  <2> QED BY <1>1, <2>2, <2>3, <2>4 DEF Inv
<1> QED BY <1>3, <1>4, <1>5 DEF Send

(* A connection flushes what waits, behind what a listener sends.          *)
LEMMA OpenedStep == ASSUME Inv, NEW s \in Sockets, Opened(s) PROVE Inv'
<1> DEFINE n == Len(messages)
<1>1. n \in Nat /\ DataOK(n, written, pendingData, queued) /\ MaxRetries \in Nat
  BY InvFacts DEF Inv, Data
<1>2. ConnectionOK' BY <1>1 DEF Opened, Inv, ConnectionOK
<1>3. WaitsForSomething' BY DEF Opened, WaitsForSomething
<1>4. pendingData' = <<>> /\ queued' = queued BY DEF Opened
<1>5. CASE written' = Flushed(written) /\ UNCHANGED protocol
  <2>1. DataOK(n, written \o pendingData, <<>>, queued) /\ DataOK(n, written, <<>>, queued)
    BY <1>1, FlushData
  <2>2. written' = written \o pendingData \/ written' = written BY <1>5 DEF Flushed, Wrote
  <2>3. Data' BY <2>1, <2>2, <1>4, <1>5 DEF Data, protocol
  <2>4. PInv' BY <1>5 DEF protocol, Inv, PInv, ProtocolTypeOK, Awaited
  <2> QED BY <1>2, <1>3, <2>3, <2>4 DEF Inv
<1>6. CASE SendMessage /\ written' = Flushed(Wrote(written, <<n + 1>>))
  <2>1. PInv' /\ Len(messages') = n + 1 BY <1>6, SendKeeps DEF Inv
  <2>2. DataOK(n + 1, written, pendingData, queued) BY <1>1, WidenData
  <2>3. DataOK(n + 1, written \o <<n + 1>>, pendingData, queued) BY <1>1, WriteData
  <2>4. /\ DataOK(n + 1, written, <<>>, queued)
        /\ DataOK(n + 1, (written \o <<n + 1>>) \o pendingData, <<>>, queued)
    BY <1>1, <2>2, <2>3, FlushData
  <2>5. written' = written \/ written' = (written \o <<n + 1>>) \o pendingData
    BY <1>6 DEF Flushed, Wrote
  <2>6. Data' BY <2>1, <2>4, <2>5, <1>4 DEF Data
  <2> QED BY <1>2, <1>3, <2>1, <2>6 DEF Inv
<1> QED BY <1>5, <1>6 DEF Opened

(* A connection lost leaves what waits a retry, or has used up the last.   *)
LEMMA LostStep == ASSUME Inv, NEW s \in Sockets, Failed(s) \/ Closed(s) PROVE Inv'
<1>1. MaxRetries \in Nat BY InvFacts
<1>2. HandleDisconnect /\ Breaks(s)
      /\ UNCHANGED <<protocol, ending, socket, reconnect, pendingData, queued, written>>
      /\ sockets' \in [Sockets -> {"closed", "connecting", "open", "failed"}]
  BY DEF Failed, Closed, Inv, ConnectionOK
<1>3. events' \in 0 .. MaxEvents
  BY <1>2, EventOK DEF Breaks, Inv, ConnectionOK
<1>4. retryCount' \in 0 .. MaxRetries /\ retries' \in Nat /\ connected' = FALSE
      /\ (reconnect => retries' > 0 \/ retryCount' = MaxRetries)
  BY <1>1, <1>2 DEF HandleDisconnect, Inv, ConnectionOK
<1>5. ConnectionOK' BY <1>2, <1>3, <1>4 DEF Inv, ConnectionOK
<1>6. PInv' BY <1>2 DEF protocol, Inv, PInv, ProtocolTypeOK, Awaited
<1>7. Data' BY <1>2 DEF protocol, Inv, Data
<1>8. WaitsForSomething' BY <1>2, <1>4 DEF WaitsForSomething
<1> QED BY <1>5, <1>6, <1>7, <1>8 DEF Inv

(* A retry, or a call of connect, puts a socket on its way.                *)
LEMMA ConnectStep == ASSUME Inv, Retry \/ Connect PROVE Inv'
<1>1. /\ NewSocket
      /\ UNCHANGED <<protocol, ending, connected, reconnect, retryCount>>
      /\ UNCHANGED <<pendingData, queued, written>>
  BY DEF Retry, Connect
<1>2. events' \in 0 .. MaxEvents BY EventOK DEF Retry, Connect, Inv, ConnectionOK
<1>3. retries' \in Nat BY DEF Retry, Connect, Inv, ConnectionOK
<1>4. /\ sockets' \in [Sockets -> {"closed", "connecting", "open", "failed"}]
      /\ socket' \in Sockets
      /\ \E s \in Sockets : sockets'[s] = "connecting"
  BY <1>1, NewSocketOK DEF Inv
<1>5. ConnectionOK' BY <1>1, <1>2, <1>3, <1>4 DEF Inv, ConnectionOK
<1>6. PInv' BY <1>1 DEF protocol, Inv, PInv, ProtocolTypeOK, Awaited
<1>7. Data' BY <1>1 DEF protocol, Inv, Data
<1>8. WaitsForSomething' BY <1>1, <1>4 DEF Inv, WaitsForSomething
<1> QED BY <1>5, <1>6, <1>7, <1>8 DEF Inv

(* disconnect stops the reconnecting, its callback the connection.         *)
LEMMA EndStep == ASSUME Inv, Disconnect \/ \E s \in Sockets : Ended(s) PROVE Inv'
<1>1. /\ UNCHANGED <<protocol, sockets, retryCount, retries>>
      /\ UNCHANGED <<pendingData, queued, written>>
      /\ reconnect' \in {reconnect, FALSE} /\ connected' \in {connected, FALSE}
  BY DEF Disconnect, Ended
<1>2. events' \in 0 .. MaxEvents BY EventOK DEF Disconnect, Ended, Inv, ConnectionOK
<1>3. ending' \subseteq Sockets /\ socket' \in Sockets \cup {NoSocket}
  BY DEF Disconnect, Ended, Inv, ConnectionOK
<1>4. ConnectionOK' BY <1>1, <1>2, <1>3 DEF Inv, ConnectionOK
<1>5. PInv' BY <1>1 DEF protocol, Inv, PInv, ProtocolTypeOK, Awaited
<1>6. Data' BY <1>1 DEF protocol, Inv, Data
<1>7. WaitsForSomething' BY <1>1 DEF Inv, WaitsForSomething
<1> QED BY <1>4, <1>5, <1>6, <1>7 DEF Inv

LEMMA InvStep == ASSUME Inv, [Next]_vars PROVE Inv'
<1>1. CASE Send BY <1>1, SendStep
<1>2. CASE Connect \/ Retry BY <1>2, ConnectStep
<1>3. CASE Disconnect \/ \E s \in Sockets : Ended(s) BY <1>3, EndStep
<1>4. CASE ResetProtocol
  <2>1. PInv' /\ DOMAIN messages' = DOMAIN messages
    BY <1>4, QuietKeeps DEF ResetProtocol, Inv
  <2>2. events' \in 0 .. MaxEvents BY <1>4, EventOK DEF ResetProtocol
  <2> QED BY <2>1, <2>2, <1>4, LayerStep DEF ResetProtocol
<1>5. CASE Receive
  <2>1. PInv' /\ DOMAIN messages' = DOMAIN messages
    BY <1>5, QuietKeeps, AnswerKeeps DEF Receive, Inv
  <2>2. UNCHANGED <<sockets, ending, socket, connected, reconnect, retryCount, retries>>
        /\ events' \in 0 .. MaxEvents /\ UNCHANGED <<pendingData, queued, written>>
    BY <1>5 DEF Receive, endpoint, connection, Inv, ConnectionOK
  <2> QED BY <2>1, <2>2, LayerStep
<1>6. CASE MessageTimer
  <2>1. PICK m \in 1 .. MaxMessages : MessageTimeout(m) /\ UNCHANGED endpoint
    BY <1>6 DEF MessageTimer, TimeOut
  <2>2. PInv' /\ DOMAIN messages' = DOMAIN messages BY <2>1, TimeoutKeeps DEF Inv
  <2>3. UNCHANGED <<sockets, ending, socket, connected, reconnect, retryCount, retries>>
        /\ events' \in 0 .. MaxEvents /\ UNCHANGED <<pendingData, queued, written>>
    BY <2>1 DEF endpoint, connection, Inv, ConnectionOK
  <2> QED BY <2>2, <2>3, LayerStep
<1>7. CASE \E s \in Sockets : Opened(s) BY <1>7, OpenedStep
<1>8. CASE \E s \in Sockets : Failed(s) \/ Closed(s) BY <1>8, LostStep
<1>9. CASE UNCHANGED vars
  <2>1. PInv' /\ DOMAIN messages' = DOMAIN messages
    BY <1>9 DEF vars, protocol, Inv, PInv, ProtocolTypeOK, Awaited
  <2>2. UNCHANGED <<sockets, ending, socket, connected, reconnect, retryCount, retries>>
        /\ events' \in 0 .. MaxEvents /\ UNCHANGED <<pendingData, queued, written>>
    BY <1>9 DEF vars, endpoint, connection, Inv, ConnectionOK
  <2> QED BY <2>1, <2>2, LayerStep
<1> QED BY <1>1, <1>2, <1>3, <1>4, <1>5, <1>6, <1>7, <1>8, <1>9 DEF Next

LEMMA Invariant == Spec => []Inv
<1>1. Init => Inv BY InvInit
<1>2. Inv /\ [Next]_vars => Inv' BY InvStep
<1> QED BY <1>1, <1>2, PTL DEF Spec

-----------------------------------------------------------------------------
(* Every variable keeps its type, and the retries their number             *)
(* (NetworkEndpoint.js, ProtocolHandler.js).                               *)
THEOREM Typing == Spec => []TypeOK
<1>1. ASSUME Inv PROVE TypeOK
  <2>1. DOMAIN messages = 1 .. Len(messages) BY <1>1, InvFacts
  <2>2. pendingData \in Seq(DOMAIN messages) /\ written \in Seq(DOMAIN messages)
        /\ queued \subseteq DOMAIN messages
    BY <1>1, <2>1 DEF Inv, Data, DataOK
  <2> QED BY <1>1, <2>2 DEF Inv, PInv, ConnectionOK, TypeOK
<1>2. Inv => TypeOK BY <1>1
<1> QED BY <1>2, Invariant, PTL

(* Answers, timeouts, resets and lost connections in any order: an answer  *)
(* never finds a promise settled before, and a promise that waits has its  *)
(* timer (sendMessage, handleResponse, handleError, reset).                *)
THEOREM EntriesAwaited == Spec => []Awaited
<1>1. Inv => Awaited BY DEF Inv, PInv
<1> QED BY <1>1, Invariant, PTL

(* Over any number of connections no message is written twice, and what    *)
(* waited is written in the order it was sent (send, connect).             *)
THEOREM WrittenOnceInOrder == Spec => []OnceInOrder
<1>1. ASSUME Inv PROVE OnceInOrder
  <2>1. DOMAIN written = 1 .. Len(written) /\ DOMAIN pendingData = 1 .. Len(pendingData)
    BY <1>1 DEF Inv, Data, DataOK
  <2> QED BY <1>1, <2>1 DEF Inv, Data, DataOK, Ordered, OnceInOrder
<1>2. Inv => OnceInOrder BY <1>1
<1> QED BY <1>2, Invariant, PTL

(* Data waits only while there is no connection, and never without an      *)
(* attempt or a retry on its way while any is left (send,                  *)
(* handleDisconnect).                                                      *)
THEOREM WaitsAlwaysForSomething == Spec => []WaitsForSomething
<1>1. Inv => WaitsForSomething BY DEF Inv
<1> QED BY <1>1, Invariant, PTL
=============================================================================
