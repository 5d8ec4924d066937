--------------------- MODULE PolyCallStateMachine_proofs ---------------------
(***************************************************************************)
(* Proofs about PolyCallStateMachine for every value of its constants.     *)
(*                                                                         *)
(* TypeOK is inductive by itself.  The other properties need three facts   *)
(* that no property states: the recorded checksum of a state, and of the   *)
(* copy in a snapshot of it, is the registered one unless another state's  *)
(* snapshot was restored over it; it is some registered state's even then; *)
(* and a frame of a running transition is bound to its target's version    *)
(* the way a snapshot is.                                                  *)
(***************************************************************************)
EXTENDS PolyCallStateMachine, SequenceTheorems, TLAPS

SumKnown(x, i) ==
  /\ i \notin overwritten => x = RegisteredSum(i)
  /\ \E k \in Ids : x = RegisteredSum(k)

SumsAnchored ==
  /\ \A i \in Ids : SumKnown(states[i].sum, i)
  /\ \A h \in Holders : snaps[h] # NoSnapshot =>
       SumKnown(snaps[h].state.sum, snaps[h].of)

PendingCurrent ==
  \A k \in DOMAIN pending :
    LET to == states[transitions[pending[k].index].to]
    IN  /\ pending[k].seen <= to.version
        /\ pending[k].seen = to.version => ~to.locked

IInv == TypeOK /\ SnapshotsCurrent /\ SumsAnchored /\ PendingCurrent

-----------------------------------------------------------------------------
(* A new version changes nothing else of a state record.                   *)
LEMMA TouchedRecord ==
  ASSUME NEW s \in StateRecords
  PROVE  /\ Touched(s) \in StateRecords
         /\ Touched(s).version = s.version + 1
         /\ Touched(s).locked = s.locked
         /\ Touched(s).sum = s.sum
         /\ Touched(s).content = s.content
  BY DEF Touched, StateRecords

(* add_state registers an unlocked state whose checksum is that of its     *)
(* contents and its id.                                                    *)
LEMMA NewStateRecord ==
  ASSUME NEW c \in Contents, NEW i \in IdArgs
  PROVE  /\ NewState(c, i) \in StateRecords
         /\ NewState(c, i).sum = Checksum[<<c, i>>]
  <1> DEFINE x == Checksum[<<c, i>>]
             s == [content |-> c, id |-> i, sum |-> x, version |-> 1, locked |-> FALSE]
  <1>1. x \in Sums
    BY DEF Sums, Covered
  <1> HIDE DEF x
  <1>2. s \in StateRecords /\ s.sum = x
    BY <1>1 DEF StateRecords
  <1> HIDE DEF s
  <1>3. Touched(s) \in StateRecords /\ Touched(s).sum = x
    BY <1>2, TouchedRecord
  <1> QED BY <1>3 DEF NewState, s, x

(* Popping a non-empty stack keeps the elements below its top.             *)
LEMMA DropLast ==
  ASSUME NEW S, NEW s \in Seq(S), s # <<>>
  PROVE  /\ SubSeq(s, 1, Len(s) - 1) \in Seq(S)
         /\ Len(SubSeq(s, 1, Len(s) - 1)) = Len(s) - 1
         /\ \A j \in DOMAIN SubSeq(s, 1, Len(s) - 1) :
              j \in DOMAIN s /\ SubSeq(s, 1, Len(s) - 1)[j] = s[j]
  <1> DEFINE n == Len(s) - 1
             t == SubSeq(s, 1, n)
  <1>1. n \in Nat /\ DOMAIN s = 1 .. n + 1 /\ \A j \in 1 .. n : s[j] \in S
    OBVIOUS
  <1>2. 1 \in Int /\ n \in Int
    BY <1>1
  <1> HIDE DEF n
  <1>3. /\ t \in Seq(S)
        /\ Len(t) = IF 1 <= n THEN n - 1 + 1 ELSE 0
        /\ \A j \in 1 .. n - 1 + 1 : t[j] = s[1 + j - 1]
    BY <1>1, <1>2, SubSeqProperties
  <1> HIDE DEF t
  <1>4. Len(t) = n /\ \A j \in 1 .. n : t[j] = s[j]
    BY <1>1, <1>3
  <1>5. DOMAIN t = 1 .. n
    BY <1>3, <1>4
  <1>6. t \in Seq(S) /\ Len(t) = n /\ \A j \in DOMAIN t : j \in DOMAIN s /\ t[j] = s[j]
    BY <1>1, <1>3, <1>4, <1>5
  <1> QED BY <1>6 DEF t, n

LEMMA TypeInit == Init => TypeOK
  <1> SUFFICES ASSUME Init PROVE TypeOK
    OBVIOUS
  <1>1. Ids = {}
    BY DEF Init, Ids
  <1>2. states \in [Ids -> StateRecords] /\ original \in [Ids -> Contents]
    BY <1>1 DEF Init
  <1>3. transitions \in Seq(Transitions) /\ Len(transitions) = 0
    BY DEF Init
  <1>4. pending \in Seq(Pendings) /\ Len(pending) = 0
    BY DEF Init
  <1>5. overwritten \subseteq Ids
    BY DEF Init
  <1> QED BY <1>1, <1>2, <1>3, <1>4, <1>5, ConstantsOK DEF Init, TypeOK

(* One step per action that writes one of the typed variables.             *)
LEMMA TypeStep == TypeOK /\ [Next]_vars => TypeOK'
  <1> SUFFICES ASSUME TypeOK, [Next]_vars PROVE TypeOK'
    OBVIOUS
  <1> USE ConstantsOK
  <1>1. ASSUME NEW c \in Contents, AddState(c) PROVE TypeOK'
    <2>1. numStates \in IdArgs /\ NewState(c, numStates) \in StateRecords
      BY <1>1, NewStateRecord DEF AddState, IdArgs, TypeOK
    <2>2. Ids \subseteq Ids' /\ Ids' = 0 .. numStates /\ Ids' = Ids \cup {numStates}
      BY <1>1 DEF AddState, TypeOK, Ids
    <2>3. states' \in [Ids' -> StateRecords] /\ original' \in [Ids' -> Contents]
      BY <1>1, <2>1, <2>2 DEF AddState, TypeOK
    <2> QED BY <1>1, <2>2, <2>3 DEF AddState, TypeOK
  <1>2. ASSUME NEW n \in TNames, NEW from \in IdArgs, NEW to \in IdArgs, NEW g \in BOOLEAN,
               AddTransition(n, from, to, g)
        PROVE  TypeOK'
    <2> DEFINE t == [name |-> n, from |-> from, to |-> to, guarded |-> g]
    <2>1. Ids' = Ids /\ from \in Ids /\ to \in Ids /\ from \in Nat /\ to \in Nat
      BY <1>2 DEF AddTransition, Ids, TypeOK
    <2>2. t \in Transitions
      BY <2>1 DEF Transitions
    <2>3. t.from \in Ids /\ t.to \in Ids
      BY <2>1
    <2> HIDE DEF t
    <2>4. transitions' = Append(transitions, t)
      BY <1>2 DEF AddTransition, t
    <2>5. /\ transitions' \in Seq(Transitions)
          /\ Len(transitions') = Len(transitions) + 1
          /\ \A k \in DOMAIN transitions' : 
               \/ transitions'[k] = t
               \/ k \in DOMAIN transitions /\ transitions'[k] = transitions[k]
          /\ DOMAIN transitions \subseteq DOMAIN transitions'
      BY <2>2, <2>4 DEF TypeOK
    <2>6. /\ Len(transitions') <= MaxTransitions
          /\ \A k \in DOMAIN transitions' :
               transitions'[k].from \in Ids /\ transitions'[k].to \in Ids
      BY <1>2, <2>3, <2>5 DEF AddTransition, TypeOK
    <2> QED BY <1>2, <2>1, <2>5, <2>6 DEF AddTransition, TypeOK
  <1>3. ASSUME NEW n \in TNames, FailTransition(n) PROVE TypeOK'
    BY <1>3 DEF FailTransition, TypeOK, Ids
  <1>4. ASSUME NEW n \in TNames, BeginTransition(n) PROVE TypeOK'
    <2>1. PICK k \in DOMAIN transitions :
            pending' = Append(pending,
              [index |-> k, seen |-> states[transitions[k].to].version])
      BY <1>4 DEF BeginTransition
    <2> DEFINE p == [index |-> k, seen |-> states[transitions[k].to].version]
    <2>2. states[transitions[k].to] \in StateRecords
      BY DEF TypeOK
    <2>3. k \in Nat /\ states[transitions[k].to].version \in Nat
      BY <2>2 DEF TypeOK, StateRecords
    <2>4. p \in Pendings /\ p.index \in DOMAIN transitions
      BY <2>3 DEF Pendings
    <2> HIDE DEF p
    <2>5. pending' = Append(pending, p)
      BY <2>1 DEF p
    <2>6. /\ pending' \in Seq(Pendings)
          /\ Len(pending') = Len(pending) + 1
          /\ \A j \in DOMAIN pending' : 
               \/ pending'[j] = p
               \/ j \in DOMAIN pending /\ pending'[j] = pending[j]
      BY <2>4, <2>5 DEF TypeOK
    <2>7. /\ Len(pending') <= MaxDepth
          /\ \A j \in DOMAIN pending' : pending'[j].index \in DOMAIN transitions
      BY <1>4, <2>4, <2>6 DEF BeginTransition, TypeOK
    <2> QED BY <1>4, <2>6, <2>7 DEF BeginTransition, TypeOK, Ids
  <1>5. ASSUME FinishTransition PROVE TypeOK'
    <2> DEFINE to == transitions[pending[Len(pending)].index].to
    <2>1. Len(pending) \in DOMAIN pending
      BY <1>5 DEF FinishTransition, TypeOK
    <2>2. to \in Ids
      BY <2>1 DEF TypeOK
    <2>3. /\ current' = to
          /\ states' = [states EXCEPT ![to] = Touched(states[to])]
          /\ pending' = SubSeq(pending, 1, Len(pending) - 1)
          /\ UNCHANGED <<numStates, transitions, snaps, failed, violations, original, overwritten>>
      BY <1>5 DEF FinishTransition
    <2> HIDE DEF to
    <2>4. Touched(states[to]) \in StateRecords
      BY <2>2, TouchedRecord DEF TypeOK
    <2>5. states' \in [Ids -> StateRecords]
      BY <2>2, <2>3, <2>4 DEF TypeOK
    <2>6. /\ pending' \in Seq(Pendings)
          /\ Len(pending') = Len(pending) - 1
          /\ \A j \in DOMAIN pending' : j \in DOMAIN pending /\ pending'[j] = pending[j]
      <3>1. pending # <<>> /\ pending' = SubSeq(pending, 1, Len(pending) - 1)
        BY <1>5 DEF FinishTransition
      <3>2. pending \in Seq(Pendings)
        BY DEF TypeOK
      <3> DEFINE t == SubSeq(pending, 1, Len(pending) - 1)
      <3>3. /\ t \in Seq(Pendings)
            /\ Len(t) = Len(pending) - 1
            /\ \A j \in DOMAIN t : j \in DOMAIN pending /\ t[j] = pending[j]
        BY <3>1, <3>2, DropLast, Zenon
      <3> HIDE DEF t
      <3>4. pending' = t
        BY <3>1 DEF t
      <3> QED BY <3>3, <3>4, Zenon
    <2>7. /\ Len(pending') <= MaxDepth
          /\ \A j \in DOMAIN pending' : pending'[j].index \in DOMAIN transitions
      BY <2>1, <2>6 DEF TypeOK
    <2>8. Ids' = Ids /\ current' \in Ids
      BY <2>2, <2>3 DEF Ids
    <2> QED BY <2>3, <2>5, <2>6, <2>7, <2>8 DEF TypeOK
  <1>6. ASSUME NEW i \in IdArgs, VerifyStateIntegrity(i) PROVE TypeOK'
    BY <1>6 DEF VerifyStateIntegrity, TypeOK, Ids
  <1>7. ASSUME NEW i \in IdArgs, NEW flag \in BOOLEAN, SetLock(i, flag) PROVE TypeOK'
    <2>1. i \in Ids /\ states' = [states EXCEPT ![i] = Touched([states[i] EXCEPT !.locked = flag])]
      BY <1>7 DEF SetLock
    <2>2. [states[i] EXCEPT !.locked = flag] \in StateRecords
      BY <2>1 DEF TypeOK, StateRecords
    <2>3. states' \in [Ids -> StateRecords]
      BY <2>1, <2>2, TouchedRecord DEF TypeOK
    <2> QED BY <1>7, <2>3 DEF SetLock, TypeOK, Ids
  <1>8. ASSUME NEW h \in Holders, NEW i \in IdArgs, CreateSnapshot(h, i) PROVE TypeOK'
    <2>1. i \in Ids /\ snaps' = [snaps EXCEPT ![h] = [of |-> i, state |-> states[i]]]
      BY <1>8 DEF CreateSnapshot
    <2>2. [of |-> i, state |-> states[i]] \in Snapshots
      BY <2>1 DEF TypeOK, Snapshots, Ids
    <2>3. /\ snaps' \in [Holders -> Snapshots \cup {NoSnapshot}]
          /\ \A g \in Holders : snaps'[g] # NoSnapshot => snaps'[g].of \in Ids
      BY <2>1, <2>2 DEF TypeOK
    <2> QED BY <1>8, <2>3 DEF CreateSnapshot, TypeOK, Ids
  <1>9. ASSUME NEW h \in Holders, RestoreFromSnapshot(h) PROVE TypeOK'
    <2>1. /\ snaps[h] \in Snapshots /\ snaps[h].state.id \in Ids
          /\ states' = [states EXCEPT ![snaps[h].state.id] = Touched(snaps[h].state)]
      BY <1>9 DEF RestoreFromSnapshot, CopyBack, TypeOK
    <2>2. snaps[h].state \in StateRecords
      BY <2>1 DEF Snapshots
    <2>3. states' \in [Ids -> StateRecords]
      BY <2>1, <2>2, TouchedRecord DEF TypeOK
    <2>4. overwritten' \subseteq Ids
      BY <1>9, <2>1 DEF RestoreFromSnapshot, CopyBack, TypeOK
    <2> QED BY <1>9, <2>3, <2>4 DEF RestoreFromSnapshot, CopyBack, TypeOK, Ids
  <1>10. ASSUME NEW i \in IdArgs, NEW id \in IdArgs, NEW c \in Contents, Corrupt(i, c, id)
         PROVE  TypeOK'
    <2> DEFINE s == [states[i] EXCEPT !.content = c, !.id = id]
    <2>1. i \in Ids /\ states' = [states EXCEPT ![i] = s]
      BY <1>10 DEF Corrupt
    <2>2. s \in StateRecords
      BY <2>1 DEF TypeOK, StateRecords
    <2> HIDE DEF s
    <2>3. states' \in [Ids -> StateRecords]
      BY <2>1, <2>2 DEF TypeOK
    <2> QED BY <1>10, <2>3 DEF Corrupt, TypeOK, Ids
  <1>11. ASSUME UNCHANGED vars PROVE TypeOK'
    BY <1>11 DEF vars, TypeOK, Ids
  <1> QED
    BY <1>1, <1>2, <1>3, <1>4, <1>5, <1>6, <1>7, <1>8, <1>9, <1>10, <1>11
       DEF Next, LockState, UnlockState

(* The ids by which transitions, calls and snapshots name states are below *)
(* num_states, whatever the callers and the callbacks do.                  *)
THEOREM TypeCorrect == Spec => []TypeOK
  BY TypeInit, TypeStep, PTL DEF Spec

-----------------------------------------------------------------------------
(* How a step may treat the registered state i.                            *)
Kept(i) ==
  /\ i \in Ids'
  /\ states[i] \in StateRecords /\ states'[i] \in StateRecords
  /\ original'[i] = original[i]
  /\ states'[i].version >= states[i].version
  /\ states'[i].version = states[i].version => states'[i].locked = states[i].locked
  /\ i \notin overwritten' => states'[i].sum = RegisteredSum(i)
  /\ \E k \in Ids : states'[i].sum = RegisteredSum(k)

LEMMA StateKept == ASSUME IInv, [Next]_vars PROVE \A i \in Ids : Kept(i)
  <1> USE ConstantsOK
  <1>a. TypeOK /\ TypeOK'
    BY TypeStep DEF IInv
  <1>0. ASSUME NEW i \in Ids
        PROVE  /\ states[i] \in StateRecords
               /\ states[i].version \in Nat
               /\ SumKnown(states[i].sum, i)
    <2>1. states[i] \in StateRecords
      BY DEF IInv, TypeOK
    <2> QED BY <2>1 DEF IInv, SumsAnchored, StateRecords
  <1>b. ASSUME UNCHANGED <<numStates, states, original, overwritten>>
        PROVE  \A i \in Ids : Kept(i)
    BY <1>b, <1>0 DEF Kept, Ids, SumKnown
  <1>c. ASSUME NEW i \in Ids, NEW s \in StateRecords,
               UNCHANGED <<numStates, original>>,
               overwritten \subseteq overwritten',
               states' = [states EXCEPT ![i] = s],
               s.version >= states[i].version,
               s.version = states[i].version => s.locked = states[i].locked,
               i \notin overwritten' => s.sum = RegisteredSum(i),
               \E k \in Ids : s.sum = RegisteredSum(k)
        PROVE  \A j \in Ids : Kept(j)
    <2> TAKE j \in Ids
    <2>1. Ids' = Ids /\ states' \in [Ids -> StateRecords] /\ states \in [Ids -> StateRecords]
      BY <1>c, <1>a DEF TypeOK, Ids
    <2>2. CASE j = i
      BY <1>c, <2>1, <2>2, <1>0 DEF Kept
    <2>3. CASE j # i
      <3>1. states'[j] = states[j]
        BY <1>c, <2>1, <2>3
      <3>2. SumKnown(states[j].sum, j)
        BY <1>0
      <3> QED BY <3>1, <3>2, <1>c, <2>1, <1>0 DEF Kept, SumKnown
    <2> QED BY <2>2, <2>3
  <1>d. ASSUME NEW i \in Ids, NEW s \in StateRecords,
               UNCHANGED <<numStates, original, overwritten>>,
               states' = [states EXCEPT ![i] = s],
               s.version >= states[i].version,
               s.version = states[i].version => s.locked = states[i].locked,
               s.sum = states[i].sum
        PROVE  \A j \in Ids : Kept(j)
    <2>1. /\ i \notin overwritten' => s.sum = RegisteredSum(i)
          /\ \E k \in Ids : s.sum = RegisteredSum(k)
      BY <1>d, <1>0 DEF SumKnown
    <2> QED BY <1>c, <1>d, <2>1
  <1>1. ASSUME NEW c \in Contents, AddState(c) PROVE \A i \in Ids : Kept(i)
    <2> TAKE i \in Ids
    <2>1. i \in 0 .. numStates /\ i # numStates /\ Ids' = 0 .. numStates
      BY <1>1, <1>a DEF AddState, Ids, TypeOK
    <2>2. states'[i] = states[i] /\ original'[i] = original[i]
      BY <1>1, <2>1 DEF AddState
    <2>3. overwritten' = overwritten /\ SumKnown(states[i].sum, i)
      BY <1>1, <1>0 DEF AddState
    <2>4. /\ i \notin overwritten' => states'[i].sum = RegisteredSum(i)
          /\ \E k \in Ids : states'[i].sum = RegisteredSum(k)
      BY <2>2, <2>3 DEF SumKnown
    <2>5. states[i] \in StateRecords /\ states[i].version \in Nat
      BY <1>0
    <2> QED BY <2>1, <2>2, <2>4, <2>5 DEF Kept
  <1>2. ASSUME NEW n \in TNames, NEW from \in IdArgs, NEW to \in IdArgs, NEW g \in BOOLEAN,
               AddTransition(n, from, to, g)
        PROVE  \A i \in Ids : Kept(i)
    BY <1>2, <1>b DEF AddTransition
  <1>3. ASSUME NEW n \in TNames, FailTransition(n) \/ BeginTransition(n)
        PROVE  \A i \in Ids : Kept(i)
    BY <1>3, <1>b DEF FailTransition, BeginTransition
  <1>4. ASSUME FinishTransition PROVE \A i \in Ids : Kept(i)
    <2> DEFINE to == transitions[pending[Len(pending)].index].to
    <2>1. to \in Ids
      BY <1>4, <1>a DEF FinishTransition, TypeOK
    <2>2. states' = [states EXCEPT ![to] = Touched(states[to])] /\ UNCHANGED <<numStates, original, overwritten>>
      BY <1>4 DEF FinishTransition
    <2> HIDE DEF to
    <2>3. /\ Touched(states[to]) \in StateRecords
          /\ Touched(states[to]).version = states[to].version + 1
          /\ Touched(states[to]).sum = states[to].sum
      BY <2>1, <1>0, TouchedRecord
    <2>4. /\ Touched(states[to]).version >= states[to].version
          /\ Touched(states[to]).version # states[to].version
      BY <2>1, <2>3, <1>0
    <2> QED BY <2>1, <2>2, <2>3, <2>4, <1>d
  <1>5. ASSUME NEW i \in IdArgs, VerifyStateIntegrity(i) PROVE \A j \in Ids : Kept(j)
    BY <1>5, <1>b DEF VerifyStateIntegrity
  <1>6. ASSUME NEW i \in IdArgs, NEW flag \in BOOLEAN, SetLock(i, flag)
        PROVE  \A j \in Ids : Kept(j)
    <2> DEFINE s == [states[i] EXCEPT !.locked = flag]
    <2>1. /\ i \in Ids /\ UNCHANGED <<numStates, original, overwritten>>
          /\ states' = [states EXCEPT ![i] = Touched(s)]
      BY <1>6 DEF SetLock
    <2>2. s \in StateRecords /\ s.version = states[i].version /\ s.sum = states[i].sum
      BY <2>1, <1>0 DEF StateRecords
    <2> HIDE DEF s
    <2>3. /\ Touched(s) \in StateRecords
          /\ Touched(s).version = states[i].version + 1
          /\ Touched(s).sum = states[i].sum
      BY <2>2, TouchedRecord
    <2>4. Touched(s).version >= states[i].version /\ Touched(s).version # states[i].version
      BY <2>1, <2>3, <1>0
    <2> QED BY <2>1, <2>3, <2>4, <1>d
  <1>7. ASSUME NEW h \in Holders, NEW i \in IdArgs, CreateSnapshot(h, i)
        PROVE  \A j \in Ids : Kept(j)
    BY <1>7, <1>b DEF CreateSnapshot
  <1>8. ASSUME NEW h \in Holders, RestoreFromSnapshot(h) PROVE \A j \in Ids : Kept(j)
    <2> DEFINE o == snaps[h].of
               s == snaps[h].state
    <2>1. /\ s.id \in Ids /\ UNCHANGED <<numStates, original>>
          /\ states' = [states EXCEPT ![s.id] = Touched(s)]
          /\ states[s.id].version = s.version
          /\ overwritten' = IF o = s.id THEN overwritten ELSE overwritten \cup {s.id}
      BY <1>8 DEF RestoreFromSnapshot, CopyBack
    <2>2. snaps[h] \in Snapshots /\ SumKnown(s.sum, o)
      BY <1>8 DEF RestoreFromSnapshot, IInv, TypeOK, SumsAnchored
    <2>3. s \in StateRecords
      BY <2>2 DEF Snapshots
    <2> HIDE DEF o, s
    <2>4. /\ Touched(s) \in StateRecords
          /\ Touched(s).version = states[s.id].version + 1
          /\ Touched(s).sum = s.sum
      BY <2>1, <2>3, TouchedRecord
    <2>5. /\ Touched(s).version >= states[s.id].version
          /\ Touched(s).version # states[s.id].version
      BY <2>1, <2>4, <1>0
    <2>6. overwritten \subseteq overwritten' /\ (s.id \notin overwritten' => o = s.id)
      BY <2>1
    <2>7. /\ s.id \notin overwritten' => Touched(s).sum = RegisteredSum(s.id)
          /\ \E k \in Ids : Touched(s).sum = RegisteredSum(k)
      BY <2>2, <2>4, <2>6 DEF SumKnown
    <2> DEFINE i == s.id
               t == Touched(s)
    <2>8. i \in Ids /\ t \in StateRecords
      BY <2>1, <2>4
    <2>9. /\ UNCHANGED <<numStates, original>>
          /\ states' = [states EXCEPT ![i] = t]
          /\ overwritten \subseteq overwritten'
          /\ t.version >= states[i].version /\ t.version # states[i].version
          /\ i \notin overwritten' => t.sum = RegisteredSum(i)
          /\ \E k \in Ids : t.sum = RegisteredSum(k)
      BY <2>1, <2>5, <2>6, <2>7
    <2> HIDE DEF i, t
    <2> QED BY <2>8, <2>9, <1>c
  <1>9. ASSUME NEW i \in IdArgs, NEW id \in IdArgs, NEW c \in Contents, Corrupt(i, c, id)
        PROVE  \A j \in Ids : Kept(j)
    <2> DEFINE s == [states[i] EXCEPT !.content = c, !.id = id]
    <2>1. /\ i \in Ids /\ UNCHANGED <<numStates, original, overwritten>>
          /\ states' = [states EXCEPT ![i] = s]
      BY <1>9 DEF Corrupt
    <2>2. /\ s \in StateRecords /\ s.version = states[i].version
          /\ s.sum = states[i].sum /\ s.locked = states[i].locked
      BY <2>1, <1>0 DEF StateRecords
    <2> HIDE DEF s
    <2>3. s.version >= states[i].version
      BY <2>1, <2>2, <1>0
    <2> QED BY <2>1, <2>2, <2>3, <1>d
  <1>10. ASSUME UNCHANGED vars PROVE \A i \in Ids : Kept(i)
    BY <1>10, <1>b DEF vars
  <1> QED
    BY <1>1, <1>2, <1>3, <1>4, <1>5, <1>6, <1>7, <1>8, <1>9, <1>10
       DEF Next, LockState, UnlockState

(* A step leaves a snapshot alone or takes a fresh one of a state that it  *)
(* does not change.                                                        *)
LEMMA SnapshotKept ==
  ASSUME [Next]_vars, TypeOK, NEW h \in Holders
  PROVE  \/ snaps'[h] = snaps[h]
         \/ \E i \in Ids : /\ snaps'[h] = [of |-> i, state |-> states[i]]
                           /\ UNCHANGED <<states, original, overwritten>>
  <1>1. ASSUME NEW g \in Holders, NEW i \in IdArgs, CreateSnapshot(g, i)
        PROVE  \/ snaps'[h] = snaps[h]
               \/ \E j \in Ids : /\ snaps'[h] = [of |-> j, state |-> states[j]]
                                 /\ UNCHANGED <<states, original, overwritten>>
    BY <1>1 DEF CreateSnapshot, TypeOK
  <1> QED
    BY <1>1 DEF Next, vars, AddState, AddTransition, FailTransition, BeginTransition,
         FinishTransition, VerifyStateIntegrity, LockState, UnlockState, SetLock,
         RestoreFromSnapshot, CopyBack, Corrupt

(* A step leaves a frame alone or pushes one whose target it has just seen *)
(* unlocked, and it never changes a transition that is there.              *)
LEMMA FrameKept ==
  ASSUME [Next]_vars, TypeOK
  PROVE  /\ \A k \in DOMAIN transitions : transitions'[k] = transitions[k]
         /\ \A k \in DOMAIN pending' :
              \/ k \in DOMAIN pending /\ pending'[k] = pending[k]
              \/ /\ states' = states
                 /\ pending'[k].index \in DOMAIN transitions
                 /\ ~states[transitions[pending'[k].index].to].locked
                 /\ pending'[k].seen = states[transitions[pending'[k].index].to].version
  <1>1. ASSUME NEW n \in TNames, NEW from \in IdArgs, NEW to \in IdArgs, NEW g \in BOOLEAN,
               AddTransition(n, from, to, g)
        PROVE  /\ \A k \in DOMAIN transitions : transitions'[k] = transitions[k]
               /\ pending' = pending
    <2> DEFINE t == [name |-> n, from |-> from, to |-> to, guarded |-> g]
    <2>1. from \in Ids /\ to \in Ids /\ Ids \subseteq Nat
      BY <1>1 DEF AddTransition, Ids, TypeOK
    <2>2. t \in Transitions
      BY <2>1 DEF Transitions
    <2> HIDE DEF t
    <2>3. transitions' = Append(transitions, t) /\ pending' = pending
      BY <1>1 DEF AddTransition, t
    <2>4. \A k \in DOMAIN transitions : transitions'[k] = transitions[k]
      BY <2>2, <2>3 DEF TypeOK
    <2> QED BY <2>3, <2>4
  <1>2. ASSUME NEW n \in TNames, BeginTransition(n)
        PROVE  /\ UNCHANGED <<states, transitions>>
               /\ \A j \in DOMAIN pending' :
                    \/ j \in DOMAIN pending /\ pending'[j] = pending[j]
                    \/ /\ pending'[j].index \in DOMAIN transitions
                       /\ ~states[transitions[pending'[j].index].to].locked
                       /\ pending'[j].seen = states[transitions[pending'[j].index].to].version
    <2>1. PICK k \in DOMAIN transitions :
            /\ ~Locked(k)
            /\ pending' = Append(pending,
                 [index |-> k, seen |-> states[transitions[k].to].version])
      BY <1>2 DEF BeginTransition
    <2> DEFINE p == [index |-> k, seen |-> states[transitions[k].to].version]
    <2>2. states[transitions[k].to] \in StateRecords
      BY DEF TypeOK
    <2>3. k \in Nat /\ states[transitions[k].to].version \in Nat
      BY <2>2 DEF TypeOK, StateRecords
    <2>4. p \in Pendings /\ p.index = k /\ p.seen = states[transitions[k].to].version
      BY <2>3 DEF Pendings
    <2> HIDE DEF p
    <2>5. pending' = Append(pending, p)
      BY <2>1 DEF p
    <2>6. \A j \in DOMAIN pending' :
            \/ j \in DOMAIN pending /\ pending'[j] = pending[j]
            \/ pending'[j] = p
      BY <2>4, <2>5 DEF TypeOK
    <2>7. ~states[transitions[k].to].locked
      BY <2>1 DEF Locked
    <2>8. UNCHANGED <<states, transitions>>
      BY <1>2 DEF BeginTransition
    <2> QED BY <2>4, <2>6, <2>7, <2>8
  <1>3. ASSUME FinishTransition
        PROVE  /\ transitions' = transitions
               /\ \A j \in DOMAIN pending' : j \in DOMAIN pending /\ pending'[j] = pending[j]
    <2>1. pending # <<>> /\ pending' = SubSeq(pending, 1, Len(pending) - 1)
      BY <1>3 DEF FinishTransition
    <2>2. pending \in Seq(Pendings) /\ transitions' = transitions
      BY <1>3 DEF TypeOK, FinishTransition
    <2> DEFINE t == SubSeq(pending, 1, Len(pending) - 1)
    <2>3. \A j \in DOMAIN t : j \in DOMAIN pending /\ t[j] = pending[j]
      BY <2>1, <2>2, DropLast, Zenon
    <2> HIDE DEF t
    <2>4. pending' = t
      BY <2>1 DEF t
    <2> QED BY <2>2, <2>3, <2>4, Zenon
  <1>4. [Next]_vars =>
          \/ UNCHANGED <<transitions, pending>>
          \/ \E n \in TNames, from \in IdArgs, to \in IdArgs, g \in BOOLEAN :
               AddTransition(n, from, to, g)
          \/ \E n \in TNames : BeginTransition(n)
          \/ FinishTransition
    BY DEF Next, vars, AddState, FailTransition, VerifyStateIntegrity, LockState,
         UnlockState, SetLock, CreateSnapshot, RestoreFromSnapshot, CopyBack, Corrupt
  <1> QED BY <1>1, <1>2, <1>3, <1>4

LEMMA IInvInit == Init => IInv
  <1> SUFFICES ASSUME Init PROVE IInv
    OBVIOUS
  <1>1. Ids = {} /\ DOMAIN pending = {} /\ \A h \in Holders : snaps[h] = NoSnapshot
    BY DEF Init, Ids
  <1> QED BY <1>1, TypeInit DEF IInv, SnapshotsCurrent, SumsAnchored, PendingCurrent

LEMMA IInvStep == IInv /\ [Next]_vars => IInv'
  <1> SUFFICES ASSUME IInv, [Next]_vars PROVE IInv'
    OBVIOUS
  <1>1. TypeOK /\ TypeOK'
    BY TypeStep DEF IInv
  <1>2. \A i \in Ids : Kept(i)
    BY StateKept
  <1>3. ASSUME NEW x, NEW i \in Ids,
               i \notin overwritten' => x = RegisteredSum(i),
               \E k \in Ids : x = RegisteredSum(k)
        PROVE  /\ i \notin overwritten' => x = Checksum[<<original'[i], i>>]
               /\ \E k \in Ids' : x = Checksum[<<original'[k], k>>]
    <2>1. original'[i] = original[i]
      BY <1>2 DEF Kept
    <2>2. PICK k \in Ids : x = RegisteredSum(k)
      BY <1>3
    <2>3. k \in Ids' /\ original'[k] = original[k]
      BY <1>2 DEF Kept
    <2> QED BY <1>3, <2>1, <2>2, <2>3 DEF RegisteredSum
  <1>o. overwritten \subseteq overwritten'
    BY DEF Next, vars, AddState, AddTransition, FailTransition, BeginTransition, FinishTransition,
         VerifyStateIntegrity, LockState, UnlockState, SetLock, CreateSnapshot,
         RestoreFromSnapshot, CopyBack, Corrupt
  <1> DEFINE Known(x, i) == /\ i \notin overwritten' => x = Checksum[<<original'[i], i>>]
                            /\ \E k \in Ids' : x = Checksum[<<original'[k], k>>]
  <1>4. \A h \in Holders : snaps'[h] # NoSnapshot =>
          /\ snaps'[h].state.version <= states'[snaps'[h].of].version
          /\ snaps'[h].state.version = states'[snaps'[h].of].version
               => snaps'[h].state.locked = states'[snaps'[h].of].locked
          /\ Known(snaps'[h].state.sum, snaps'[h].of)
    <2> TAKE h \in Holders
    <2> HAVE snaps'[h] # NoSnapshot
    <2>1. CASE snaps'[h] = snaps[h]
      <3> DEFINE i == snaps[h].of
                 s == snaps[h].state
      <3>1. i \in Ids /\ snaps[h] \in Snapshots
        BY <1>1, <2>1 DEF TypeOK
      <3>2. s \in StateRecords
        BY <3>1 DEF Snapshots
      <3>3. /\ s.version <= states[i].version
            /\ s.version = states[i].version => s.locked = states[i].locked
            /\ SumKnown(s.sum, i)
        BY <2>1 DEF IInv, SnapshotsCurrent, SumsAnchored
      <3>4. Kept(i)
        BY <3>1, <1>2
      <3> HIDE DEF i, s
      <3>5. s.version \in Nat /\ states[i].version \in Nat /\ states'[i].version \in Nat
        BY <3>2, <3>4 DEF Kept, StateRecords
      <3>6. /\ s.version <= states'[i].version
            /\ s.version = states'[i].version => s.locked = states'[i].locked
        BY <3>3, <3>4, <3>5 DEF Kept
      <3>7. /\ i \notin overwritten' => s.sum = RegisteredSum(i)
            /\ \E k \in Ids : s.sum = RegisteredSum(k)
        BY <1>o, <3>3 DEF SumKnown
      <3>8. Known(s.sum, i)
        BY <1>3, <3>1, <3>7
      <3> HIDE DEF Known
      <3> QED BY <2>1, <3>6, <3>8 DEF i, s
    <2>2. ASSUME NEW i \in Ids, snaps'[h] = [of |-> i, state |-> states[i]],
                 UNCHANGED <<states, original, overwritten>>
          PROVE  /\ snaps'[h].state.version <= states'[snaps'[h].of].version
                 /\ snaps'[h].state.version = states'[snaps'[h].of].version
                      => snaps'[h].state.locked = states'[snaps'[h].of].locked
                 /\ Known(snaps'[h].state.sum, snaps'[h].of)
      <3>1. states[i] \in StateRecords /\ SumKnown(states[i].sum, i)
        BY <1>1 DEF TypeOK, IInv, SumsAnchored
      <3>2. Known(states[i].sum, i)
        BY <1>3, <2>2, <3>1 DEF SumKnown
      <3> HIDE DEF Known
      <3> QED BY <2>2, <3>1, <3>2 DEF StateRecords
    <2> HIDE DEF Known
    <2> QED BY <1>1, <2>1, <2>2, SnapshotKept
  <1>7. \A i \in Ids' : Known(states'[i].sum, i)
    <2>1. ASSUME NEW i \in Ids PROVE Known(states'[i].sum, i)
      BY <1>2, <1>3, <2>1 DEF Kept
    <2>2. ASSUME NEW c \in Contents, AddState(c)
          PROVE  \A i \in Ids' : i \in Ids \/ Known(states'[i].sum, i)
      <3> TAKE i \in Ids'
      <3>1. Ids' = 0 .. numStates /\ (i \in Ids \/ i = numStates)
        BY <2>2, <1>1 DEF AddState, Ids, TypeOK
      <3>2. CASE i = numStates
        <4>1. i \in IdArgs
          BY <2>2, <3>2, <1>1 DEF AddState, IdArgs, TypeOK
        <4>2. states'[i] = NewState(c, i) /\ original'[i] = c
          BY <2>2, <3>1, <3>2 DEF AddState
        <4>3. states'[i].sum = Checksum[<<original'[i], i>>]
          BY <4>1, <4>2, NewStateRecord
        <4> QED BY <4>3
      <3> QED BY <3>1, <3>2
    <2>3. Ids' = Ids \/ \E c \in Contents : AddState(c)
      BY DEF Next, vars, Ids, AddTransition, FailTransition, BeginTransition, FinishTransition,
           VerifyStateIntegrity, LockState, UnlockState, SetLock, CreateSnapshot,
           RestoreFromSnapshot, CopyBack, Corrupt
    <2> HIDE DEF Known
    <2> QED BY <2>1, <2>2, <2>3
  <1>8. SnapshotsCurrent' /\ SumsAnchored'
    BY <1>4, <1>7 DEF SnapshotsCurrent, SumsAnchored, SumKnown, RegisteredSum
  <1>5. PendingCurrent'
    <2> SUFFICES ASSUME NEW k \in DOMAIN pending'
                 PROVE  LET to == states'[transitions'[pending'[k].index].to]
                        IN  /\ pending'[k].seen <= to.version
                            /\ pending'[k].seen = to.version => ~to.locked
      BY DEF PendingCurrent
    <2>0. \A j \in DOMAIN transitions : transitions'[j] = transitions[j]
      BY <1>1, FrameKept
    <2>1. CASE k \in DOMAIN pending /\ pending'[k] = pending[k]
      <3> DEFINE p == pending[k]
                 i == transitions[p.index].to
      <3>1. p \in Pendings /\ p.index \in DOMAIN transitions /\ i \in Ids
        BY <1>1, <2>1 DEF TypeOK
      <3>2. /\ p.seen <= states[i].version
            /\ p.seen = states[i].version => ~states[i].locked
        BY <2>1 DEF IInv, PendingCurrent
      <3>3. Kept(i) /\ transitions'[p.index].to = i
        BY <1>2, <2>0, <3>1
      <3> HIDE DEF p, i
      <3>4. p.seen \in Nat /\ states[i].version \in Nat /\ states'[i].version \in Nat
        BY <3>1, <3>3 DEF Kept, StateRecords, Pendings
      <3>5. /\ p.seen <= states'[i].version
            /\ p.seen = states'[i].version => ~states'[i].locked
        BY <3>2, <3>3, <3>4 DEF Kept
      <3>6. pending'[k] = p
        BY <2>1 DEF p
      <3> QED BY <3>3, <3>5, <3>6
    <2>2. CASE /\ states' = states
               /\ pending'[k].index \in DOMAIN transitions
               /\ ~states[transitions[pending'[k].index].to].locked
               /\ pending'[k].seen = states[transitions[pending'[k].index].to].version
      <3> DEFINE i == transitions[pending'[k].index].to
      <3>1. i \in Ids /\ transitions'[pending'[k].index].to = i
        BY <1>1, <2>0, <2>2 DEF TypeOK
      <3>2. states[i] \in StateRecords
        BY <1>1, <3>1 DEF TypeOK
      <3>3. states[i].version \in Nat
        BY <3>2 DEF StateRecords
      <3> QED BY <2>2, <3>1, <3>3
    <2> QED BY <1>1, <2>1, <2>2, FrameKept
  <1> QED BY <1>1, <1>5, <1>8 DEF IInv

LEMMA Inductive == Spec => []IInv
  BY IInvInit, IInvStep, PTL DEF Spec

-----------------------------------------------------------------------------
(* The version test of restore_state_from_snapshot is enough: a snapshot   *)
(* with the version of the state it was taken of has its lock flag.        *)
THEOREM SnapshotsNeverStale == Spec => []SnapshotsCurrent
  <1>1. IInv => SnapshotsCurrent
    BY DEF IInv
  <1> QED BY <1>1, Inductive, PTL

(* Integrity verification raises no false alarm and misses no damage that  *)
(* the checksum can tell, also of states put back from their snapshots;    *)
(* only where a damaged id had another state's snapshot put over a state   *)
(* is it not exact, and even there a state that verifies looks like some   *)
(* registered one.                                                         *)
THEOREM VerificationSound == Spec => []VerifyIsSound
  <1>1. ASSUME IInv PROVE VerifyIsSound
    <2>1. ASSUME NEW i \in Ids
          PROVE  /\ i \notin overwritten => (Verifies(i) <=> SumOf(states[i]) = RegisteredSum(i))
                 /\ Verifies(i) => \E k \in Ids : SumOf(states[i]) = RegisteredSum(k)
      <3>1. SumKnown(states[i].sum, i)
        BY <1>1 DEF IInv, SumsAnchored
      <3> QED BY <3>1 DEF SumKnown, Verifies
    <2> QED BY <2>1 DEF VerifyIsSound
  <1> QED BY <1>1, Inductive, PTL

(* No transition enters a locked state unless one of its own callbacks     *)
(* locked it after the checks.                                             *)
THEOREM NoEntryPastLockCorrect == Spec => NoEntryPastLock
  <1> DEFINE p == pending[Len(pending)]
             i == transitions[p.index].to
             Entry == FinishTransition => (states[i].locked => states[i].version > p.seen)
  <1>1. ASSUME IInv, FinishTransition PROVE states[i].locked => states[i].version > p.seen
    <2>1. pending # <<>> /\ pending \in Seq(Pendings)
      BY <1>1 DEF FinishTransition, IInv, TypeOK
    <2>2. Len(pending) \in DOMAIN pending
      BY <2>1
    <2>3. p \in Pendings /\ i \in Ids
      BY <1>1, <2>1, <2>2 DEF IInv, TypeOK
    <2>4. states[i] \in StateRecords
      BY <1>1, <2>3 DEF IInv, TypeOK
    <2>5. p.seen \in Nat /\ states[i].version \in Nat
      BY <2>3, <2>4 DEF Pendings, StateRecords
    <2>6. p.seen <= states[i].version /\ (p.seen = states[i].version => ~states[i].locked)
      BY <1>1, <2>2 DEF IInv, PendingCurrent
    <2> QED BY <2>5, <2>6
  <1>2. IInv /\ [Next]_vars => [Entry]_vars
    BY <1>1
  <1>3. Spec => [][Entry]_vars
    BY <1>2, Inductive, PTL DEF Spec
  <1> QED BY <1>3 DEF NoEntryPastLock

(* Versions never fall and no lock, unlock or entry goes without a new one. *)
THEOREM ChangesRaiseVersionCorrect == Spec => ChangesRaiseVersion
  <1> DEFINE Raise == \A i \in Ids :
               /\ states'[i].version >= states[i].version
               /\ \/ states'[i].locked # states[i].locked
                  \/ current' # current /\ current' = i
                 => states'[i].version > states[i].version
  <1>1. ASSUME IInv, [Next]_vars PROVE Raise
    <2> SUFFICES ASSUME NEW i \in Ids
                 PROVE  /\ states'[i].version >= states[i].version
                        /\ \/ states'[i].locked # states[i].locked
                           \/ current' # current /\ current' = i
                          => states'[i].version > states[i].version
      OBVIOUS
    <2>1. Kept(i) /\ TypeOK
      BY <1>1, StateKept DEF IInv
    <2>2. states[i].version \in Nat /\ states'[i].version \in Nat
      BY <2>1 DEF Kept, StateRecords
    <2>3. states'[i].locked # states[i].locked => states'[i].version > states[i].version
      BY <2>1, <2>2 DEF Kept
    <2>4. ASSUME current' # current, current' = i
          PROVE  states'[i].version > states[i].version
      <3>1. FinishTransition
        BY <1>1, <2>4 DEF Next, vars, AddState, AddTransition, FailTransition, BeginTransition,
             VerifyStateIntegrity, LockState, UnlockState, SetLock, CreateSnapshot,
             RestoreFromSnapshot, CopyBack, Corrupt
      <3>2. states' = [states EXCEPT ![i] = Touched(states[i])]
        BY <3>1, <2>4 DEF FinishTransition
      <3>3. states'[i] = Touched(states[i])
        BY <2>1, <3>2 DEF TypeOK
      <3>4. states'[i].version = states[i].version + 1
        BY <2>1, <3>3, TouchedRecord DEF Kept
      <3> QED BY <2>2, <3>4
    <2> QED BY <2>1, <2>3, <2>4 DEF Kept
  <1>2. IInv /\ [Next]_vars => [Raise]_vars
    BY <1>1
  <1>3. Spec => [][Raise]_vars
    BY <1>2, Inductive, PTL DEF Spec
  <1> QED BY <1>3 DEF ChangesRaiseVersion

(* Restoring a snapshot over the state it was taken of, which copies it    *)
(* whole, cannot change a lock: only lock_state, unlock_state and another  *)
(* state's snapshot whose id was damaged do.                               *)
THEOREM LocksOnlyByCallCorrect == Spec => LocksOnlyByCall
  <1> DEFINE ByCall == \A i \in Ids : states'[i].locked # states[i].locked
                 => \/ LockState(i) \/ UnlockState(i)
                    \/ \E h \in Holders : snaps[h] # NoSnapshot /\ snaps[h].of # i
                                            /\ RestoreFromSnapshot(h)
  <1>1. ASSUME IInv, [Next]_vars PROVE ByCall
    <2> SUFFICES ASSUME NEW i \in Ids, states'[i].locked # states[i].locked,
                        \A h \in Holders : RestoreFromSnapshot(h) => snaps[h].of = i
                 PROVE  LockState(i) \/ UnlockState(i)
      BY DEF RestoreFromSnapshot
    <2>0. TypeOK /\ states[i] \in StateRecords
      BY <1>1 DEF IInv, TypeOK
    <2>1. ASSUME NEW c \in Contents, AddState(c) PROVE FALSE
      <3>1. i \in 0 .. numStates /\ i # numStates
        BY <2>0 DEF TypeOK, Ids
      <3> QED BY <2>1, <3>1 DEF AddState
    <2>2. ASSUME FinishTransition PROVE FALSE
      <3> DEFINE to == transitions[pending[Len(pending)].index].to
      <3>1. states' = [states EXCEPT ![to] = Touched(states[to])]
        BY <2>2 DEF FinishTransition
      <3> HIDE DEF to
      <3>2. states'[i] = Touched(states[i])
        BY <2>0, <3>1 DEF TypeOK
      <3> QED BY <2>0, <3>2, TouchedRecord
    <2>3. ASSUME NEW j \in IdArgs, NEW flag \in BOOLEAN, SetLock(j, flag) PROVE j = i
      BY <2>0, <2>3 DEF SetLock, TypeOK
    <2>4. ASSUME NEW h \in Holders, RestoreFromSnapshot(h) PROVE FALSE
      <3> DEFINE s == snaps[h].state
                 j == snaps[h].state.id
      <3>1. /\ snaps[h] # NoSnapshot /\ j \in Ids /\ snaps[h].of = i
            /\ states[j].version = s.version
            /\ states' = [states EXCEPT ![j] = Touched(s)]
        BY <2>4 DEF RestoreFromSnapshot, CopyBack
      <3>2. snaps[h] \in Snapshots
        BY <2>0, <3>1 DEF TypeOK
      <3>3. s \in StateRecords
        BY <3>2 DEF Snapshots
      <3>4. s.version = states[i].version => s.locked = states[i].locked
        BY <1>1, <3>1 DEF IInv, SnapshotsCurrent
      <3> HIDE DEF s, j
      <3>5. j = i /\ states'[i] = Touched(s)
        BY <2>0, <3>1 DEF TypeOK
      <3>6. Touched(s).locked = states[i].locked
        BY <3>1, <3>3, <3>4, <3>5, TouchedRecord
      <3> QED BY <3>5, <3>6
    <2>5. ASSUME NEW j \in IdArgs, NEW id \in IdArgs, NEW c \in Contents, Corrupt(j, c, id)
          PROVE  FALSE
      <3> DEFINE s == [states[j] EXCEPT !.content = c, !.id = id]
      <3>1. states' = [states EXCEPT ![j] = s]
        BY <2>5 DEF Corrupt
      <3>2. s.locked = states[j].locked
        BY <2>0, <2>5 DEF Corrupt, TypeOK, StateRecords
      <3> HIDE DEF s
      <3> QED BY <2>0, <3>1, <3>2 DEF TypeOK
    <2> QED
      BY <1>1, <2>1, <2>2, <2>3, <2>4, <2>5
         DEF Next, vars, AddTransition, FailTransition, BeginTransition, VerifyStateIntegrity,
             LockState, UnlockState, CreateSnapshot
  <1>2. IInv /\ [Next]_vars => [ByCall]_vars
    BY <1>1
  <1>3. Spec => [][ByCall]_vars
    BY <1>2, Inductive, PTL DEF Spec
  <1> QED BY <1>3 DEF LocksOnlyByCall

=============================================================================
