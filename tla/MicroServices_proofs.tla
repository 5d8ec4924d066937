------------------------ MODULE MicroServices_proofs ------------------------
(***************************************************************************)
(* Proofs about MicroServices for every value of its constants: any number *)
(* of slots, any ids, however often the application repeats one, and a     *)
(* clock that may step back.                                               *)
(*                                                                         *)
(* The count of a running collection is inductive only together with what  *)
(* the collection has not reached: from the next slot on, nothing has been *)
(* destroyed, and the slots due are those that look expired there.         *)
(*                                                                         *)
(* About the queues the proofs need what the loop of filter_commands       *)
(* computes: KeptPicks says so for a sequence of any length.               *)
(***************************************************************************)
EXTENDS MicroServices, Induction, FiniteSetTheorems, TLAPS

SlotsTyped ==
  /\ services \in [Slots -> Records]
  /\ active \subseteq Slots /\ \A i \in active : services[i].id \in ServiceIds
  /\ now \in Times
  /\ sweep \in Sweeps \cup {NotSweeping}

Unswept ==
  ~Idle =>
    /\ sweep.due \subseteq DOMAIN sweep.before
    /\ \A i \in active : services[i].id = sweep.before[i]
    /\ \A i \in DOMAIN sweep.before : i >= sweep.next =>
         i \in active /\ (i \in sweep.due <=> Expired(sweep.time, services[i].last))

IInv == SlotsTyped /\ CountMatchesMask /\ Unswept /\ SweepTakesAsManyAsDue

-----------------------------------------------------------------------------
(* f holds what the loop has written when it has read k commands.          *)
Filters(f, s, S) ==
  f = [k \in 0 .. Len(s) |->
        IF k = 0 THEN <<>> ELSE IF s[k] \in S THEN Append(f[k - 1], s[k]) ELSE f[k - 1]]

(* t is what S takes of the first k elements of s: at tells where each was, *)
(* in order and with none left out.                                        *)
Picks(t, s, S, k) ==
  /\ t \in Seq(S)
  /\ \E at \in [1 .. Len(t) -> 1 .. k] :
       /\ \A i \in 1 .. Len(t) : t[i] = s[at[i]]
       /\ \A i, j \in 1 .. Len(t) : i < j => at[i] < at[j]
       /\ \A n \in 1 .. k : s[n] \in S => \E i \in 1 .. Len(t) : at[i] = n

(* The loop computes something for every sequence.                         *)
LEMMA FilterRuns ==
  ASSUME NEW X, NEW s \in Seq(X), NEW S
  PROVE  \E f : Filters(f, s, S)
  <1> DEFINE T == Seq(X)
             step == [p \in Nat \X T |->
                       IF p[1] \in 1 .. Len(s) /\ s[p[1]] \in S THEN Append(p[2], s[p[1]]) ELSE p[2]]
  <1>1. <<>> \in T /\ Len(s) \in Nat
    OBVIOUS
  <1>2. step \in [Nat \X T -> T]
    <2> SUFFICES ASSUME NEW p \in Nat \X T
                 PROVE  (IF p[1] \in 1 .. Len(s) /\ s[p[1]] \in S THEN Append(p[2], s[p[1]]) ELSE p[2]) \in T
      OBVIOUS
    <2>1. p[2] \in T /\ (p[1] \in 1 .. Len(s) => s[p[1]] \in X)
      OBVIOUS
    <2> QED BY <2>1
  <1>3. \A k \in Nat, t \in T :
          step[<<k, t>>] = IF k \in 1 .. Len(s) /\ s[k] \in S THEN Append(t, s[k]) ELSE t
    OBVIOUS
  <1> HIDE DEF step
  <1>4. PICK f \in [0 .. Len(s) -> T] :
          f[0] = <<>> /\ \A k \in 1 .. Len(s) : f[k] = step[<<k, f[k - 1]>>]
    <2> HIDE DEF T
    <2>1. \E f : Computes(f, T, <<>>, step, Len(s))
      BY <1>1, <1>2, Recursion
    <2> QED BY <2>1 DEF Computes
  <1>5. \A k \in 0 .. Len(s) :
          f[k] = IF k = 0 THEN <<>> ELSE IF s[k] \in S THEN Append(f[k - 1], s[k]) ELSE f[k - 1]
    <2> TAKE k \in 0 .. Len(s)
    <2>1. CASE k # 0
      <3>1. k \in 1 .. Len(s) /\ k - 1 \in 0 .. Len(s) /\ k \in Nat
        BY <2>1, <1>1
      <3>2. f[k - 1] \in T
        BY <3>1
      <3> QED BY <2>1, <3>1, <3>2, <1>3, <1>4
    <2> QED BY <1>4, <2>1
  <1>6. f = [k \in 0 .. Len(s) |-> f[k]]
    OBVIOUS
  <1>7. Filters(f, s, S)
    BY <1>5, <1>6 DEF Filters
  <1> QED BY <1>7

(* One turn of the loop.                                                   *)
LEMMA PicksOn ==
  ASSUME NEW X, NEW s \in Seq(X), NEW S, NEW t, NEW k \in 1 .. Len(s), Picks(t, s, S, k - 1)
  PROVE  /\ s[k] \notin S => Picks(t, s, S, k)
         /\ s[k] \in S => Picks(Append(t, s[k]), s, S, k)
  <1>1. PICK at \in [1 .. Len(t) -> 1 .. k - 1] :
          /\ \A i \in 1 .. Len(t) : t[i] = s[at[i]]
          /\ \A i, j \in 1 .. Len(t) : i < j => at[i] < at[j]
          /\ \A n \in 1 .. k - 1 : s[n] \in S => \E i \in 1 .. Len(t) : at[i] = n
    BY DEF Picks
  <1>2. t \in Seq(S) /\ Len(t) \in Nat /\ k \in Nat
    BY DEF Picks
  <1>3. \A i \in 1 .. Len(t) : at[i] \in 1 .. k /\ at[i] < k
    <2> TAKE i \in 1 .. Len(t)
    <2>1. at[i] \in 1 .. k - 1
      BY <1>1
    <2> QED BY <1>2, <2>1
  <1>4. \A n \in 1 .. k : n \in 1 .. k - 1 \/ n = k
    BY <1>2
  <1>5. CASE s[k] \notin S
    <2>1. at \in [1 .. Len(t) -> 1 .. k]
      BY <1>1, <1>3
    <2>2. \A n \in 1 .. k : s[n] \in S => \E i \in 1 .. Len(t) : at[i] = n
      BY <1>1, <1>4, <1>5
    <2> QED BY <1>1, <1>2, <1>5, <2>1, <2>2 DEF Picks
  <1>6. CASE s[k] \in S
    <2> DEFINE u == Append(t, s[k])
               to == [i \in 1 .. Len(t) + 1 |-> IF i = Len(t) + 1 THEN k ELSE at[i]]
    <2>1. /\ u \in Seq(S) /\ Len(u) = Len(t) + 1 /\ u[Len(t) + 1] = s[k]
          /\ \A i \in 1 .. Len(t) : u[i] = t[i]
      BY <1>2, <1>6
    <2>2. \A i \in 1 .. Len(t) + 1 : i \in 1 .. Len(t) \/ i = Len(t) + 1
      BY <1>2
    <2>3. /\ to[Len(t) + 1] = k
          /\ \A i \in 1 .. Len(t) : to[i] = at[i]
      BY <1>2
    <2>4. to \in [1 .. Len(t) + 1 -> 1 .. k]
      BY <1>2, <1>3, <2>2
    <2> HIDE DEF u, to
    <2>5. \A i \in 1 .. Len(u) : u[i] = s[to[i]]
      BY <1>1, <2>1, <2>2, <2>3
    <2>6. \A i, j \in 1 .. Len(u) : i < j => to[i] < to[j]
      <3> SUFFICES ASSUME NEW i \in 1 .. Len(t) + 1, NEW j \in 1 .. Len(t) + 1, i < j
                   PROVE  to[i] < to[j]
        BY <2>1
      <3>1. i \in 1 .. Len(t)
        BY <1>2
      <3>2. CASE j \in 1 .. Len(t)
        BY <1>1, <2>3, <3>1, <3>2
      <3>3. CASE j = Len(t) + 1
        BY <1>3, <2>3, <3>1, <3>3
      <3> QED BY <2>2, <3>2, <3>3
    <2>7. \A n \in 1 .. k : s[n] \in S => \E i \in 1 .. Len(u) : to[i] = n
      <3> SUFFICES ASSUME NEW n \in 1 .. k, s[n] \in S
                   PROVE  \E i \in 1 .. Len(t) + 1 : to[i] = n
        BY <2>1
      <3>1. Len(t) + 1 \in 1 .. Len(t) + 1 /\ \A i \in 1 .. Len(t) : i \in 1 .. Len(t) + 1
        BY <1>2
      <3>2. CASE n = k
        BY <2>3, <3>1, <3>2
      <3>3. CASE n \in 1 .. k - 1
        BY <1>1, <2>3, <3>1, <3>3
      <3> QED BY <1>4, <3>2, <3>3
    <2>8. to \in [1 .. Len(u) -> 1 .. k]
      BY <2>1, <2>4
    <2>9. Picks(u, s, S, k)
      BY <2>1, <2>5, <2>6, <2>7, <2>8 DEF Picks
    <2> QED BY <1>6, <2>9 DEF u
  <1> QED BY <1>5, <1>6

(* The loop leaves exactly the commands in S, in the order they were in.   *)
LEMMA KeptPicks ==
  ASSUME NEW X, NEW s \in Seq(X), NEW S
  PROVE  Picks(Kept(s, S), s, S, Len(s))
  <1> DEFINE f == CHOOSE g : Filters(g, s, S)
             P == {k \in Nat : k <= Len(s) => Picks(f[k], s, S, k)}
  <1>1. Filters(f, s, S)
    BY FilterRuns
  <1>2. Kept(s, S) = f[Len(s)]
    BY DEF Kept, Filters
  <1>3. \A k \in 0 .. Len(s) :
          f[k] = IF k = 0 THEN <<>> ELSE IF s[k] \in S THEN Append(f[k - 1], s[k]) ELSE f[k - 1]
    <2> HIDE DEF f
    <2> QED BY <1>1 DEF Filters
  <1> HIDE DEF f
  <1>4. Len(s) \in Nat
    OBVIOUS
  <1>5. 0 \in P
    <2>1. f[0] = <<>>
      BY <1>3, <1>4
    <2>2. Picks(<<>>, s, S, 0)
      <3> DEFINE at == [i \in 1 .. Len(<<>>) |-> 1]
      <3>1. 1 .. Len(<<>>) = {} /\ 1 .. 0 = {} /\ <<>> \in Seq(S)
        OBVIOUS
      <3>2. at \in [1 .. Len(<<>>) -> 1 .. 0]
        BY <3>1
      <3> QED BY <3>1, <3>2 DEF Picks
    <2> QED BY <2>1, <2>2
  <1>6. ASSUME NEW k \in Nat, k \in P PROVE k + 1 \in P
    <2> SUFFICES ASSUME k + 1 <= Len(s) PROVE Picks(f[k + 1], s, S, k + 1)
      BY <1>6
    <2>1. k + 1 \in 1 .. Len(s) /\ k + 1 \in 0 .. Len(s) /\ (k + 1) - 1 = k /\ k <= Len(s) /\ k + 1 # 0
      BY <1>4
    <2>2. Picks(f[k], s, S, k)
      BY <1>6, <2>1
    <2>3. f[k + 1] = IF s[k + 1] \in S THEN Append(f[k], s[k + 1]) ELSE f[k]
      BY <1>3, <2>1
    <2> HIDE DEF P
    <2> QED BY <2>1, <2>2, <2>3, PicksOn
  <1> HIDE DEF P
  <1>7. \A k \in Nat : k \in P
    BY <1>5, <1>6, NatSetInduction
  <1> QED BY <1>2, <1>4, <1>7 DEF P

Ordered(q) == \A j \in DOMAIN q : \A k \in 1 .. j - 1 : q[k] < q[j]

(* Filtering makes no queue longer, holds no new command and keeps order.  *)
LEMMA KeptSound ==
  ASSUME NEW X \in SUBSET Nat, NEW s \in Seq(X), NEW S, Ordered(s)
  PROVE  Kept(s, S) \in Seq(X) /\ Ordered(Kept(s, S)) /\ Len(Kept(s, S)) <= Len(s)
  <1> DEFINE t == Kept(s, S)
  <1>1. Picks(t, s, S, Len(s))
    BY KeptPicks
  <1> HIDE DEF t
  <1>2. PICK at \in [1 .. Len(t) -> 1 .. Len(s)] :
          /\ \A i \in 1 .. Len(t) : t[i] = s[at[i]]
          /\ \A i, j \in 1 .. Len(t) : i < j => at[i] < at[j]
    BY <1>1 DEF Picks
  <1>3. t \in Seq(S) /\ Len(t) \in Nat /\ Len(s) \in Nat
    BY <1>1 DEF Picks
  <1>4. \A i \in 1 .. Len(t) : t[i] \in X
    BY <1>2
  <1>5. t \in Seq(X)
    BY <1>3, <1>4
  <1>6. Ordered(t)
    <2> SUFFICES ASSUME NEW j \in 1 .. Len(t), NEW i \in 1 .. j - 1 PROVE t[i] < t[j]
      BY <1>3 DEF Ordered
    <2>1. i \in 1 .. Len(t) /\ i < j
      BY <1>3
    <2>2. at[i] < at[j] /\ at[i] \in 1 .. Len(s) /\ at[j] \in 1 .. Len(s)
      BY <1>2, <2>1
    <2>3. at[i] \in 1 .. at[j] - 1 /\ at[j] \in DOMAIN s
      BY <1>3, <2>2
    <2> QED BY <1>2, <2>1, <2>3 DEF Ordered
  <1>7. ~(Len(s) < Len(t))
    <2> SUFFICES ASSUME Len(s) < Len(t) PROVE FALSE
      OBVIOUS
    <2> HIDE DEF t
    <2>0. \A n \in Nat : IsFiniteSet(1 .. n) /\ Cardinality(1 .. n) = n
      <3> TAKE n \in Nat
      <3>1. 1 \in Int /\ n \in Int
        OBVIOUS
      <3>2. IsFiniteSet(1 .. n) /\ Cardinality(1 .. n) = IF 1 > n THEN 0 ELSE n - 1 + 1
        BY <3>1, FS_Interval
      <3> QED BY <3>2
    <2>1. /\ IsFiniteSet(1 .. Len(t)) /\ IsFiniteSet(1 .. Len(s))
          /\ Cardinality(1 .. Len(s)) < Cardinality(1 .. Len(t))
      BY <1>3, <2>0
    <2>2. PICK i \in 1 .. Len(t), j \in 1 .. Len(t) : i # j /\ at[i] = at[j]
      BY <2>1, FS_PigeonHole
    <2>3. i < j \/ j < i
      BY <1>3, <2>2
    <2>4. at[i] \in Nat /\ at[i] < at[i]
      BY <1>2, <2>2, <2>3
    <2> QED BY <2>4
  <1> QED BY <1>3, <1>5, <1>6, <1>7 DEF t

LEMMA SlotsFinite == \A S \in SUBSET Slots : IsFiniteSet(S)
  <1>1. IsFiniteSet(Slots)
    BY FS_Interval, ConstantsOK DEF Slots
  <1> QED BY <1>1, FS_Subset

LEMMA SlotCount == Cardinality(Slots) = MaxServices
  <1>1. 0 \in Int /\ MaxServices - 1 \in Int
    BY ConstantsOK
  <1>2. Cardinality(0 .. MaxServices - 1) = IF 0 > MaxServices - 1 THEN 0 ELSE MaxServices - 1 - 0 + 1
    BY <1>1, FS_Interval
  <1> QED BY <1>2, ConstantsOK DEF Slots

(* A service destroyed is one active slot fewer, of the id asked for.      *)
LEMMA DestroyOne ==
  ASSUME SlotsTyped, CountMatchesMask, NEW id, Destroy(id)
  PROVE  /\ CountMatchesMask'
         /\ services' \in [Slots -> Records]
         /\ \E j \in Slots : /\ Found(j, id) /\ active' = active \ {j}
                             /\ \A i \in Slots \ {j} : services'[i] = services[i]
  <1>1. PICK j \in Slots : /\ Found(j, id)
                           /\ services' = [services EXCEPT ![j] = Reset]
                           /\ active' = active \ {j}
                           /\ count' = count - 1
    BY DEF Destroy
  <1>2. IsFiniteSet(active) /\ j \in active
    BY <1>1, SlotsFinite DEF SlotsTyped, Found
  <1>3. Cardinality(active \ {j}) = Cardinality(active) - 1
    BY <1>2, FS_RemoveElement
  <1>4. Reset \in Records
    BY DEF Reset, Records
  <1> QED BY <1>1, <1>3, <1>4 DEF CountMatchesMask, SlotsTyped

LEMMA IInvInit == Init => IInv
  <1> SUFFICES ASSUME Init PROVE IInv
    OBVIOUS
  <1>1. Reset \in Records
    BY DEF Reset, Records
  <1>2. SlotsTyped
    BY <1>1 DEF Init, SlotsTyped
  <1>3. CountMatchesMask
    BY FS_EmptySet DEF Init, CountMatchesMask
  <1> QED BY <1>2, <1>3 DEF Init, IInv, Idle, Unswept, SweepTakesAsManyAsDue

(* Giving slot i a record of the right type, its id an active one's.       *)
LEMMA TypedStep ==
  ASSUME SlotsTyped, [Next]_vars
  PROVE  SlotsTyped'
  <1> USE ConstantsOK
  <1>1. ASSUME NEW i \in Slots, services' = [services EXCEPT ![i].last = now],
               UNCHANGED <<active, now, sweep>>
        PROVE  SlotsTyped'
    <2> DEFINE r == [services[i] EXCEPT !.last = now]
    <2>1. r \in Records /\ r.id = services[i].id
      BY DEF SlotsTyped, Records
    <2>2. services' = [services EXCEPT ![i] = r]
      BY <1>1
    <2> HIDE DEF r
    <2>3. services' \in [Slots -> Records] /\ \A j \in active : services'[j].id = services[j].id
      BY <2>1, <2>2 DEF SlotsTyped
    <2> QED BY <1>1, <2>3 DEF SlotsTyped
  <1>2. ASSUME NEW id \in ServiceIds, CreateService(id) PROVE SlotsTyped'
    <2>1. PICK slot \in Slots \ active :
            /\ services' = [services EXCEPT ![slot] = [id |-> id, last |-> now]]
            /\ active' = active \cup {slot}
      BY <1>2 DEF CreateService
    <2> DEFINE r == [id |-> id, last |-> now]
    <2>2. r \in Records /\ r.id \in ServiceIds
      BY DEF SlotsTyped, Records
    <2> HIDE DEF r
    <2>3. services' = [services EXCEPT ![slot] = r]
      BY <2>1 DEF r
    <2> QED BY <1>2, <2>1, <2>2, <2>3 DEF CreateService, SlotsTyped
  <1>3. ASSUME NEW id, Destroy(id), UNCHANGED now, sweep' \in Sweeps \cup {NotSweeping}
        PROVE  SlotsTyped'
    <2>1. PICK i \in Slots : /\ services' = [services EXCEPT ![i] = Reset]
                             /\ active' = active \ {i}
      BY <1>3 DEF Destroy
    <2>2. Reset \in Records
      BY DEF Reset, Records
    <2> QED BY <1>3, <2>1, <2>2 DEF SlotsTyped
  <1>4. ASSUME NEW id \in ServiceIds, DestroyService(id) PROVE SlotsTyped'
    BY <1>3, <1>4 DEF DestroyService, SlotsTyped
  <1>5. ASSUME NEW id \in ServiceIds, NEW n \in 0 .. MaxBatch, NEW fits \in [1 .. n -> BOOLEAN],
               BatchProcess(id, fits)
        PROVE  SlotsTyped'
    BY <1>1, <1>5 DEF BatchProcess
  <1>6. ASSUME NEW i \in Slots, NEW keep \in SUBSET (1 .. offered), FilterCommands(i, keep)
        PROVE  SlotsTyped'
    BY <1>6 DEF FilterCommands, SlotsTyped
  <1>7. ASSUME NEW i \in Slots, ProcessCommands(i) PROVE SlotsTyped'
    BY <1>1, <1>7 DEF ProcessCommands
  <1>8. ASSUME NEW id \in ServiceIds, UpdateServiceState(id) PROVE SlotsTyped'
    BY <1>1, <1>8 DEF UpdateServiceState
  <1>9. ASSUME CollectGarbage PROVE SlotsTyped'
    <2> DEFINE due == {i \in active : Expired(now, services[i].last)}
               before == [i \in active |-> services[i].id]
    <2>1. due \in SUBSET Slots /\ before \in [active -> ServiceIds]
      BY DEF SlotsTyped
    <2>2. before \in UNION {[S -> ServiceIds] : S \in SUBSET Slots}
      BY <2>1 DEF SlotsTyped
    <2>3. 0 \in 0 .. MaxServices /\ now \in Times
      BY DEF SlotsTyped
    <2>4. sweep' = [next |-> 0, time |-> now, due |-> due, before |-> before]
      BY <1>9 DEF CollectGarbage
    <2> HIDE DEF due, before
    <2>5. sweep' \in Sweeps
      BY <2>1, <2>2, <2>3, <2>4 DEF Sweeps
    <2> QED BY <1>9, <2>5 DEF CollectGarbage, SlotsTyped
  <1>10. ASSUME SweepSlot PROVE SlotsTyped'
    <2>1. sweep \in Sweeps /\ sweep.next < MaxServices /\ sweep' = [sweep EXCEPT !.next = @ + 1]
      BY <1>10 DEF SweepSlot, SlotsTyped, Idle
    <2>2. sweep.next + 1 \in 0 .. MaxServices
      BY <2>1 DEF Sweeps
    <2>3. sweep' \in Sweeps
      BY <2>1, <2>2 DEF Sweeps
    <2>4. CASE Destroy(services[sweep.next].id)
      BY <1>3, <1>10, <2>3, <2>4 DEF SweepSlot
    <2>5. CASE UNCHANGED <<services, active>>
      BY <1>10, <2>3, <2>5 DEF SweepSlot, SlotsTyped
    <2> QED BY <1>10, <2>4, <2>5 DEF SweepSlot
  <1>11. ASSUME CollectDone \/ Tick \/ UNCHANGED vars PROVE SlotsTyped'
    BY <1>11 DEF CollectDone, Tick, vars, SlotsTyped
  <1> QED
    BY <1>2, <1>4, <1>5, <1>6, <1>7, <1>8, <1>9, <1>10, <1>11 DEF Next

LEMMA CountStep ==
  ASSUME SlotsTyped, CountMatchesMask, [Next]_vars
  PROVE  CountMatchesMask'
  <1>1. ASSUME NEW id \in ServiceIds, CreateService(id) PROVE CountMatchesMask'
    <2>1. PICK slot \in Slots \ active : active' = active \cup {slot} /\ count' = count + 1
      BY <1>1 DEF CreateService
    <2>2. IsFiniteSet(active)
      BY SlotsFinite DEF SlotsTyped
    <2>3. Cardinality(active \cup {slot}) = Cardinality(active) + 1
      BY <2>1, <2>2, FS_AddElement
    <2> QED BY <2>1, <2>3 DEF CountMatchesMask
  <1>2. ASSUME NEW id, Destroy(id) PROVE CountMatchesMask'
    BY <1>2, DestroyOne
  <1>3. ASSUME UNCHANGED <<active, count>> PROVE CountMatchesMask'
    BY <1>3 DEF CountMatchesMask
  <1> QED
    BY <1>1, <1>2, <1>3
       DEF Next, vars, DestroyService, BatchProcess, FilterCommands, ProcessCommands,
           UpdateServiceState, CollectGarbage, SweepSlot, CollectDone, Tick

(* While the collector walks, only its own steps touch the services.       *)
LEMMA SweepingSteps ==
  ASSUME [Next]_vars, ~Idle
  PROVE  SweepSlot \/ CollectDone \/ UNCHANGED <<services, active, sweep>>
  BY DEF Next, vars, CreateService, DestroyService, BatchProcess, FilterCommands,
       ProcessCommands, UpdateServiceState, CollectGarbage, Tick

(* The collector starts with nothing destroyed and nothing passed.         *)
LEMMA SweepStarts ==
  ASSUME SlotsTyped, CollectGarbage
  PROVE  Unswept' /\ SweepTakesAsManyAsDue'
  <1> DEFINE due == {i \in active : Expired(now, services[i].last)}
             before == [i \in active |-> services[i].id]
  <1>1. /\ sweep'.next = 0 /\ sweep'.time = now /\ sweep'.due = due /\ sweep'.before = before
        /\ services' = services /\ active' = active
    BY DEF CollectGarbage
  <1>2. due \subseteq active /\ DOMAIN before = active
        /\ \A i \in active : before[i] = services[i].id
    OBVIOUS
  <1>3. Unswept'
    BY <1>1, <1>2 DEF Unswept
  <1>4. \A i \in due : ~(i < 0)
    BY ConstantsOK DEF SlotsTyped, Slots
  <1>5. \A id : Gone(id)' = {} /\ DueSoFar(id)' = {}
    BY <1>1, <1>2, <1>4 DEF Gone, DueSoFar
  <1> QED BY <1>1, <1>2, <1>3, <1>5 DEF SweepTakesAsManyAsDue

(* A collection in progress keeps its account, slot by slot.               *)
LEMMA SweepSteps ==
  ASSUME IInv, SweepSlot
  PROVE  Unswept' /\ SweepTakesAsManyAsDue'
  <1> DEFINE n == sweep.next
             B == sweep.before
  <1>1. /\ sweep \in Sweeps /\ n \in 0 .. MaxServices
        /\ sweep.due \subseteq DOMAIN B
        /\ DOMAIN B \subseteq Slots /\ active \subseteq DOMAIN B
        /\ \A i \in DOMAIN B : B[i] \in ServiceIds
    <2>1. sweep \in Sweeps /\ ~Idle
      BY DEF SweepSlot, IInv, SlotsTyped, Idle
    <2>2. PICK S \in SUBSET Slots : B \in [S -> ServiceIds]
      BY <2>1 DEF Sweeps
    <2> QED BY <2>1, <2>2 DEF IInv, Unswept, SweepTakesAsManyAsDue, Sweeps
  <1>2. /\ \A i \in active : services[i].id = B[i]
        /\ \A i \in DOMAIN B : i >= n =>
             i \in active /\ (i \in sweep.due <=> Expired(sweep.time, services[i].last))
        /\ \A id \in ServiceIds : Cardinality(Gone(id)) = Cardinality(DueSoFar(id))
    BY DEF SweepSlot, IInv, Unswept, SweepTakesAsManyAsDue
  <1>3. sweep'.next = n + 1 /\ sweep'.due = sweep.due /\ sweep'.before = B /\ sweep'.time = sweep.time
    BY <1>1 DEF SweepSlot, Sweeps
  <1>4. n \in Slots /\ n \in Nat /\ Slots \subseteq Nat
    BY <1>1, ConstantsOK DEF SweepSlot, Slots
  <1>0. \A i \in DOMAIN B : /\ i < n + 1 <=> (i < n \/ i = n)
                            /\ i >= n + 1 => i > n /\ i >= n
                            /\ ~(n < n)
    <2> TAKE i \in DOMAIN B
    <2>1. i \in Nat
      BY <1>1, <1>4
    <2> HIDE DEF n, B
    <2> QED BY <1>4, <2>1
  <1>5. ASSUME NEW id \in ServiceIds
        PROVE  /\ IsFiniteSet(Gone(id)) /\ IsFiniteSet(DueSoFar(id))
               /\ DueSoFar(id)' = DueSoFar(id) \cup {i \in sweep.due : i = n /\ B[i] = id}
    <2>1. Gone(id) \subseteq Slots /\ DueSoFar(id) \subseteq Slots
      BY <1>1 DEF Gone, DueSoFar
    <2>2. \A i \in sweep.due : i < n + 1 <=> (i < n \/ i = n)
      BY <1>1, <1>0
    <2>3. DueSoFar(id)' = {i \in sweep.due : i < n + 1 /\ B[i] = id}
      BY <1>3 DEF DueSoFar
    <2>4. DueSoFar(id)' = DueSoFar(id) \cup {i \in sweep.due : i = n /\ B[i] = id}
      BY <2>2, <2>3 DEF DueSoFar
    <2> QED BY <2>1, <2>4, SlotsFinite
  <1>6. CASE n \in active /\ Expired(sweep.time, services[n].last)
    <2>1. Destroy(services[n].id)
      BY <1>6 DEF SweepSlot
    <2>2. PICK j \in Slots : /\ Found(j, services[n].id) /\ active' = active \ {j}
                             /\ \A i \in Slots \ {j} : services'[i] = services[i]
      BY <2>1, DestroyOne DEF IInv
    <2>3. j \in active /\ j <= n /\ B[j] = B[n] /\ n \in DOMAIN B
      BY <1>1, <1>2, <1>6, <2>2 DEF Found
    <2>4. n \in sweep.due
      BY <1>2, <1>4, <1>6, <2>3
    <2>5. Unswept'
      <3>1. \A i \in DOMAIN B : i >= n + 1 => i # j /\ i >= n
        <4>1. ~(j > n)
          BY <1>1, <1>4, <2>3
        <4> QED BY <1>0, <4>1
      <3>2. \A i \in DOMAIN B : i >= n + 1 =>
              i \in active' /\ (i \in sweep.due <=> Expired(sweep.time, services'[i].last))
        BY <1>1, <1>2, <2>2, <3>1
      <3>3. \A i \in active' : services'[i].id = B[i]
        BY <1>1, <1>2, <2>2
      <3> HIDE DEF n, B
      <3> QED BY <1>1, <1>3, <3>2, <3>3 DEF Unswept
    <2>6. ASSUME NEW id \in ServiceIds
          PROVE  Cardinality(Gone(id)') = Cardinality(DueSoFar(id)')
      <3>1. CASE B[n] = id
        <4>1. Gone(id)' = Gone(id) \cup {j} /\ j \notin Gone(id)
          BY <1>1, <1>3, <2>2, <2>3, <3>1 DEF Gone
        <4>2. DueSoFar(id)' = DueSoFar(id) \cup {n} /\ n \notin DueSoFar(id)
          BY <1>0, <1>5, <2>3, <2>4, <3>1 DEF DueSoFar
        <4>3. Cardinality(Gone(id) \cup {j}) = Cardinality(Gone(id)) + 1
          BY <1>5, <4>1, FS_AddElement
        <4>4. Cardinality(DueSoFar(id) \cup {n}) = Cardinality(DueSoFar(id)) + 1
          BY <1>5, <4>2, FS_AddElement
        <4> QED BY <1>2, <4>1, <4>2, <4>3, <4>4
      <3>2. CASE B[n] # id
        <4>1. Gone(id)' = Gone(id)
          BY <1>1, <1>3, <2>2, <2>3, <3>2 DEF Gone
        <4>2. DueSoFar(id)' = DueSoFar(id)
          BY <1>5, <3>2
        <4> QED BY <1>2, <4>1, <4>2
      <3> QED BY <3>1, <3>2
    <2>7. active' \subseteq DOMAIN B
      BY <1>1, <2>2
    <2> QED BY <1>3, <2>5, <2>6, <2>7 DEF SweepTakesAsManyAsDue
  <1>7. CASE ~(n \in active /\ Expired(sweep.time, services[n].last))
    <2>1. services' = services /\ active' = active
      BY <1>7 DEF SweepSlot
    <2>2. n \notin sweep.due
      BY <1>1, <1>2, <1>4, <1>7
    <2>3. Unswept'
      <3>1. \A i \in DOMAIN B : i >= n + 1 => i >= n
        BY <1>0
      <3> HIDE DEF n, B
      <3> QED BY <1>1, <1>2, <1>3, <2>1, <3>1 DEF Unswept
    <2>4. ASSUME NEW id \in ServiceIds PROVE Gone(id)' = Gone(id) /\ DueSoFar(id)' = DueSoFar(id)
      BY <1>3, <1>5, <2>1, <2>2 DEF Gone
    <2> QED BY <1>1, <1>2, <1>3, <2>1, <2>3, <2>4 DEF SweepTakesAsManyAsDue
  <1> QED BY <1>6, <1>7

LEMMA IInvStep == IInv /\ [Next]_vars => IInv'
  <1> SUFFICES ASSUME IInv, [Next]_vars PROVE IInv'
    OBVIOUS
  <1>1. SlotsTyped' /\ CountMatchesMask'
    BY TypedStep, CountStep DEF IInv
  <1>2. CASE Idle
    <2>1. CollectGarbage \/ sweep' = sweep
      BY <1>2 DEF Next, vars, CreateService, DestroyService, BatchProcess, FilterCommands,
           ProcessCommands, UpdateServiceState, SweepSlot, CollectDone, Tick
    <2>2. CASE CollectGarbage
      BY <1>1, <2>2, SweepStarts DEF IInv
    <2>3. CASE sweep' = sweep
      BY <1>1, <1>2, <2>3 DEF IInv, Idle, Unswept, SweepTakesAsManyAsDue
    <2> QED BY <2>1, <2>2, <2>3
  <1>3. CASE ~Idle
    <2>1. CASE SweepSlot
      BY <1>1, <2>1, SweepSteps DEF IInv
    <2>2. CASE CollectDone
      BY <1>1, <2>2 DEF IInv, CollectDone, Idle, Unswept, SweepTakesAsManyAsDue
    <2>3. CASE UNCHANGED <<services, active, sweep>>
      BY <1>1, <2>3 DEF IInv, Idle, Unswept, SweepTakesAsManyAsDue, Gone, DueSoFar
    <2> QED BY <1>3, <2>1, <2>2, <2>3, SweepingSteps
  <1> QED BY <1>2, <1>3

(* A queue holds commands offered so far, in order, and no more than fit.   *)
Queued(q, n) == q \in Seq(1 .. n) /\ Ordered(q) /\ Len(q) <= MaxCommands

QueuesTyped ==
  /\ offered \in 0 .. MaxOffered
  /\ queues \in [Slots -> Seq(Nat)] /\ \A i \in Slots : Queued(queues[i], offered)

LEMMA QueuedEmpty == \A n \in Nat : Queued(<<>>, n) /\ <<>> \in Seq(Nat)
  BY ConstantsOK DEF Queued, Ordered

(* More commands offered do no harm to a queue.                            *)
LEMMA QueuedLater ==
  ASSUME NEW n \in Nat, NEW m \in Nat, n <= m, NEW q, Queued(q, n)
  PROVE  Queued(q, m) /\ q \in Seq(Nat)
  <1>1. 1 .. n \subseteq 1 .. m /\ 1 .. n \subseteq Nat
    OBVIOUS
  <1>2. q \in Seq(1 .. n)
    BY DEF Queued
  <1>3. q \in Seq(1 .. m) /\ q \in Seq(Nat)
    BY <1>1, <1>2
  <1> QED BY <1>3 DEF Queued

LEMMA QueuedKept ==
  ASSUME NEW n \in Nat, NEW q, Queued(q, n), NEW S
  PROVE  Queued(Kept(q, S), n)
  <1>1. q \in Seq(1 .. n) /\ Ordered(q) /\ Len(q) <= MaxCommands /\ (1 .. n) \in SUBSET Nat
    BY DEF Queued
  <1>2. Kept(q, S) \in Seq(1 .. n) /\ Ordered(Kept(q, S)) /\ Len(Kept(q, S)) <= Len(q)
    BY <1>1, KeptSound
  <1>3. Len(Kept(q, S)) \in Nat /\ Len(q) \in Nat
    BY <1>1, <1>2
  <1> QED BY <1>1, <1>2, <1>3, ConstantsOK DEF Queued

(* What of a batch is appended comes after all that was offered before.    *)
LEMMA QueuedBatch ==
  ASSUME QueuesTyped, NEW q, Queued(q, offered), NEW n \in Nat, NEW fits \in [1 .. n -> BOOLEAN]
  PROVE  Len(fits) = n /\ Queued(UpTo(q \o Fresh(fits), MaxCommands), offered + n)
  <1> DEFINE new == Offered(n)
             fit == {c \in offered + 1 .. offered + Len(fits) : fits[c - offered]}
             X == offered + 1 .. offered + n
             t == Kept(new, fit)
             both == q \o t
             u == UpTo(both, MaxCommands)
  <1>1. offered \in Nat /\ MaxCommands \in Nat /\ X \in SUBSET Nat
    BY ConstantsOK DEF QueuesTyped
  <1>2. Len(fits) = n /\ Fresh(fits) = t
    BY DEF Fresh
  <1>3. new \in Seq(X) /\ Len(new) = n /\ \A k \in 1 .. n : new[k] = offered + k
    BY <1>1 DEF Offered
  <1>4. Ordered(new)
    <2> SUFFICES ASSUME NEW j \in 1 .. n, NEW k \in 1 .. j - 1 PROVE new[k] < new[j]
      BY <1>3 DEF Ordered
    <2>1. k \in 1 .. n /\ k < j
      OBVIOUS
    <2> QED BY <1>1, <1>3, <2>1
  <1> HIDE DEF new, fit
  <1>5. t \in Seq(X) /\ Ordered(t)
    BY <1>1, <1>3, <1>4, KeptSound
  <1>6. q \in Seq(1 .. offered) /\ Ordered(q)
    BY DEF Queued
  <1> HIDE DEF t
  <1>7. /\ Len(q) \in Nat /\ Len(t) \in Nat /\ Len(both) = Len(q) + Len(t)
        /\ \A k \in 1 .. Len(both) : \/ k \in 1 .. Len(q) /\ both[k] = q[k]
                                    \/ /\ k \in Len(q) + 1 .. Len(q) + Len(t)
                                       /\ k - Len(q) \in 1 .. Len(t)
                                       /\ both[k] = t[k - Len(q)]
    BY <1>5, <1>6
  <1>8. /\ \A k \in 1 .. Len(q) : q[k] \in 1 .. offered
        /\ \A k \in 1 .. Len(t) : t[k] \in X
        /\ \A j \in 1 .. Len(q) : \A k \in 1 .. j - 1 : q[k] < q[j]
        /\ \A j \in 1 .. Len(t) : \A k \in 1 .. j - 1 : t[k] < t[j]
    <2> HIDE DEF X, both
    <2>1. \A k \in 1 .. Len(q) : q[k] \in 1 .. offered
      <3> DEFINE Y == 1 .. offered
      <3>1. q \in Seq(Y)
        BY <1>6
      <3> HIDE DEF Y
      <3>2. \A k \in 1 .. Len(q) : q[k] \in Y
        BY <3>1
      <3> QED BY <3>2 DEF Y
    <2>2. \A k \in 1 .. Len(t) : t[k] \in X
      BY <1>5, <1>7
    <2>3. DOMAIN q = 1 .. Len(q) /\ DOMAIN t = 1 .. Len(t)
      BY <1>5, <1>6
    <2> QED BY <1>5, <1>6, <2>1, <2>2, <2>3 DEF Ordered
  <1>9. \A k \in 1 .. Len(both) : both[k] \in 1 .. offered + n
    <2> TAKE k \in 1 .. Len(both)
    <2>1. CASE k \in 1 .. Len(q) /\ both[k] = q[k]
      BY <1>1, <1>8, <2>1
    <2>2. CASE k - Len(q) \in 1 .. Len(t) /\ both[k] = t[k - Len(q)]
      <3>1. both[k] \in X
        BY <1>8, <2>2
      <3> QED BY <1>1, <3>1
    <2> QED BY <1>7, <2>1, <2>2
  <1>10. \A j \in 1 .. Len(both) : \A k \in 1 .. j - 1 : both[k] < both[j]
    <2> TAKE j \in 1 .. Len(both)
    <2> TAKE k \in 1 .. j - 1
    <2>0. k \in 1 .. Len(both) /\ k < j /\ j \in Nat /\ k \in Nat
      BY <1>7
    <2>1. CASE j \in 1 .. Len(q) /\ both[j] = q[j]
      <3>1. k \in 1 .. Len(q) /\ k \notin Len(q) + 1 .. Len(q) + Len(t)
        BY <1>7, <2>0, <2>1
      <3>2. both[k] = q[k]
        BY <1>7, <2>0, <3>1
      <3> QED BY <1>8, <2>1, <3>2
    <2>2. CASE j - Len(q) \in 1 .. Len(t) /\ both[j] = t[j - Len(q)]
      <3>1. both[j] \in X
        BY <1>8, <2>2
      <3>2. CASE k \in 1 .. Len(q) /\ both[k] = q[k]
        <4>1. both[k] \in 1 .. offered
          BY <1>8, <3>2
        <4> QED BY <1>1, <3>1, <4>1
      <3>3. CASE k - Len(q) \in 1 .. Len(t) /\ both[k] = t[k - Len(q)]
        <4>1. k - Len(q) \in 1 .. (j - Len(q)) - 1
          BY <1>7, <2>0, <3>3
        <4> QED BY <1>8, <2>2, <3>3, <4>1
      <3> QED BY <1>7, <2>0, <3>2, <3>3
    <2> QED BY <1>7, <2>1, <2>2
  <1>11. both \in Seq(1 .. offered + n)
    <2>1. both \in Seq(Nat)
      <3>1. q \in Seq(Nat) /\ t \in Seq(Nat)
        BY <1>1, <1>5, <1>6, <1>8
      <3> QED BY <3>1
    <2> DEFINE Y == 1 .. offered + n
    <2>2. \A k \in 1 .. Len(both) : both[k] \in Y
      BY <1>9
    <2> HIDE DEF both, Y
    <2>3. both \in Seq(Y)
      BY <2>1, <2>2
    <2> QED BY <2>3 DEF Y
  <1> HIDE DEF both
  <1>12. /\ u \in Seq(1 .. offered + n) /\ Len(u) <= Len(both) /\ Len(u) <= MaxCommands
         /\ Len(u) \in Nat /\ Len(both) \in Nat /\ \A k \in 1 .. Len(u) : u[k] = both[k]
    BY <1>1, <1>11 DEF UpTo
  <1> HIDE DEF u
  <1>13. Ordered(u)
    <2> SUFFICES ASSUME NEW j \in 1 .. Len(u), NEW k \in 1 .. j - 1 PROVE u[k] < u[j]
      BY <1>12 DEF Ordered
    <2>1. k \in 1 .. Len(u) /\ j \in 1 .. Len(both)
      BY <1>12
    <2> QED BY <1>10, <1>12, <2>1
  <1>14. Queued(u, offered + n)
    BY <1>12, <1>13 DEF Queued
  <1> QED BY <1>2, <1>14 DEF u, both

LEMMA QueuesStep ==
  ASSUME SlotsTyped, QueuesTyped, [Next]_vars
  PROVE  QueuesTyped'
  <1>0. offered \in Nat
    BY DEF QueuesTyped
  <1>1. ASSUME NEW i \in Slots, NEW q, Queued(q, offered), offered' = offered,
               queues' = [queues EXCEPT ![i] = q]
        PROVE  QueuesTyped'
    <2>1. q \in Seq(Nat)
      BY <1>0, <1>1, QueuedLater
    <2> QED BY <1>1, <2>1 DEF QueuesTyped
  <1>2. ASSUME NEW i \in Slots, queues' = [queues EXCEPT ![i] = <<>>], offered' = offered
        PROVE  QueuesTyped'
    <2> DEFINE q == <<>>
    <2>1. Queued(q, offered)
      BY <1>0, QueuedEmpty
    <2> HIDE DEF q
    <2>2. queues' = [queues EXCEPT ![i] = q]
      BY <1>2 DEF q
    <2> QED BY <1>1, <1>2, <2>1, <2>2
  <1>3. ASSUME UNCHANGED <<queues, offered>> PROVE QueuesTyped'
    BY <1>3 DEF QueuesTyped
  <1>4. ASSUME NEW id, CreateService(id) PROVE QueuesTyped'
    BY <1>2, <1>4 DEF CreateService
  <1>5. ASSUME NEW id, Destroy(id), offered' = offered PROVE QueuesTyped'
    BY <1>2, <1>5 DEF Destroy
  <1>6. ASSUME NEW id \in ServiceIds, NEW n \in 0 .. MaxBatch, NEW fits \in [1 .. n -> BOOLEAN],
               BatchProcess(id, fits)
        PROVE  QueuesTyped'
    <2>0. n \in Nat
      BY ConstantsOK
    <2>1. PICK i \in Slots :
            queues' = [queues EXCEPT ![i] = UpTo(queues[i] \o Fresh(fits), MaxCommands)]
      BY <1>6 DEF BatchProcess
    <2> DEFINE q == UpTo(queues[i] \o Fresh(fits), MaxCommands)
    <2>2. Queued(queues[i], offered)
      BY DEF QueuesTyped
    <2>3. Len(fits) = n /\ Queued(q, offered + n)
      BY <2>0, <2>2, QueuedBatch
    <2> HIDE DEF q
    <2>4. queues' = [queues EXCEPT ![i] = q]
      BY <2>1 DEF q
    <2>5. offered' = offered + n /\ offered' \in 0 .. MaxOffered
      BY <1>0, <1>6, <2>0, <2>3, ConstantsOK DEF BatchProcess
    <2>6. q \in Seq(Nat)
      BY <1>0, <2>0, <2>3, QueuedLater
    <2>7. \A j \in Slots : Queued(queues[j], offered + n)
      BY <1>0, <2>0, QueuedLater DEF QueuesTyped
    <2>8. \A j \in Slots : Queued(queues'[j], offered + n)
      BY <2>3, <2>4, <2>7 DEF QueuesTyped
    <2>9. queues' \in [Slots -> Seq(Nat)]
      BY <2>4, <2>6 DEF QueuesTyped
    <2> QED BY <2>5, <2>8, <2>9 DEF QueuesTyped
  <1>7. ASSUME NEW i \in Slots, NEW keep, FilterCommands(i, keep) PROVE QueuesTyped'
    <2>1. Queued(Kept(queues[i], keep), offered)
      BY <1>0, QueuedKept DEF QueuesTyped
    <2>2. queues' = [queues EXCEPT ![i] = Kept(queues[i], keep)] /\ offered' = offered
      BY <1>7 DEF FilterCommands
    <2> QED BY <1>1, <2>1, <2>2
  <1>8. ASSUME NEW i \in Slots, ProcessCommands(i) PROVE QueuesTyped'
    BY <1>2, <1>8 DEF ProcessCommands
  <1>9. ASSUME SweepSlot PROVE QueuesTyped'
    BY <1>3, <1>5, <1>9 DEF SweepSlot
  <1> QED
    BY <1>3, <1>4, <1>5, <1>6, <1>7, <1>8, <1>9
       DEF Next, vars, DestroyService, UpdateServiceState, CollectGarbage, CollectDone, Tick

LEMMA QueuesInit == Init => QueuesTyped
  BY QueuedEmpty, ConstantsOK DEF Init, QueuesTyped

LEMMA Inductive == Spec => []IInv
  BY IInvInit, IInvStep, PTL DEF Spec

LEMMA QueuesSound == Spec => []QueuesTyped
  <1>1. IInv /\ QueuesTyped /\ [Next]_vars => QueuesTyped'
    BY QueuesStep DEF IInv
  <1> QED BY <1>1, QueuesInit, Inductive, PTL DEF Spec

-----------------------------------------------------------------------------
(* The count is the number of active slots, so create_service's test of it *)
(* guarantees a clear bit below POLYCALL_MICRO_MAX_SERVICES.               *)
THEOREM CountCorrect == Spec => []CountMatchesMask
  <1>1. IInv => CountMatchesMask
    BY DEF IInv
  <1> QED BY <1>1, Inductive, PTL

(* Every field has its type: no queue grows past its capacity, no count    *)
(* past the number of slots, and active services have an application's id. *)
THEOREM Typing == Spec => []TypeOK
  <1>1. IInv /\ QueuesTyped => TypeOK
    <2> SUFFICES ASSUME IInv, QueuesTyped PROVE TypeOK
      OBVIOUS
    <2>1. count \in 0 .. MaxServices
      <3>1. Cardinality(Slots) = MaxServices
        BY SlotCount
      <3>2. IsFiniteSet(Slots) /\ active \in SUBSET Slots
        BY SlotsFinite DEF IInv, SlotsTyped
      <3>3. Cardinality(active) <= Cardinality(Slots)
        BY <3>2, FS_Subset
      <3>4. Cardinality(active) \in Nat
        BY <3>2, SlotsFinite, FS_CardinalityType
      <3> QED BY <3>1, <3>3, <3>4, ConstantsOK DEF IInv, CountMatchesMask
    <2>2. queues \in [Slots -> Seq(1 .. offered)] /\ \A i \in Slots : Len(queues[i]) <= MaxCommands
      BY DEF QueuesTyped, Queued
    <2> QED BY <2>1, <2>2 DEF IInv, SlotsTyped, QueuesTyped, TypeOK
  <1> QED BY <1>1, Inductive, QueuesSound, PTL

(* A queue holds its commands in the order they were offered, none twice,  *)
(* over batches cut off at the capacity and filtering in place.            *)
THEOREM QueuesKeepOrder == Spec => []QueuesInOrder
  <1>1. QueuesTyped => QueuesInOrder
    BY DEF QueuesTyped, Queued, Ordered, QueuesInOrder
  <1> QED BY <1>1, QueuesSound, PTL

(* A collection destroys, of every id, as many services as were due.       *)
THEOREM SweepCorrect == Spec => []SweepTakesAsManyAsDue
  <1>1. IInv => SweepTakesAsManyAsDue
    BY DEF IInv
  <1> QED BY <1>1, Inductive, PTL

UniqueIds == \A i, j \in DOMAIN sweep.before : sweep.before[i] = sweep.before[j] => i = j

(* Where the application gave no id twice, a collection destroys exactly   *)
(* the services that had timed out when it started, up to the slot it has  *)
(* reached: what polycall_micro.c:278 says of all collections.             *)
THEOREM SweepExact ==
  Spec => [](~Idle /\ UniqueIds => DOMAIN sweep.before \ active = {i \in sweep.due : i < sweep.next})
  <1>1. ASSUME IInv, ~Idle, UniqueIds
        PROVE  DOMAIN sweep.before \ active = {i \in sweep.due : i < sweep.next}
    <2>1. /\ sweep.due \subseteq DOMAIN sweep.before /\ DOMAIN sweep.before \subseteq Slots
          /\ \A i \in DOMAIN sweep.before : sweep.before[i] \in ServiceIds
      <3>1. sweep \in Sweeps
        BY <1>1 DEF IInv, SlotsTyped, Idle
      <3>2. PICK S \in SUBSET Slots : sweep.before \in [S -> ServiceIds]
        BY <3>1 DEF Sweeps
      <3> QED BY <1>1, <3>2 DEF IInv, Unswept
    <2>2. \A id \in ServiceIds : /\ IsFiniteSet(Gone(id)) /\ IsFiniteSet(DueSoFar(id))
                                 /\ Cardinality(Gone(id)) = Cardinality(DueSoFar(id))
      <3> TAKE id \in ServiceIds
      <3>1. Gone(id) \in SUBSET Slots /\ DueSoFar(id) \in SUBSET Slots
        BY <2>1 DEF Gone, DueSoFar
      <3> QED BY <1>1, <3>1, SlotsFinite DEF IInv, SweepTakesAsManyAsDue
    <2>3. \A id \in ServiceIds : Gone(id) = {} <=> DueSoFar(id) = {}
      BY <2>2, FS_EmptySet
    <2>4. ASSUME NEW i \in DOMAIN sweep.before \ active PROVE i \in sweep.due /\ i < sweep.next
      <3>1. i \in Gone(sweep.before[i])
        BY DEF Gone
      <3>2. PICK j \in sweep.due : j < sweep.next /\ sweep.before[j] = sweep.before[i]
        BY <2>1, <2>3, <3>1 DEF DueSoFar
      <3> QED BY <1>1, <2>1, <3>2 DEF UniqueIds
    <2>5. ASSUME NEW i \in sweep.due, i < sweep.next PROVE i \in DOMAIN sweep.before \ active
      <3>1. i \in DueSoFar(sweep.before[i])
        BY <2>5 DEF DueSoFar
      <3>2. PICK j \in DOMAIN sweep.before \ active : sweep.before[j] = sweep.before[i]
        BY <2>1, <2>3, <3>1 DEF Gone
      <3> QED BY <1>1, <2>1, <3>2 DEF UniqueIds
    <2> QED BY <2>4, <2>5
  <1>2. IInv => (~Idle /\ UniqueIds => DOMAIN sweep.before \ active = {i \in sweep.due : i < sweep.next})
    BY <1>1
  <1> QED BY <1>2, Inductive, PTL

(* create_service finds a slot whenever the count lets it look for one.    *)
THEOREM CreateFindsSlot ==
  Spec => [](count < MaxServices => \E slot \in Slots : slot \notin active)
  <1>1. ASSUME IInv, count < MaxServices PROVE \E slot \in Slots : slot \notin active
    <2> SUFFICES ASSUME Slots \subseteq active PROVE FALSE
      OBVIOUS
    <2>1. active = Slots
      BY <1>1 DEF IInv, SlotsTyped
    <2> QED BY <1>1, <2>1, SlotCount, ConstantsOK DEF IInv, CountMatchesMask
  <1>2. IInv => (count < MaxServices => \E slot \in Slots : slot \notin active)
    BY <1>1
  <1> QED BY <1>2, Inductive, PTL

=============================================================================
