--------------------------- MODULE MicroServices ---------------------------
(***************************************************************************)
(* The micro services of libpolycall (src/polycall_micro.c): an array of   *)
(* service slots with a bit mask of the active ones and a count kept       *)
(* beside it, a queue of commands per service, and a garbage collector     *)
(* that destroys the services nobody touched for an hour.                  *)
(*                                                                         *)
(* Calls come from one thread.  The collector walks the slots, one         *)
(* SweepSlot per slot, and no other call runs before it is through.        *)
(* Callers hold pointers into the slot array, and                          *)
(* polycall_micro_process_commands and _filter_commands take one and not   *)
(* an id, so both also reach slots whose service is gone.                  *)
(***************************************************************************)
EXTENDS Naturals, Sequences, FiniteSets

CONSTANTS
  ServiceIds,   \* ids the application gives to services; it may repeat one
  MaxServices,  \* POLYCALL_MICRO_MAX_SERVICES
  MaxCommands,  \* POLYCALL_MICRO_MAX_COMMANDS
  Timeout,      \* the collector's timeout
  Times,        \* bound: readings of time(NULL), which may step back
  MaxBatch,     \* bound: commands in one batch
  MaxOffered,   \* bound: commands offered in all
  NotSweeping   \* the collector is not running

Slots == 0 .. MaxServices - 1

Sweeps == [next : 0 .. MaxServices, time : Times, due : SUBSET Slots,
           before : UNION {[S -> ServiceIds] : S \in SUBSET Slots}]

ASSUME ConstantsOK ==
  /\ ServiceIds \subseteq Nat /\ Times \subseteq Nat
  /\ MaxServices \in Nat /\ MaxCommands \in Nat /\ Timeout \in Nat
  /\ MaxBatch \in Nat /\ MaxOffered \in Nat
  /\ NotSweeping \notin Sweeps

VARIABLES
  services,  \* service_array.services: id and last_update of each slot
  queues,    \* the command_queue of each slot
  active,    \* service_array.active_mask, as the set of its bits
  count,     \* service_array.count
  now,       \* time(NULL)
  offered,   \* history: number of commands in batches so far
  sweep      \* the running collection: next slot and its clock reading, and,
             \*   as history, the slots due and the id of each service at its start

vars == <<services, queues, active, count, now, offered, sweep>>

Idle == sweep = NotSweeping

-----------------------------------------------------------------------------
Reset == [id |-> 0, last |-> 0]

(* Mutant: a search that does not look at the mask.                        *)
FoundInAny(i, id) ==
  services[i].id = id /\ \A j \in Slots : services[j].id = id => i <= j

(* Mutant: a search that does not stop at the first one.                   *)
FoundLast(i, id) ==
  /\ i \in active /\ services[i].id = id
  /\ \A j \in active : services[j].id = id => i >= j

(* The searches by id stop at the first active slot that has it.           *)
Found(i, id) ==
  /\ i \in active /\ services[i].id = id
  /\ \A j \in active : services[j].id = id => i <= j

(* current_time - last_update > timeout, on unsigned integers: a time of   *)
(* update that lies ahead of the clock wraps around to a huge age.         *)
Expired(time, last) == time < last \/ time - last > Timeout

(* The loop that reads every command and writes those in S back, one after *)
(* the other, from the start.                                              *)
Kept(s, S) ==
  LET kept[k \in 0 .. Len(s)] ==
        IF k = 0 THEN <<>>
        ELSE IF s[k] \in S THEN Append(kept[k - 1], s[k]) ELSE kept[k - 1]
  IN  kept[Len(s)]

(* Commands are numbered in the order they are offered; fits[k] tells      *)
(* whether the payload_size of the k-th of a batch is in its limit.        *)
Offered(n) == [k \in 1 .. n |-> offered + k]
Fresh(fits) == Kept(Offered(Len(fits)), {c \in offered + 1 .. offered + Len(fits) : fits[c - offered]})

UpTo(s, n) == SubSeq(s, 1, IF Len(s) < n THEN Len(s) ELSE n)

-----------------------------------------------------------------------------
Init ==
  /\ services = [i \in Slots |-> Reset] /\ queues = [i \in Slots |-> <<>>]
  /\ active = {} /\ count = 0
  /\ now \in Times
  /\ offered = 0
  /\ sweep = NotSweeping

(* No check that the id is free.                                           *)
CreateService(id) ==
  /\ Idle
  /\ count < MaxServices
  /\ \E slot \in Slots \ active :
       /\ \A j \in Slots \ active : slot <= j
       /\ services' = [services EXCEPT ![slot] = [id |-> id, last |-> now]]
       /\ queues' = [queues EXCEPT ![slot] = <<>>]
       /\ active' = active \cup {slot}
  /\ count' = count + 1
  /\ UNCHANGED <<now, offered, sweep>>

(* The part of destroy_service that the collector shares.                  *)
Destroy(id) ==
  \E i \in Slots :
    /\ Found(i, id)
    /\ services' = [services EXCEPT ![i] = Reset]
    /\ queues' = [queues EXCEPT ![i] = <<>>]
    /\ active' = active \ {i}
    /\ count' = count - 1

DestroyService(id) ==
  /\ Idle
  /\ Destroy(id)
  /\ UNCHANGED <<now, offered, sweep>>

(* What does not fit the limit or the queue is dropped, with SUCCESS.      *)
BatchProcess(id, fits) ==
  /\ Idle
  /\ offered + Len(fits) <= MaxOffered
  /\ \E i \in Slots :
       /\ Found(i, id)
       /\ queues' = [queues EXCEPT ![i] = UpTo(@ \o Fresh(fits), MaxCommands)]
       /\ services' = [services EXCEPT ![i].last = now]
  /\ offered' = offered + Len(fits)
  /\ UNCHANGED <<active, count, now, sweep>>

(* Mutant: the queue's count is not lowered.                               *)
FilterCommandsKeepCount(i, keep) ==
  /\ Idle
  /\ LET kept == Kept(queues[i], keep)
     IN  queues' = [queues EXCEPT ![i] = kept \o SubSeq(@, Len(kept) + 1, Len(@))]
  /\ UNCHANGED <<services, active, count, now, offered, sweep>>

(* The predicate keeps the commands in `keep'.                             *)
FilterCommands(i, keep) ==
  /\ Idle
  /\ queues' = [queues EXCEPT ![i] = Kept(@, keep)]
  /\ UNCHANGED <<services, active, count, now, offered, sweep>>

(* The operation is the application's; here it uses up the whole queue.    *)
ProcessCommands(i) ==
  /\ Idle
  /\ queues' = [queues EXCEPT ![i] = <<>>]
  /\ services' = [services EXCEPT ![i].last = now]
  /\ UNCHANGED <<active, count, now, offered, sweep>>

(* The service's `state' word is the application's own and left out.       *)
UpdateServiceState(id) ==
  /\ Idle
  /\ \E i \in Slots :
       /\ Found(i, id)
       /\ services' = [services EXCEPT ![i].last = now]
  /\ UNCHANGED <<queues, active, count, now, offered, sweep>>

CollectGarbage ==
  /\ Idle
  /\ sweep' = [next |-> 0, time |-> now,
               due |-> {i \in active : Expired(now, services[i].last)},
               before |-> [i \in active |-> services[i].id]]
  /\ UNCHANGED <<services, queues, active, count, now, offered>>

(* Mutant: the walk goes one slot too far.                                 *)
SweepSlotPastEnd ==
  /\ ~Idle /\ sweep.next <= MaxServices
  /\ IF sweep.next \in active /\ Expired(sweep.time, services[sweep.next].last)
       THEN Destroy(services[sweep.next].id)
       ELSE UNCHANGED <<services, queues, active, count>>
  /\ sweep' = [sweep EXCEPT !.next = @ + 1]
  /\ UNCHANGED <<now, offered>>

(* The collector destroys by id what it found by slot.                     *)
SweepSlot ==
  /\ ~Idle /\ sweep.next < MaxServices
  /\ IF sweep.next \in active /\ Expired(sweep.time, services[sweep.next].last)
       THEN Destroy(services[sweep.next].id)
       ELSE UNCHANGED <<services, queues, active, count>>
  /\ sweep' = [sweep EXCEPT !.next = @ + 1]
  /\ UNCHANGED <<now, offered>>

CollectDone ==
  /\ ~Idle /\ sweep.next = MaxServices
  /\ sweep' = NotSweeping
  /\ UNCHANGED <<services, queues, active, count, now, offered>>

(* Environment: the wall clock moves, or is set.                           *)
Tick ==
  /\ now' \in Times \ {now}
  /\ UNCHANGED <<services, queues, active, count, offered, sweep>>

Next ==
  \/ \E id \in ServiceIds : CreateService(id)
  \/ \E id \in ServiceIds : DestroyService(id)
  \/ \E id \in ServiceIds, n \in 0 .. MaxBatch :
       \E fits \in [1 .. n -> BOOLEAN] : BatchProcess(id, fits)
  \/ \E i \in Slots, keep \in SUBSET (1 .. offered) : FilterCommands(i, keep)
  \/ \E i \in Slots : ProcessCommands(i)
  \/ \E id \in ServiceIds : UpdateServiceState(id)
  \/ CollectGarbage \/ SweepSlot \/ CollectDone
  \/ Tick

Spec == Init /\ [][Next]_vars

-----------------------------------------------------------------------------
Records == [id : ServiceIds \cup {0}, last : Times \cup {0}]

TypeOK ==
  /\ services \in [Slots -> Records]
  /\ queues \in [Slots -> Seq(1 .. offered)] /\ \A i \in Slots : Len(queues[i]) <= MaxCommands
  /\ active \subseteq Slots /\ \A i \in active : services[i].id \in ServiceIds
  /\ count \in 0 .. MaxServices
  /\ now \in Times
  /\ offered \in 0 .. MaxOffered
  /\ sweep \in Sweeps \cup {NotSweeping}

(* The count kept beside the mask is the number of its bits.  With that,   *)
(* the test of the count alone keeps create_service's search for a clear   *)
(* bit from shifting past the 32 bits of the mask.                         *)
CountMatchesMask == count = Cardinality(active)

(* What a queue holds is in the order it was offered and nothing is there  *)
(* twice, over all filtering in place.                                     *)
QueuesInOrder ==
  \A i \in Slots : \A j \in DOMAIN queues[i] : \A k \in 1 .. j - 1 : queues[i][k] < queues[i][j]

Gone(id) == {i \in DOMAIN sweep.before \ active : sweep.before[i] = id}
DueSoFar(id) == {i \in sweep.due : i < sweep.next /\ sweep.before[i] = id}

(* A collection destroys, of every id, as many services as had timed out   *)
(* when it started: none escapes because the search by id hit another one, *)
(* none is hit twice.  So where ids are unique it destroys exactly those.  *)
SweepTakesAsManyAsDue ==
  ~Idle => /\ active \subseteq DOMAIN sweep.before
           /\ \A id \in ServiceIds : Cardinality(Gone(id)) = Cardinality(DueSoFar(id))

(* polycall_micro.c:278 "Clean up inactive services": the services a       *)
(* collection destroys have themselves timed out.                          *)
CollectsOnlyInactive ==
  [][SweepSlot => \A i \in active \ active' : Expired(sweep.time, services[i].last)]_vars
=============================================================================
