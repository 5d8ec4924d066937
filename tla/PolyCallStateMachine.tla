------------------------ MODULE PolyCallStateMachine ------------------------
(***************************************************************************)
(* The state machine of libpolycall (src/polycall_state_machine.c): a      *)
(* table of states with checksums, versions and lock flags, a table of     *)
(* named transitions between them, and caller-held snapshots of states.    *)
(*                                                                         *)
(* A transition runs on_exit, its action and on_enter between its checks   *)
(* and its effect.  Those callbacks belong to the application and may call *)
(* back into the same machine, so executing a transition is two steps,     *)
(* BeginTransition and FinishTransition, with `pending' the stack of       *)
(* transitions whose callbacks are still running.  MaxDepth = 1 gives      *)
(* callbacks that execute no further transition.                           *)
(*                                                                         *)
(* A call the code refuses without changing anything is a stuttering step  *)
(* and has no action here.                                                 *)
(***************************************************************************)
EXTENDS Naturals, Sequences

CONSTANTS
  Contents,        \* name, callbacks and is_final of a state
  Checksum,        \* calculate_state_checksum: a function of contents and id
  PassesCheck,     \* the integrity_check callback (TRUE where it is NULL)
  TNames,          \* names of transitions
  Holders,         \* snapshot buffers held by callers
  NoSnapshot,      \* an empty snapshot buffer
  MaxStates,       \* POLYCALL_MAX_STATES
  MaxTransitions,  \* POLYCALL_MAX_TRANSITIONS
  MaxDepth,        \* bound: nesting of transitions run from callbacks
  MaxVersion,      \* bound: versions of a state, far below 2^32
  MaxFailures      \* bound: each diagnostics counter

IdArgs == 0 .. MaxStates   \* ids a caller may pass, the invalid ones included
Covered == Contents \X IdArgs
Sums == {Checksum[x] : x \in Covered}

(* A state bears its own id, which the checksum covers like its contents.  *)
StateRecords ==
  [content : Contents, id : IdArgs, sum : Sums, version : Nat, locked : BOOLEAN]

(* The copy of a whole state, its id included.  `of' is history: the id it *)
(* was asked of.                                                           *)
Snapshots == [of : Nat, state : StateRecords]

ASSUME ConstantsOK ==
  /\ NoSnapshot \notin Snapshots
  /\ PassesCheck \in [Contents -> BOOLEAN]
  /\ DOMAIN Checksum = Covered
  /\ MaxStates \in Nat /\ MaxTransitions \in Nat /\ MaxDepth \in Nat
  /\ MaxVersion \in Nat /\ MaxFailures \in Nat

VARIABLES
  numStates,    \* sm->num_states
  states,       \* sm->states, defined on the registered ids
  transitions,  \* sm->transitions, in the order they were added
  current,      \* sm->current_state
  pending,      \* transitions between their checks and their effect
  snaps,        \* the snapshots in callers' hands
  failed,       \* diagnostics.failed_transitions
  violations,   \* diagnostics.integrity_violations
  original,     \* history: the contents polycall_sm_add_state registered
  overwritten   \* history: the states restored from another one's snapshot

vars == <<numStates, states, transitions, current, pending, snaps, failed,
          violations, original, overwritten>>

Ids == 0 .. numStates - 1

-----------------------------------------------------------------------------
SumOf(state) == Checksum[<<state.content, state.id>>]
RegisteredSum(i) == Checksum[<<original[i], i>>]
Verifies(i) == states[i].sum = SumOf(states[i])

(* Mutant: a write also recomputes the checksum, hiding earlier damage.    *)
TouchedRehashed(state) ==
  [state EXCEPT !.version = @ + 1, !.sum = SumOf(state)]

(* Every write to a state ends in update_state_timestamp: a new version.   *)
Touched(state) == [state EXCEPT !.version = @ + 1]

CanTouch(i) == states[i].version < MaxVersion

NewState(c, i) ==
  Touched([content |-> c, id |-> i, sum |-> Checksum[<<c, i>>], version |-> 1,
           locked |-> FALSE])

(* The lookup of polycall_sm_execute_transition: the first with the name.  *)
First(k, n) ==
  /\ transitions[k].name = n
  /\ \A j \in 1 .. k - 1 : transitions[j].name # n

(* Mutant: only the state that is left may not be locked.                  *)
LockedFrom(k) == states[transitions[k].from].locked

Locked(k) ==
  states[transitions[k].from].locked \/ states[transitions[k].to].locked

VerifyFails(i) == ~Verifies(i) \/ ~PassesCheck[states[i].content]

-----------------------------------------------------------------------------
Init ==
  /\ numStates = 0 /\ states = [i \in Ids |-> {}]
  /\ transitions = <<>> /\ current = 0 /\ pending = <<>>
  /\ snaps = [h \in Holders |-> NoSnapshot]
  /\ failed = 0 /\ violations = 0
  /\ original = [i \in Ids |-> {}] /\ overwritten = {}

AddState(c) ==
  /\ numStates < MaxStates
  /\ numStates' = numStates + 1
  /\ states' = [i \in 0 .. numStates |-> IF i = numStates THEN NewState(c, i) ELSE states[i]]
  /\ original' = [i \in 0 .. numStates |-> IF i = numStates THEN c ELSE original[i]]
  /\ UNCHANGED <<transitions, current, pending, snaps, failed, violations, overwritten>>

(* Mutant: endpoints compared with > instead of >= num_states.             *)
AddTransitionOffByOne(n, from, to, guarded) ==
  /\ Len(transitions) < MaxTransitions
  /\ from <= numStates /\ to <= numStates
  /\ transitions' =
       Append(transitions, [name |-> n, from |-> from, to |-> to, guarded |-> guarded])
  /\ UNCHANGED <<numStates, states, current, pending, snaps, failed, violations, original,
                 overwritten>>

AddTransition(n, from, to, guarded) ==
  /\ Len(transitions) < MaxTransitions
  /\ from \in Ids /\ to \in Ids
  /\ transitions' =
       Append(transitions, [name |-> n, from |-> from, to |-> to, guarded |-> guarded])
  /\ UNCHANGED <<numStates, states, current, pending, snaps, failed, violations, original,
                 overwritten>>

(* No transition of the name, or its guard_condition says no.              *)
FailTransition(n) ==
  /\ \/ \A k \in DOMAIN transitions : transitions[k].name # n
     \/ \E k \in DOMAIN transitions : First(k, n) /\ ~Locked(k) /\ transitions[k].guarded
  /\ failed < MaxFailures
  /\ failed' = failed + 1
  /\ UNCHANGED <<numStates, states, transitions, current, pending, snaps, violations, original,
                 overwritten>>

(* The checks pass and the callbacks start.  `seen' records the version of *)
(* the target at that moment, for the properties.                          *)
BeginTransition(n) ==
  /\ Len(pending) < MaxDepth
  /\ \E k \in DOMAIN transitions :
       /\ First(k, n) /\ ~Locked(k)
       /\ pending' = Append(pending,
            [index |-> k, seen |-> states[transitions[k].to].version])
  /\ UNCHANGED <<numStates, states, transitions, current, snaps, failed, violations, original,
                 overwritten>>

(* Mutant: entering a state does not update its timestamp.                 *)
FinishUntouched ==
  /\ pending # <<>>
  /\ current' = transitions[pending[Len(pending)].index].to
  /\ pending' = SubSeq(pending, 1, Len(pending) - 1)
  /\ UNCHANGED <<numStates, states, transitions, snaps, failed, violations, original,
                 overwritten>>

(* The callbacks of the innermost transition have returned.                *)
FinishTransition ==
  /\ pending # <<>>
  /\ LET to == transitions[pending[Len(pending)].index].to
     IN  /\ CanTouch(to)
         /\ current' = to
         /\ states' = [states EXCEPT ![to] = Touched(@)]
  /\ pending' = SubSeq(pending, 1, Len(pending) - 1)
  /\ UNCHANGED <<numStates, transitions, snaps, failed, violations, original,
                 overwritten>>

VerifyStateIntegrity(i) ==
  /\ i \in Ids /\ VerifyFails(i)
  /\ violations < MaxFailures
  /\ violations' = violations + 1
  /\ UNCHANGED <<numStates, states, transitions, current, pending, snaps, failed, original,
                 overwritten>>

(* Mutant: lock_state and unlock_state do not update the timestamp.        *)
SetLockSilently(i, flag) ==
  /\ i \in Ids
  /\ states' = [states EXCEPT ![i].locked = flag]
  /\ UNCHANGED <<numStates, transitions, current, pending, snaps, failed, violations, original,
                 overwritten>>

SetLock(i, flag) ==
  /\ i \in Ids /\ CanTouch(i)
  /\ states' = [states EXCEPT ![i] = Touched([@ EXCEPT !.locked = flag])]
  /\ UNCHANGED <<numStates, transitions, current, pending, snaps, failed, violations, original,
                 overwritten>>

LockState(i) == SetLock(i, TRUE)
UnlockState(i) == SetLock(i, FALSE)

CreateSnapshot(h, i) ==
  /\ i \in Ids
  /\ snaps' = [snaps EXCEPT ![h] = [of |-> i, state |-> states[i]]]
  /\ UNCHANGED <<numStates, states, transitions, current, pending, failed, violations, original,
                 overwritten>>

(* The state written over is the one the copy's id names, whatever state   *)
(* the copy was taken of.                                                  *)
CopyBack(h) ==
  /\ states' = [states EXCEPT ![snaps[h].state.id] = Touched(snaps[h].state)]
  /\ overwritten' = IF snaps[h].of = snaps[h].state.id THEN overwritten
                                                       ELSE overwritten \cup {snaps[h].state.id}
  /\ UNCHANGED <<numStates, transitions, current, pending, snaps, failed, violations, original>>

(* Mutant: no comparison of versions.                                      *)
RestoreAnyVersion(h) ==
  /\ snaps[h] # NoSnapshot /\ snaps[h].state.id \in Ids
  /\ ~states[snaps[h].state.id].locked
  /\ CopyBack(h)

(* The checksum kept with the snapshot is not looked at.                   *)
RestoreFromSnapshot(h) ==
  /\ snaps[h] # NoSnapshot
  /\ snaps[h].state.id \in Ids
  /\ ~states[snaps[h].state.id].locked
  /\ states[snaps[h].state.id].version = snaps[h].state.version
  /\ CanTouch(snaps[h].state.id)
  /\ CopyBack(h)

(* PolyCall_State is public: a stray write through it, to its id as well   *)
(* as its contents, is what the checksums are there to detect.             *)
(* Environment, no code of the library.                                    *)
Corrupt(i, c, id) ==
  /\ i \in Ids /\ <<c, id>> # <<states[i].content, states[i].id>>
  /\ states' = [states EXCEPT ![i].content = c, ![i].id = id]
  /\ UNCHANGED <<numStates, transitions, current, pending, snaps, failed, violations, original,
                 overwritten>>

Next ==
  \/ \E c \in Contents : AddState(c)
  \/ \E n \in TNames, from, to \in IdArgs, g \in BOOLEAN : AddTransition(n, from, to, g)
  \/ \E n \in TNames : FailTransition(n)
  \/ \E n \in TNames : BeginTransition(n)
  \/ FinishTransition
  \/ \E i \in IdArgs : VerifyStateIntegrity(i)
  \/ \E i \in IdArgs : LockState(i)
  \/ \E i \in IdArgs : UnlockState(i)
  \/ \E h \in Holders, i \in IdArgs : CreateSnapshot(h, i)
  \/ \E h \in Holders : RestoreFromSnapshot(h)
  \/ \E i, id \in IdArgs, c \in Contents : Corrupt(i, c, id)

Spec == Init /\ [][Next]_vars

-----------------------------------------------------------------------------
Transitions == [name : TNames, from : Nat, to : Nat, guarded : BOOLEAN]
Pendings == [index : Nat, seen : Nat]

(* The ids by which transitions, current_state, running calls and the      *)
(* callers of create_state_snapshot name states stay below num_states.     *)
(* Only the id a state bears may be any, once it was damaged.              *)
TypeOK ==
  /\ numStates \in 0 .. MaxStates
  /\ states \in [Ids -> StateRecords] /\ original \in [Ids -> Contents]
  /\ transitions \in Seq(Transitions) /\ Len(transitions) <= MaxTransitions
  /\ \A k \in DOMAIN transitions : transitions[k].from \in Ids /\ transitions[k].to \in Ids
  /\ current = 0 \/ current \in Ids
  /\ pending \in Seq(Pendings) /\ Len(pending) <= MaxDepth
  /\ \A k \in DOMAIN pending : pending[k].index \in DOMAIN transitions
  /\ snaps \in [Holders -> Snapshots \cup {NoSnapshot}]
  /\ \A h \in Holders : snaps[h] # NoSnapshot => snaps[h].of \in Ids
  /\ failed \in 0 .. MaxFailures /\ violations \in 0 .. MaxFailures
  /\ overwritten \subseteq Ids

(* A snapshot whose version is still that of the state it was taken of     *)
(* shows the lock flag the state has now, however often the state was      *)
(* locked, unlocked, entered or written over since.  So the version test   *)
(* of restore_state_from_snapshot is enough: a snapshot put back over the  *)
(* state it was taken of takes back no lock and no unlock.                 *)
SnapshotsCurrent ==
  \A h \in Holders : snaps[h] # NoSnapshot =>
    LET now == states[snaps[h].of]
        old == snaps[h].state
    IN  /\ old.version <= now.version
        /\ old.version = now.version => old.locked = now.locked

(* polycall_sm_verify_state_integrity reports a checksum failure exactly   *)
(* for the states whose contents and id differ, as far as the checksum     *)
(* tells, from what was registered: locking, entering and restoring raise  *)
(* no false alarm and hide no damage.  The exception are states another    *)
(* one's snapshot was restored over, which a damaged id makes possible:    *)
(* they verify only if they look, to the checksum, like some registered    *)
(* state, but not necessarily like the one registered there.               *)
VerifyIsSound ==
  \A i \in Ids :
    /\ i \notin overwritten => (Verifies(i) <=> SumOf(states[i]) = RegisteredSum(i))
    /\ Verifies(i) => \E k \in Ids : SumOf(states[i]) = RegisteredSum(k)

(* A transition whose checks saw its target unlocked enters it locked only *)
(* if a callback locked it in between: a newer version betrays it.         *)
NoEntryPastLock ==
  [][FinishTransition =>
       LET p  == pending[Len(pending)]
           to == transitions[p.index].to
       IN  states[to].locked => states[to].version > p.seen]_vars

(* Lock flags of registered states change by lock_state and unlock_state   *)
(* alone, although restoring a snapshot copies a whole state over another  *)
(* - unless the snapshot was taken of a different state, one whose id was  *)
(* damaged.                                                                *)
LocksOnlyByCall ==
  [][\A i \in Ids : states'[i].locked # states[i].locked =>
       \/ LockState(i) \/ UnlockState(i)
       \/ \E h \in Holders : snaps[h] # NoSnapshot /\ snaps[h].of # i /\ RestoreFromSnapshot(h)]_vars

(* Versions never fall, and a step that locks, unlocks or enters a state   *)
(* raises its version: an equal version means nothing of that happened.    *)
ChangesRaiseVersion ==
  [][\A i \in Ids :
       /\ states'[i].version >= states[i].version
       /\ \/ states'[i].locked # states[i].locked
          \/ current' # current /\ current' = i
         => states'[i].version > states[i].version]_vars

(* The test CLI offers "add_transition NAME FROM TO - Add a transition     *)
(* between states": the machine should move along those, from FROM to TO.  *)
MovesAlongTransitions ==
  [][current' # current =>
       \E k \in DOMAIN transitions :
         transitions[k].from = current /\ transitions[k].to = current']_vars
=============================================================================
