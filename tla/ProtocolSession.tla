-------------------------- MODULE ProtocolSession --------------------------
(***************************************************************************)
(* A protocol session of libpolycall (src/polycall_protocol.c) over the    *)
(* state machine it creates: every change of the session's state first     *)
(* executes a transition of that machine, which the application has filled *)
(* with states and transitions and may lock at any time.                   *)
(*                                                                         *)
(* The machine is an instance of PolyCallStateMachine.  The callbacks of   *)
(* its states may call the session again, so a change of state is two      *)
(* steps here as it is there, and `goals' runs in parallel to the          *)
(* machine's stack `pending'.  Transition names are named for the state    *)
(* they lead to: "HANDSHAKE" is POLYCALL_TRANSITION_TO_HANDSHAKE.          *)
(*                                                                         *)
(* The callbacks of polycall_protocol_config_t never run: the context that *)
(* callers hold has no room for them.  So polycall_protocol_process checks *)
(* a message and changes nothing, and has no action.                       *)
(***************************************************************************)
EXTENDS Naturals, Sequences

CONSTANTS
  MaxTransitions,  \* POLYCALL_MAX_TRANSITIONS
  MaxDepth,        \* bound: nesting of calls from callbacks
  MaxVersion,      \* bound: versions of a machine state
  MaxFailures,     \* bound: refused transitions
  MaxSequence      \* bound: sequence numbers, far below 2^32

ASSUME BoundsOK ==
  /\ MaxTransitions \in Nat /\ MaxDepth \in Nat /\ MaxVersion \in Nat
  /\ MaxFailures \in Nat /\ MaxSequence \in Nat \ {0}

States == <<"INIT", "HANDSHAKE", "AUTH", "READY", "ERROR", "CLOSED">>
Targets == {"HANDSHAKE", "AUTH", "READY", "ERROR", "CLOSED"}
Outcomes == {"whole", "not whole"}   \* of net_send

VARIABLES
  session,       \* ctx->state
  nextSequence,  \* ctx->next_sequence
  wire,          \* the types of the messages written whole to the endpoint
  goals,         \* new_state of each transition_protocol_state in progress
  numStates, states, transitions, current, pending, snaps, failed, violations,
  original       \* ctx->state_machine

machine == <<numStates, states, transitions, current, pending, snaps, failed,
             violations, original>>
vars == <<session, nextSequence, wire, goals, machine>>

SM == INSTANCE PolyCallStateMachine WITH
        Contents <- {"content"}, Checksum <- [x \in {"content"} \X (0 .. Len(States)) |-> 0],
        PassesCheck <- [c \in {"content"} |-> TRUE],
        TNames <- Targets, Holders <- {}, NoSnapshot <- <<>>,
        MaxStates <- Len(States), overwritten <- {}

(* The machine's state for a state of the session: the application has     *)
(* registered them in the order of polycall_protocol_state_t.              *)
IdOf(p) == (CHOOSE k \in DOMAIN States : States[k] = p) - 1

CanTransition(from, to) ==
  \/ from = "INIT" /\ to = "HANDSHAKE"
  \/ from = "HANDSHAKE" /\ to = "AUTH"
  \/ from = "AUTH" /\ to = "READY"
  \/ from = "READY" /\ to \in {"ERROR", "CLOSED"}
  \/ from = "ERROR" /\ to = "CLOSED"

-----------------------------------------------------------------------------
Init ==
  /\ SM!Init
  /\ session = "INIT" /\ nextSequence = 1 /\ wire = {} /\ goals = <<>>

(* A sequence number is used up whether or not the message goes out.       *)
SendMessage(type, outcome) ==
  /\ nextSequence < MaxSequence
  /\ nextSequence' = nextSequence + 1
  /\ wire' = IF outcome = "whole" THEN wire \cup {type} ELSE wire

(* transition_protocol_state up to the callbacks of the machine ...        *)
TransitionTo(p) ==
  \/ SM!BeginTransition(p) /\ goals' = Append(goals, p)
  \/ SM!FailTransition(p) /\ UNCHANGED goals
  \/ /\ \E k \in DOMAIN transitions : SM!First(k, p) /\ SM!Locked(k)
     /\ UNCHANGED <<machine, goals>>

(* ... and from their return.                                              *)
FinishTransition ==
  /\ SM!FinishTransition
  /\ session' = goals[Len(goals)]
  /\ goals' = SubSeq(goals, 1, Len(goals) - 1)
  /\ UNCHANGED <<nextSequence, wire>>

(* Mutant: the transition follows whether or not the message went out.     *)
TransitionAnyway(type, outcome, p) ==
  SendMessage(type, outcome) /\ TransitionTo(p) /\ UNCHANGED session

(* A message first, then the transition if it went out whole.              *)
SendThenTransition(type, outcome, p) ==
  /\ SendMessage(type, outcome)
  /\ IF outcome = "whole" THEN TransitionTo(p) ELSE UNCHANGED <<machine, goals>>
  /\ UNCHANGED session

StartHandshake(outcome) ==
  session = "INIT" /\ SendThenTransition("HANDSHAKE", outcome, "HANDSHAKE")

CompleteHandshake ==
  session = "HANDSHAKE" /\ TransitionTo("AUTH") /\ UNCHANGED <<session, nextSequence, wire>>

(* Whatever state the session is in.                                       *)
Authenticate(outcome) == SendThenTransition("AUTH", outcome, "READY")

(* Mutant: polycall_protocol_set_error assigns ctx->state itself.          *)
SetErrorDirectly == session' = "ERROR" /\ UNCHANGED <<nextSequence, wire, goals, machine>>

(* Mutant: ... and the current state of its machine with it.               *)
SetErrorByHand ==
  /\ numStates = Len(States) /\ session' = "ERROR" /\ current' = IdOf("ERROR")
  /\ UNCHANGED <<nextSequence, wire, goals, numStates, states, transitions, pending,
                 snaps, failed, violations, original>>

SetError == TransitionTo("ERROR") /\ UNCHANGED <<session, nextSequence, wire>>

Update(outcome) ==
  \/ session = "INIT" /\ CanTransition(session, "HANDSHAKE") /\ StartHandshake(outcome)
  \/ \E from, to \in {"HANDSHAKE", "AUTH", "READY"} :
       /\ session = from /\ <<from, to>> \in {<<"HANDSHAKE", "AUTH">>, <<"AUTH", "READY">>}
       /\ CanTransition(session, to) /\ TransitionTo(to)
       /\ UNCHANGED <<session, nextSequence, wire>>

Send(outcome) ==
  SendMessage("COMMAND", outcome) /\ UNCHANGED <<session, machine, goals>>

(* The application's part: it installs the machine and locks its states.   *)
UseMachine ==
  /\ \/ SM!AddState("content")
     \/ \E p \in Targets, from \in SM!Ids : SM!AddTransition(p, from, IdOf(p), FALSE)
     \/ \E i \in SM!Ids : SM!LockState(i) \/ SM!UnlockState(i)
  /\ UNCHANGED <<session, nextSequence, wire, goals>>

Next ==
  \/ \E outcome \in Outcomes :
       StartHandshake(outcome) \/ Authenticate(outcome) \/ Update(outcome) \/ Send(outcome)
  \/ CompleteHandshake \/ SetError \/ FinishTransition
  \/ UseMachine

Spec == Init /\ [][Next]_vars

-----------------------------------------------------------------------------
TypeOK ==
  /\ SM!TypeOK
  /\ session \in Targets \cup {"INIT"}
  /\ nextSequence \in 1 .. MaxSequence
  /\ wire \subseteq {"HANDSHAKE", "AUTH", "COMMAND"}
  /\ goals \in Seq(Targets) /\ Len(goals) = Len(pending)

(* The machine is where the session says: no failed or nested transition   *)
(* moves one without the other, in the callbacks of a transition either.   *)
SessionTracksMachine == current = IdOf(session)

(* A session that claims a handshake has sent one whole.                   *)
HandshakeSent ==
  session \in {"HANDSHAKE", "AUTH"} => "HANDSHAKE" \in wire

(* The application's lock on a machine state holds for the session too: it *)
(* does not enter a state that was locked when the transition began.       *)
SessionRespectsLocks ==
  [][session' # session /\ states[IdOf(session')].locked =>
       states[IdOf(session')].version > pending[Len(pending)].seen]_vars

(* The session uses its machine by the machine's own operations only, so   *)
(* what holds of every PolyCallStateMachine holds of this one.             *)
MachineSpec == SM!Spec
=============================================================================
