----------------------- MODULE ProtocolSession_proofs -----------------------
(* Proofs about ProtocolSession: it implements the specification of the    *)
(* state machine, it never parts from its machine, and it claims no        *)
(* handshake that was not sent.                                            *)
EXTENDS ProtocolSession, SequenceTheorems, TLAPS

(* The calls in progress: the machine's stack and the session's run in     *)
(* parallel, and each call holds a transition that leads where it is to go.*)
CallsInv ==
  /\ numStates \in 0 .. Len(States)
  /\ \E S : transitions \in Seq(S)
  /\ \A k \in DOMAIN transitions : transitions[k].to = IdOf(transitions[k].name)
  /\ \E S : pending \in Seq(S)
  /\ goals \in Seq(Targets)
  /\ Len(goals) = Len(pending)
  /\ \A k \in DOMAIN pending :
       /\ pending[k].index \in DOMAIN transitions
       /\ transitions[pending[k].index].name = goals[k]

(* Neither the session nor a call in progress goes past the handshake      *)
(* before it is out.                                                       *)
SentInv ==
  /\ HandshakeSent
  /\ \A k \in DOMAIN goals : goals[k] \in {"HANDSHAKE", "AUTH"} => "HANDSHAKE" \in wire

IInv == CallsInv /\ SessionTracksMachine /\ SentInv

-----------------------------------------------------------------------------
LEMMA StatesLen == Len(States) = 6
BY DEF States

LEMMA IdOfInit == IdOf("INIT") = 0
<1>1. \A k \in 1 .. 6 : States[k] = "INIT" <=> k = 1
  BY DEF States
<1>2. DOMAIN States = 1 .. 6
  BY DEF States
<1> QED
  BY <1>1, <1>2 DEF IdOf

(* What transition_protocol_state may do to the machine.                   *)
LEMMA TransitionMoves ==
  ASSUME NEW p \in Targets, TransitionTo(p)
  PROVE  SM!Next \/ UNCHANGED machine
<1>1. CASE SM!BeginTransition(p)
  BY <1>1 DEF SM!Next
<1>2. CASE SM!FailTransition(p)
  BY <1>2 DEF SM!Next
<1>3. CASE UNCHANGED machine
  BY <1>3
<1> QED
  BY <1>1, <1>2, <1>3 DEF TransitionTo

LEMMA MachineInit == Init => SM!Init
BY DEF Init

(* Every step of the session is a step of its machine or leaves it alone.  *)
LEMMA MachineStep ==
  ASSUME CallsInv, [Next]_vars
  PROVE  [SM!Next]_(SM!vars)
<1> SUFFICES SM!Next \/ UNCHANGED machine
  BY DEF SM!vars, machine
<1>1. ASSUME NEW type, NEW outcome, NEW p \in Targets, SendThenTransition(type, outcome, p)
      PROVE  SM!Next \/ UNCHANGED machine
  BY <1>1, TransitionMoves DEF SendThenTransition
<1>2. CASE \E outcome \in Outcomes : StartHandshake(outcome)
  BY <1>1, <1>2 DEF StartHandshake, Targets
<1>3. CASE \E outcome \in Outcomes : Authenticate(outcome)
  BY <1>1, <1>3 DEF Authenticate, Targets
<1>4. CASE \E outcome \in Outcomes : Update(outcome)
  <2>1. CASE \E outcome \in Outcomes : StartHandshake(outcome)
    BY <1>2, <2>1
  <2>2. CASE \E to \in {"HANDSHAKE", "AUTH", "READY"} : TransitionTo(to)
    BY <2>2, TransitionMoves DEF Targets
  <2> QED
    BY <1>4, <2>1, <2>2 DEF Update
<1>5. CASE \E outcome \in Outcomes : Send(outcome)
  BY <1>5 DEF Send
<1>6. CASE CompleteHandshake
  BY <1>6, TransitionMoves DEF CompleteHandshake, Targets
<1>7. CASE SetError
  BY <1>7, TransitionMoves DEF SetError, Targets
<1>8. CASE FinishTransition
  BY <1>8 DEF FinishTransition, SM!Next
<1>9. CASE UseMachine
  <2>1. CASE SM!AddState("content")
    BY <2>1 DEF SM!Next
  <2>2. ASSUME NEW p \in Targets, NEW from \in SM!Ids, SM!AddTransition(p, from, IdOf(p), FALSE)
        PROVE  SM!Next
    <3>1. from \in SM!IdArgs /\ IdOf(p) \in SM!IdArgs
      BY <2>2, StatesLen DEF CallsInv, SM!Ids, SM!IdArgs, SM!AddTransition
    <3> QED
      BY <2>2, <3>1 DEF SM!Next
  <2>3. ASSUME NEW i \in SM!Ids, SM!LockState(i) \/ SM!UnlockState(i)
        PROVE  SM!Next
    <3>1. i \in SM!IdArgs
      BY StatesLen DEF CallsInv, SM!Ids, SM!IdArgs
    <3> QED
      BY <2>3, <3>1 DEF SM!Next
  <2> QED
    BY <1>9, <2>1, <2>2, <2>3 DEF UseMachine
<1>10. CASE UNCHANGED vars
  BY <1>10 DEF vars, machine
<1> QED
  BY <1>2, <1>3, <1>4, <1>5, <1>6, <1>7, <1>8, <1>9, <1>10 DEF Next

-----------------------------------------------------------------------------
LEMMA Pushed ==
  ASSUME NEW S, NEW s \in Seq(S), NEW x, NEW t, t = Append(s, x)
  PROVE  /\ t \in Seq(S \cup {x})
         /\ Len(s) \in Nat /\ Len(t) = Len(s) + 1
         /\ DOMAIN s = 1 .. Len(s) /\ DOMAIN t = 1 .. Len(s) + 1
         /\ \A k \in DOMAIN s : t[k] = s[k]
         /\ t[Len(s) + 1] = x
<1>1. s \in Seq(S \cup {x})
  <2>1. Len(s) \in Nat /\ s \in [1 .. Len(s) -> S]
    BY LenProperties
  <2>2. s \in [1 .. Len(s) -> S \cup {x}]
    BY <2>1
  <2> QED
    BY <2>1, <2>2, SeqDef
<1> QED
  BY <1>1, AppendProperties, LenProperties

LEMMA Popped ==
  ASSUME NEW S, NEW s \in Seq(S), NEW t, s # <<>> /\ t = SubSeq(s, 1, Len(s) - 1)
  PROVE  /\ t \in Seq(S)
         /\ Len(s) \in Nat \ {0} /\ Len(t) = Len(s) - 1
         /\ DOMAIN s = 1 .. Len(s) /\ DOMAIN t = 1 .. Len(s) - 1
         /\ \A k \in DOMAIN t : k \in DOMAIN s /\ t[k] = s[k]
<1>1. Len(s) \in Nat \ {0} /\ DOMAIN s = 1 .. Len(s)
  BY LenProperties, EmptySeq
<1>2. t \in Seq(S) /\ Len(t) = Len(s) - 1 /\ \A k \in 1 .. Len(s) - 1 : t[k] = s[k]
  BY <1>1, SubSeqProperties
<1>3. DOMAIN t = 1 .. Len(s) - 1
  BY <1>2, LenProperties
<1> QED
  BY <1>1, <1>2, <1>3

-----------------------------------------------------------------------------
LEMMA CallsInit == Init => CallsInv
<1> SUFFICES ASSUME Init PROVE CallsInv
  OBVIOUS
<1>1. numStates = 0 /\ transitions = <<>> /\ pending = <<>> /\ goals = <<>>
  BY DEF Init, SM!Init
<1>2. <<>> \in Seq({}) /\ Len(<<>>) = 0 /\ DOMAIN <<>> = {} /\ <<>> \in Seq(Targets)
  BY EmptySeq, LenProperties
<1> QED
  BY <1>1, <1>2, StatesLen DEF CallsInv

LEMMA TransitionCalls ==
  ASSUME CallsInv, NEW p \in Targets, TransitionTo(p)
  PROVE  /\ CallsInv' /\ UNCHANGED current
         /\ \A k \in DOMAIN goals' : goals'[k] = p \/ (k \in DOMAIN goals /\ goals'[k] = goals[k])
<1>1. CASE SM!BeginTransition(p) /\ goals' = Append(goals, p)
  <2>1. PICK i \in DOMAIN transitions :
          /\ SM!First(i, p)
          /\ pending' = Append(pending,
               [index |-> i, seen |-> states[transitions[i].to].version])
    BY <1>1 DEF SM!BeginTransition
  <2>2. PICK S : pending \in Seq(S)
    BY DEF CallsInv
  <2> DEFINE new == [index |-> i, seen |-> states[transitions[i].to].version]
  <2>3. /\ pending' \in Seq(S \cup {new})
        /\ Len(pending) \in Nat /\ Len(pending') = Len(pending) + 1
        /\ DOMAIN pending = 1 .. Len(pending) /\ DOMAIN pending' = 1 .. Len(pending) + 1
        /\ \A k \in DOMAIN pending : pending'[k] = pending[k]
        /\ pending'[Len(pending) + 1] = new
    BY <2>1, <2>2, Pushed
  <2>4. goals \in Seq(Targets)
    BY DEF CallsInv
  <2>5. /\ goals' \in Seq(Targets \cup {p})
        /\ Len(goals) \in Nat /\ Len(goals') = Len(goals) + 1
        /\ DOMAIN goals = 1 .. Len(goals) /\ DOMAIN goals' = 1 .. Len(goals) + 1
        /\ \A k \in DOMAIN goals : goals'[k] = goals[k]
        /\ goals'[Len(goals) + 1] = p
    BY <1>1, <2>4, Pushed
  <2>6. Targets \cup {p} = Targets
    OBVIOUS
  <2>7. new.index = i /\ transitions[i].name = p
    BY <2>1 DEF SM!First
  <2>8. UNCHANGED <<numStates, transitions, current>>
    BY <1>1 DEF SM!BeginTransition
  <2> HIDE DEF new
  <2>9. \A k \in DOMAIN pending' :
          pending'[k].index \in DOMAIN transitions /\ transitions[pending'[k].index].name = goals'[k]
    BY <2>1, <2>3, <2>5, <2>7 DEF CallsInv
  <2>10. (\E T : pending' \in Seq(T)) /\ (\E T : transitions' \in Seq(T))
    BY <2>3, <2>8 DEF CallsInv
  <2>11. goals' \in Seq(Targets) /\ Len(goals') = Len(pending')
    BY <2>3, <2>5, <2>6 DEF CallsInv
  <2>12. CallsInv'
    BY <2>8, <2>9, <2>10, <2>11 DEF CallsInv
  <2> QED
    BY <2>5, <2>8, <2>12
<1>2. CASE UNCHANGED <<machine, goals>>
  BY <1>2 DEF CallsInv, machine
<1>3. CASE SM!FailTransition(p) /\ UNCHANGED goals
  BY <1>3 DEF CallsInv, SM!FailTransition
<1> QED
  BY <1>1, <1>2, <1>3 DEF TransitionTo

LEMMA FinishCalls ==
  ASSUME CallsInv, FinishTransition
  PROVE  /\ CallsInv' /\ current' = IdOf(session')
         /\ session' = goals[Len(goals)] /\ Len(goals) \in DOMAIN goals
         /\ \A k \in DOMAIN goals' : k \in DOMAIN goals /\ goals'[k] = goals[k]
<1>1. PICK S : pending \in Seq(S)
  BY DEF CallsInv
<1>2. pending # <<>> /\ pending' = SubSeq(pending, 1, Len(pending) - 1)
  BY DEF FinishTransition, SM!FinishTransition
<1>3. /\ pending' \in Seq(S)
      /\ Len(pending) \in Nat \ {0} /\ Len(pending') = Len(pending) - 1
      /\ DOMAIN pending = 1 .. Len(pending) /\ DOMAIN pending' = 1 .. Len(pending) - 1
      /\ \A k \in DOMAIN pending' : k \in DOMAIN pending /\ pending'[k] = pending[k]
  <2>1. pending \in Seq(S)
    BY <1>1
  <2>2. pending' \in Seq(S) /\ Len(pending) \in Nat \ {0}
    BY <2>1, <1>2, Popped
  <2>3. Len(pending') = Len(pending) - 1
    BY <2>1, <1>2, Popped
  <2>4. DOMAIN pending = 1 .. Len(pending) /\ DOMAIN pending' = 1 .. Len(pending) - 1
    BY <2>1, <2>2, <2>3, LenProperties
  <2>5. \A k \in DOMAIN pending' : k \in DOMAIN pending /\ pending'[k] = pending[k]
    BY <2>1, <1>2, Popped
  <2> QED
    BY <2>2, <2>3, <2>4, <2>5
<1>4. goals \in Seq(Targets) /\ Len(goals) = Len(pending)
  BY DEF CallsInv
<1>5. goals # <<>> /\ goals' = SubSeq(goals, 1, Len(goals) - 1)
  <2>1. Len(<<>>) = 0
    OBVIOUS
  <2> QED
    BY <1>3, <1>4, <2>1 DEF FinishTransition
<1>6. /\ goals' \in Seq(Targets)
      /\ Len(goals) \in Nat \ {0} /\ Len(goals') = Len(goals) - 1
      /\ DOMAIN goals = 1 .. Len(goals) /\ DOMAIN goals' = 1 .. Len(goals) - 1
      /\ \A k \in DOMAIN goals' : k \in DOMAIN goals /\ goals'[k] = goals[k]
  BY <1>4, <1>5, Popped
<1>7. UNCHANGED <<numStates, transitions>>
  BY DEF FinishTransition, SM!FinishTransition
<1>8. \A k \in DOMAIN pending' :
        pending'[k].index \in DOMAIN transitions /\ transitions[pending'[k].index].name = goals'[k]
  BY <1>3, <1>4, <1>6 DEF CallsInv
<1>9. CallsInv'
  <2>1. (\E T : pending' \in Seq(T)) /\ (\E T : transitions' \in Seq(T))
    BY <1>3, <1>7 DEF CallsInv
  <2>2. goals' \in Seq(Targets) /\ Len(goals') = Len(pending')
    BY <1>3, <1>4, <1>6
  <2> QED
    BY <1>7, <1>8, <2>1, <2>2 DEF CallsInv
<1>10. Len(pending) \in DOMAIN pending
  BY <1>3
<1>11. current' = transitions[pending[Len(pending)].index].to
  BY DEF FinishTransition, SM!FinishTransition
<1>12. session' = goals[Len(goals)]
  BY DEF FinishTransition
<1>13. current' = IdOf(session')
  BY <1>4, <1>10, <1>11, <1>12 DEF CallsInv
<1> QED
  BY <1>6, <1>9, <1>12, <1>13

(* The application registers a transition under the name of its target.    *)
LEMMA UseCalls ==
  ASSUME CallsInv, UseMachine
  PROVE  CallsInv' /\ UNCHANGED current
<1>1. CASE SM!AddState("content")
  BY <1>1, StatesLen DEF CallsInv, UseMachine, SM!AddState
<1>2. ASSUME NEW p \in Targets, NEW from \in SM!Ids, SM!AddTransition(p, from, IdOf(p), FALSE)
      PROVE  CallsInv' /\ UNCHANGED current
  <2> DEFINE new == [name |-> p, from |-> from, to |-> IdOf(p), guarded |-> FALSE]
  <2>1. PICK S : transitions \in Seq(S)
    BY DEF CallsInv
  <2>2. transitions' = Append(transitions, new)
    BY <1>2 DEF SM!AddTransition
  <2>3. new.to = IdOf(new.name)
    OBVIOUS
  <2> HIDE DEF new
  <2>4. /\ transitions' \in Seq(S \cup {new})
        /\ Len(transitions) \in Nat
        /\ DOMAIN transitions = 1 .. Len(transitions)
        /\ DOMAIN transitions' = 1 .. Len(transitions) + 1
        /\ \A k \in DOMAIN transitions : transitions'[k] = transitions[k]
        /\ transitions'[Len(transitions) + 1] = new
    BY <2>1, <2>2, Pushed
  <2>5. UNCHANGED <<numStates, current, pending, goals>>
    BY <1>2 DEF UseMachine, SM!AddTransition
  <2>6. \A k \in DOMAIN transitions' : transitions'[k].to = IdOf(transitions'[k].name)
    BY <2>3, <2>4 DEF CallsInv
  <2>7. \A k \in DOMAIN pending :
          /\ pending[k].index \in DOMAIN transitions'
          /\ transitions'[pending[k].index].name = goals[k]
    <3>1. DOMAIN transitions \subseteq DOMAIN transitions'
      BY <2>4
    <3>2. \A k \in DOMAIN pending : pending[k].index \in DOMAIN transitions
                                   /\ transitions[pending[k].index].name = goals[k]
      BY DEF CallsInv
    <3>3. \A j \in DOMAIN transitions : transitions'[j] = transitions[j]
      BY <2>4
    <3> QED
      BY <3>1, <3>2, <3>3
  <2>8. (\E T : pending' \in Seq(T)) /\ (\E T : transitions' \in Seq(T))
    BY <2>4, <2>5 DEF CallsInv
  <2> QED
    BY <2>5, <2>6, <2>7, <2>8 DEF CallsInv
<1>3. ASSUME NEW i \in SM!Ids, SM!LockState(i) \/ SM!UnlockState(i)
      PROVE  CallsInv' /\ UNCHANGED current
  BY <1>3 DEF CallsInv, UseMachine, SM!LockState, SM!UnlockState, SM!SetLock
<1> QED
  BY <1>1, <1>2, <1>3 DEF UseMachine

-----------------------------------------------------------------------------
LEMMA IInvInit == Init => IInv
<1> SUFFICES ASSUME Init PROVE IInv
  OBVIOUS
<1>1. CallsInv
  BY CallsInit
<1>2. SessionTracksMachine
  BY IdOfInit DEF Init, SM!Init, SessionTracksMachine
<1>3. SentInv
  <2>1. DOMAIN <<>> = {}
    OBVIOUS
  <2> QED
    BY <2>1 DEF Init, SentInv, HandshakeSent
<1> QED
  BY <1>1, <1>2, <1>3 DEF IInv

(* A call keeps the invariant if it goes past the handshake only with the  *)
(* handshake out.                                                          *)
LEMMA TransitionKeeps ==
  ASSUME IInv, NEW p \in Targets, TransitionTo(p), UNCHANGED session, wire \subseteq wire',
         p \in {"HANDSHAKE", "AUTH"} => "HANDSHAKE" \in wire'
  PROVE  IInv'
<1>1. /\ CallsInv' /\ UNCHANGED current
      /\ \A k \in DOMAIN goals' : goals'[k] = p \/ (k \in DOMAIN goals /\ goals'[k] = goals[k])
  BY TransitionCalls DEF IInv
<1>2. SentInv'
  BY <1>1 DEF IInv, SentInv, HandshakeSent
<1> QED
  BY <1>1, <1>2 DEF IInv, SessionTracksMachine

LEMMA IdleKeeps ==
  ASSUME IInv, UNCHANGED <<session, machine, goals>>, wire \subseteq wire'
  PROVE  IInv'
BY DEF IInv, CallsInv, SessionTracksMachine, SentInv, HandshakeSent, machine

LEMMA SendKeeps ==
  ASSUME IInv, NEW type, NEW outcome \in Outcomes, NEW p \in Targets,
         SendThenTransition(type, outcome, p),
         p \in {"HANDSHAKE", "AUTH"} => type = "HANDSHAKE"
  PROVE  IInv'
<1>1. UNCHANGED session /\ wire \subseteq wire'
  BY DEF SendThenTransition, SendMessage
<1>2. CASE outcome = "whole"
  <2>1. type \in wire' /\ TransitionTo(p)
    BY <1>2 DEF SendThenTransition, SendMessage
  <2> QED
    BY <1>1, <2>1, TransitionKeeps
<1>3. CASE outcome # "whole"
  BY <1>1, <1>3, IdleKeeps DEF SendThenTransition
<1> QED
  BY <1>2, <1>3

LEMMA IInvStep == IInv /\ [Next]_vars => IInv'
<1> SUFFICES ASSUME IInv, [Next]_vars PROVE IInv'
  OBVIOUS
<1>1. ASSUME NEW outcome \in Outcomes, StartHandshake(outcome) PROVE IInv'
  BY <1>1, SendKeeps DEF StartHandshake, Targets
<1>2. ASSUME NEW outcome \in Outcomes, Authenticate(outcome) PROVE IInv'
  BY <1>2, SendKeeps DEF Authenticate, Targets
<1>3. ASSUME NEW outcome \in Outcomes, Update(outcome) PROVE IInv'
  <2>1. CASE StartHandshake(outcome)
    BY <1>1, <2>1
  <2>2. ASSUME NEW from \in {"HANDSHAKE", "AUTH", "READY"}, NEW to \in {"HANDSHAKE", "AUTH", "READY"},
               session = from, <<from, to>> \in {<<"HANDSHAKE", "AUTH">>, <<"AUTH", "READY">>},
               TransitionTo(to), UNCHANGED <<session, nextSequence, wire>>
        PROVE  IInv'
    <3>1. to \in Targets /\ to # "HANDSHAKE" /\ (to = "AUTH" => session = "HANDSHAKE")
      BY <2>2 DEF Targets
    <3>2. to \in {"HANDSHAKE", "AUTH"} => "HANDSHAKE" \in wire'
      BY <2>2, <3>1 DEF IInv, SentInv, HandshakeSent
    <3> QED
      BY <2>2, <3>1, <3>2, TransitionKeeps
  <2> QED
    BY <1>3, <2>1, <2>2 DEF Update
<1>4. ASSUME NEW outcome \in Outcomes, Send(outcome) PROVE IInv'
  BY <1>4, IdleKeeps DEF Send, SendMessage
<1>5. CASE CompleteHandshake
  <2>1. "HANDSHAKE" \in wire'
    BY <1>5 DEF CompleteHandshake, IInv, SentInv, HandshakeSent
  <2> QED
    BY <1>5, <2>1, TransitionKeeps DEF CompleteHandshake, Targets
<1>6. CASE SetError
  BY <1>6, TransitionKeeps DEF SetError, Targets
<1>7. CASE FinishTransition
  <2>1. /\ CallsInv' /\ current' = IdOf(session')
        /\ session' = goals[Len(goals)] /\ Len(goals) \in DOMAIN goals
        /\ \A k \in DOMAIN goals' : k \in DOMAIN goals /\ goals'[k] = goals[k]
    BY <1>7, FinishCalls DEF IInv
  <2>2. wire' = wire
    BY <1>7 DEF FinishTransition
  <2>3. SentInv'
    BY <2>1, <2>2 DEF IInv, SentInv, HandshakeSent
  <2> QED
    BY <2>1, <2>3 DEF IInv, SessionTracksMachine
<1>8. CASE UseMachine
  <2>1. CallsInv' /\ UNCHANGED <<current, session, wire, goals>>
    BY <1>8, UseCalls DEF IInv, UseMachine
  <2> QED
    BY <2>1 DEF IInv, SessionTracksMachine, SentInv, HandshakeSent
<1>9. CASE UNCHANGED vars
  BY <1>9, IdleKeeps DEF vars
<1> QED
  BY <1>1, <1>2, <1>3, <1>4, <1>5, <1>6, <1>7, <1>8, <1>9 DEF Next

LEMMA Inductive == Spec => []IInv
  BY IInvInit, IInvStep, PTL DEF Spec

-----------------------------------------------------------------------------
(* A session's machine behaves as PolyCallStateMachine specifies, whatever *)
(* the session and its callbacks do (src/polycall_protocol.c uses it only  *)
(* through polycall_sm_execute_transition).                                *)
THEOREM ImplementsMachine == Spec => MachineSpec
<1>1. IInv /\ [Next]_vars => [SM!Next]_(SM!vars)
  BY MachineStep DEF IInv
<1> QED
  BY MachineInit, <1>1, Inductive, PTL DEF Spec, MachineSpec, SM!Spec

(* transition_protocol_state never leaves ctx->state and the machine's     *)
(* current_state apart, however its calls fail or nest.                    *)
THEOREM SessionFollowsMachine == Spec => []SessionTracksMachine
<1>1. IInv => SessionTracksMachine
  BY DEF IInv
<1> QED
  BY <1>1, Inductive, PTL

(* A session in HANDSHAKE or AUTH has sent a whole handshake message: a    *)
(* failed polycall_protocol_send never leads there, nested calls included. *)
THEOREM HandshakeIsSent == Spec => []HandshakeSent
<1>1. IInv => HandshakeSent
  BY DEF IInv, SentInv
<1> QED
  BY <1>1, Inductive, PTL

-----------------------------------------------------------------------------
(* The theorems about the machine, for the machine of a session.           *)
Proved == INSTANCE PolyCallStateMachine_proofs WITH
            Contents <- {"content"}, Checksum <- [x \in {"content"} \X (0 .. Len(States)) |-> 0],
            PassesCheck <- [c \in {"content"} |-> TRUE],
            TNames <- Targets, Holders <- {}, NoSnapshot <- <<>>,
            MaxStates <- Len(States), overwritten <- {}

LEMMA MachineConstants == Proved!ConstantsOK
<1>1. <<>> \notin Proved!Snapshots
  <2>1. \A r \in Proved!Snapshots : DOMAIN r = {"of", "state"}
    BY DEF Proved!Snapshots
  <2>2. DOMAIN <<>> # {"of", "state"}
    OBVIOUS
  <2> QED
    BY <2>1, <2>2
<1>2. Len(States) \in Nat
  BY StatesLen
<1> QED
  BY <1>1, <1>2, BoundsOK DEF Proved!ConstantsOK, Proved!Covered, Proved!IdArgs

LEMMA SameInit == SM!Init <=> Proved!Init
  BY DEF SM!Init, Proved!Init, SM!Ids, Proved!Ids

LEMMA SameStep == [SM!Next]_(SM!vars) <=> [Proved!Next]_(Proved!vars)
  BY DEF SM!Next, Proved!Next, SM!vars, Proved!vars, SM!Ids, Proved!Ids, SM!IdArgs,
     Proved!IdArgs, SM!AddState, Proved!AddState, SM!NewState, Proved!NewState, SM!Touched,
     Proved!Touched, SM!CanTouch, Proved!CanTouch, SM!AddTransition, Proved!AddTransition,
     SM!FailTransition, Proved!FailTransition, SM!First, Proved!First, SM!Locked, Proved!Locked,
     SM!BeginTransition, Proved!BeginTransition, SM!FinishTransition, Proved!FinishTransition,
     SM!VerifyStateIntegrity, Proved!VerifyStateIntegrity, SM!VerifyFails, Proved!VerifyFails,
     SM!Verifies, Proved!Verifies, SM!SumOf, Proved!SumOf,
     SM!LockState, Proved!LockState, SM!UnlockState, Proved!UnlockState, SM!SetLock,
     Proved!SetLock, SM!CreateSnapshot, Proved!CreateSnapshot, SM!RestoreFromSnapshot,
     Proved!RestoreFromSnapshot, SM!CopyBack, Proved!CopyBack, SM!Corrupt, Proved!Corrupt

LEMMA SameTypes == SM!TypeOK <=> Proved!TypeOK
  BY DEF SM!TypeOK, Proved!TypeOK, SM!Ids, Proved!Ids, SM!StateRecords, Proved!StateRecords,
     SM!Sums, Proved!Sums, SM!Transitions, Proved!Transitions, SM!Pendings, Proved!Pendings,
     SM!Snapshots, Proved!Snapshots, SM!Covered, Proved!Covered, SM!IdArgs, Proved!IdArgs

LEMMA MachineProved == Spec => Proved!Spec
  BY ImplementsMachine, SameInit, SameStep, PTL DEF MachineSpec, SM!Spec, Proved!Spec

-----------------------------------------------------------------------------
(* The session's own variables.                                            *)
Typed ==
  /\ session \in Targets \cup {"INIT"}
  /\ nextSequence \in 1 .. MaxSequence
  /\ wire \subseteq {"HANDSHAKE", "AUTH", "COMMAND"}

LEMMA TypedStep == CallsInv /\ Typed /\ [Next]_vars => Typed'
<1> SUFFICES ASSUME CallsInv, Typed, [Next]_vars PROVE Typed'
  OBVIOUS
<1>1. ASSUME NEW type \in {"HANDSHAKE", "AUTH", "COMMAND"}, NEW outcome \in Outcomes,
             SendMessage(type, outcome), session' = session
      PROVE  Typed'
  BY <1>1, BoundsOK DEF SendMessage, Typed
<1>2. ASSUME UNCHANGED <<session, nextSequence, wire>> PROVE Typed'
  BY <1>2 DEF Typed
<1>3. ASSUME NEW outcome \in Outcomes, StartHandshake(outcome) \/ Authenticate(outcome)
      PROVE  Typed'
  BY <1>1, <1>3 DEF StartHandshake, Authenticate, SendThenTransition
<1>4. ASSUME NEW outcome \in Outcomes, Update(outcome) PROVE Typed'
  BY <1>2, <1>3, <1>4 DEF Update
<1>5. ASSUME NEW outcome \in Outcomes, Send(outcome) PROVE Typed'
  BY <1>1, <1>5 DEF Send
<1>6. CASE CompleteHandshake \/ SetError \/ UseMachine \/ UNCHANGED vars
  BY <1>2, <1>6 DEF CompleteHandshake, SetError, UseMachine, vars
<1>7. CASE FinishTransition
  <2>1. session' = goals[Len(goals)] /\ Len(goals) \in DOMAIN goals
    BY <1>7, FinishCalls
  <2>2. goals \in Seq(Targets)
    BY DEF CallsInv
  <2>3. session' \in Targets
    BY <2>1, <2>2
  <2> QED
    BY <1>7, <2>3 DEF FinishTransition, Typed
<1> QED
  BY <1>3, <1>4, <1>5, <1>6, <1>7 DEF Next

(* Every variable of a session and of its machine keeps its type, and the  *)
(* two stacks of calls in progress their length.                           *)
THEOREM Typing == Spec => []TypeOK
<1>1. Init => Typed
  BY BoundsOK DEF Init, Typed
<1>2. CallsInv /\ Typed /\ [Next]_vars => Typed'
  BY TypedStep
<1>3. IInv => CallsInv
  BY DEF IInv
<1>4. Spec => []Typed
  BY <1>1, <1>2, <1>3, Inductive, PTL DEF Spec
<1>5. Spec => []Proved!TypeOK
  BY MachineProved, MachineConstants, Proved!TypeCorrect, PTL
<1>6. IInv /\ Typed /\ Proved!TypeOK => TypeOK
  BY SameTypes DEF IInv, CallsInv, Typed, TypeOK
<1> QED
  BY <1>4, <1>5, <1>6, Inductive, PTL

(* A state that was locked when its transition began is not entered by a   *)
(* session either (transition_protocol_state asks the machine).            *)
THEOREM SessionLocksHold == Spec => SessionRespectsLocks
<1> DEFINE
    Entry ==
      session' # session /\ states[IdOf(session')].locked =>
        states[IdOf(session')].version > pending[Len(pending)].seen
    LockSeen ==
      Proved!FinishTransition =>
        LET p  == pending[Len(pending)]
            to == transitions[p.index].to
        IN  states[to].locked => states[to].version > p.seen
<1>1. ASSUME IInv, [Next]_vars, session' # session
      PROVE  FinishTransition
  BY <1>1 DEF Next, StartHandshake, Authenticate, SendThenTransition, Update, Send,
     CompleteHandshake, SetError, UseMachine, vars
<1>2. ASSUME IInv, FinishTransition
      PROVE  /\ Proved!FinishTransition /\ Proved!vars' # Proved!vars
             /\ transitions[pending[Len(pending)].index].to = IdOf(session')
  <2>1. current' = IdOf(session')
    BY <1>2, FinishCalls DEF IInv
  <2>2. current' = transitions[pending[Len(pending)].index].to
    BY <1>2 DEF FinishTransition, SM!FinishTransition
  <2>3. goals' # goals
    <3>1. Len(goals) \in DOMAIN goals /\ goals \in Seq(Targets)
      BY <1>2, FinishCalls DEF IInv, CallsInv
    <3>2. goals' = SubSeq(goals, 1, Len(goals) - 1)
      BY <1>2 DEF FinishTransition
    <3> QED
      BY <3>1, <3>2
  <2>4. Len(pending') # Len(pending)
    BY <1>2, FinishCalls, <2>3 DEF IInv, CallsInv
  <2>5. Proved!FinishTransition
    BY <1>2 DEF FinishTransition, SM!FinishTransition, Proved!FinishTransition, SM!CanTouch,
       Proved!CanTouch, SM!Touched, Proved!Touched
  <2> QED
    BY <2>1, <2>2, <2>4, <2>5 DEF Proved!vars
<1>3. IInv /\ [Next]_vars /\ [LockSeen]_(Proved!vars) => [Entry]_vars
  BY <1>1, <1>2
<1>4. Spec => [][LockSeen]_(Proved!vars)
  BY MachineProved, MachineConstants, Proved!NoEntryPastLockCorrect, PTL
     DEF Proved!NoEntryPastLock
<1> QED
  BY <1>3, <1>4, Inductive, PTL DEF Spec, SessionRespectsLocks
=============================================================================
