---------------------- MODULE MCPolyCallStateMachine ----------------------
(* PolyCallStateMachine on a small instance: two states, two transitions   *)
(* of which the second may repeat the first one's name, one snapshot.      *)
EXTENDS PolyCallStateMachine

MCContents == {"intact", "damaged"}
MCChecksum == [x \in Covered |-> x]
MCPassesCheck == [x \in MCContents |-> TRUE]

(* The first transition is the unguarded `go' from state 0 to state 1; the *)
(* second leads back and bears the same name, which hides it, or is called *)
(* `back' and leads from state 0 to itself, guarded or not.  States start  *)
(* intact; stray writes change the contents of state 0 or make its id that *)
(* of state 1; three changes of versions and one diagnostic count in all.  *)
SmallInstance ==
  /\ \A k \in DOMAIN transitions :
       LET t == transitions[k]
       IN  /\ k = 1 => t.name = "go" /\ t.from = 0 /\ t.to = 1
           /\ k = 2 => t.to = 0 /\ (t.from = 0 <=> t.name = "back")
           /\ t.guarded => t.name = "back"
  /\ \A i \in Ids :
       /\ original[i] = "intact" /\ states[i].id # MaxStates
       /\ states[i].content # "intact" => i = 0 /\ states[i].id = i
       /\ states[i].id # i => i = 0
  /\ numStates = 2 => states[0].version + states[1].version <= 7
  /\ failed + violations <= 1
=============================================================================
