----------------------------- MODULE MCRuntime -----------------------------
(* Two slots, two ports and three programs: a slot is used again, a start  *)
(* finds no port, and one start goes past the table.                       *)
EXTENDS Runtime

MCLines == {[host |-> 3000, container |-> 8080], [host |-> 8080, container |-> 8081],
            [host |-> 65536 + 3001, container |-> 3001]}

MCDirectories ==
  [d \in {"own", "plain", "other"} |->
     CASE d = "own" -> [host |-> 3001, container |-> Default]
       [] d = "plain" -> [host |-> Default, container |-> Default]
       [] d = "other" -> [host |-> 8081, container |-> 8082]]
=============================================================================
