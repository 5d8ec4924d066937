------------------------------ MODULE Runtime ------------------------------
(***************************************************************************)
(* The PPI runtime of main.c: the network programs it starts, the table it *)
(* keeps them in, and what becomes of them when commands, service files    *)
(* and signals end them.                                                   *)
(*                                                                         *)
(* Everything runs on one thread, in one of these modes: "interactive"     *)
(* (the command line), "config" (main -f reading its file) and then "loop" *)
(* (its event loop), "file" and "discover" (polycall_init_with_directory)  *)
(* and then "returned".  pc is "idle" between two commands, lines, entries *)
(* or passes.  Starting a program and passing over the table are cut where *)
(* another process may take or leave a port or a signal may strike.  A     *)
(* handler never returns to what it interrupts (it exits), so the thread   *)
(* needs no stack: a signal sends it to cleanup_runtime.  SIGINT and       *)
(* SIGTERM are each masked during their own handler only.                  *)
(*                                                                         *)
(* Programs are numbered as they are allocated.  What net_run does to its  *)
(* clients is NetworkProgram's; here it holds clients_lock for a while and *)
(* gives it back, or waits for it itself once a client hangs up.           *)
(***************************************************************************)
EXTENDS Integers, Sequences, FiniteSets

CONSTANTS
  MaxPrograms,      \* MAX_PROGRAMS
  MaxPorts,         \* MAX_PORTS
  PortLow,          \* the ports net_init_program tries, 8080 ...
  PortHigh,         \* ... to 8180
  HostBase,         \* DEFAULT_PORT_BASE
  ContainerBase,    \* 8080 in discover_and_init_services
  Default,          \* a port that a service's file does not give
  Lines,            \* host and container ports the lines of a file give
  Directories,      \* directories with a .polycallrc, mapped to its ports
  MaxStarted,       \* bound: programs started in one life of the process
  MaxForeign        \* bound: ports other processes have at a time

ASSUME ConstantsOK ==
  /\ MaxPrograms \in Nat \ {0} /\ MaxPorts \in Nat /\ MaxStarted \in Nat /\ MaxForeign \in Nat
  /\ PortLow \in Nat \ {0} /\ PortHigh \in Nat /\ PortLow <= PortHigh
  /\ HostBase \in Nat /\ ContainerBase \in Nat /\ Default \notin Nat
  /\ Lines \subseteq [host : Nat, container : Nat]
  /\ \A d \in DOMAIN Directories :
       Directories[d] \in [host : Nat \cup {Default}, container : Nat \cup {Default}]

VARIABLES
  mode, pc,
  table,       \* g_runtime.programs, 0 for NULL
  count,       \* g_runtime.program_count
  started,     \* number of programs allocated so far; the last may be under way
  memory,      \* what has become of each of them
  bound,       \* the port its socket is bound to, 0 for none
  label,       \* endpoints[0].port
  held,        \* programs whose clients_lock the thread holds
  mappings,    \* g_runtime.port_mappings
  found,       \* services_found
  unread,      \* directories discover_and_init_services has yet to come to
  portNumber,  \* port_number of main -f
  machine,     \* g_runtime.state_machine: "null", "live" or "freed"
  context,     \* g_runtime.pc_ctx, likewise
  slot,        \* the index of a pass over the table
  errand,      \* what the pass is for: "use", "stop" or "exit"
  handling,    \* signals whose handler has been entered
  struck,      \* history: where the thread was when a signal struck
  foreign      \* ports other processes are bound to

entries == <<table, count>>
programs == <<started, memory, bound, label>>
directory == <<mappings, found, unread>>
pointers == <<machine, context>>
pass == <<slot, errand>>
signals == <<handling, struck>>
vars == <<mode, pc, entries, programs, held, directory, portNumber, pointers, pass, signals, foreign>>

Programs == 1 .. MaxStarted
Slots == 0 .. MaxPrograms - 1
Ports == PortLow .. PortHigh
Signals == {"SIGINT", "SIGTERM"}
(* Mutant: the port is read into a wider integer.                          *)
Wide(n) == n

Word16(n) == n % 65536

InUse(port) == port \in foreign \/ \E p \in Programs : bound[p] = port

-----------------------------------------------------------------------------
(* initialize_runtime, or the call of polycall_init_with_directory.        *)
Init ==
  /\ mode \in {"interactive", "config", "file"} /\ pc = "idle"
  /\ table = [i \in Slots |-> 0] /\ count = 0
  /\ started = 0 /\ memory = [p \in Programs |-> "none"]
  /\ bound = [p \in Programs |-> 0] /\ label = [p \in Programs |-> 0] /\ held = {}
  /\ mappings = <<>> /\ found = 0 /\ unread = DOMAIN Directories
  /\ portNumber = 8080
  /\ machine = "null" /\ context = IF mode = "file" THEN "null" ELSE "live"
  /\ slot = 0 /\ errand = "use"
  /\ handling = {} /\ struck = {}
  /\ foreign \in {ports \in SUBSET Ports : Cardinality(ports) <= MaxForeign}

-----------------------------------------------------------------------------
(* Starting a program: calloc, net_init_program, the entry into the table. *)
Allocate ==
  /\ started < MaxStarted
  /\ started' = started + 1
  /\ memory' = [memory EXCEPT ![started + 1] = "new"]
  /\ label' = [label EXCEPT ![started + 1] = PortLow]
  /\ pc' = "find"
  /\ UNCHANGED bound

(* find_available_port: one port after the other, taken and left meanwhile.*)
FindPort ==
  /\ pc = "find" /\ label[started] <= PortHigh
  /\ IF InUse(label[started])
       THEN label' = [label EXCEPT ![started] = @ + 1] /\ UNCHANGED pc
       ELSE pc' = "probe" /\ UNCHANGED label
  /\ UNCHANGED <<entries, started, memory, bound, directory>>

(* net_init looks again, and tries to release a port taken since.          *)
ProbePort ==
  /\ \/ pc = "probe" /\ pc' = IF InUse(label[started]) THEN "release" ELSE "bind"
     \/ pc = "release" /\ ~InUse(label[started]) /\ pc' = "bind"
  /\ UNCHANGED <<entries, programs, directory>>

BindPort ==
  /\ pc = "bind" /\ ~InUse(label[started])
  /\ bound' = [bound EXCEPT ![started] = label[started]]
  /\ memory' = [memory EXCEPT ![started] = "live"]
  /\ pc' = "enter"
  /\ UNCHANGED <<entries, started, label, directory>>

Directed == mode \in {"file", "discover"}

(* No port of the range is free, or the one found no longer is, or another *)
(* call fails: the program is freed and its mapping, if any, uncounted.    *)
StartFails ==
  /\ pc \in {"find", "release", "bind"}
  /\ memory' = [memory EXCEPT ![started] = "freed"]
  /\ mappings' = IF Directed THEN SubSeq(mappings, 1, Len(mappings) - 1) ELSE mappings
  /\ label' = [label EXCEPT ![started] = 0]
  /\ pc' = "idle"
  /\ UNCHANGED <<entries, started, bound, found, unread>>

(* The port a mapping or the file asks for is written into the endpoint,   *)
(* whose socket is bound already.                                          *)
Labelled ==
  [label EXCEPT ![started] =
     IF Directed THEN mappings[Len(mappings)].container
     ELSE IF mode = "config" THEN portNumber ELSE @]

(* programs[program_count++] = program: the store and the increment come   *)
(* in either order.  There is no test of MAX_PROGRAMS, and the store past  *)
(* the end lands on program_count itself.                                  *)
Register ==
  /\ pc = "enter"
  /\ label' = Labelled
  /\ \/ count < MaxPrograms /\ pc' = "stored"
        /\ table' = [table EXCEPT ![count] = started] /\ UNCHANGED count
     \/ count < MaxPrograms /\ pc' = "counted"
        /\ count' = count + 1 /\ UNCHANGED table
     \/ count = MaxPrograms /\ pc' = "overrun" /\ UNCHANGED entries
  /\ UNCHANGED <<started, memory, bound, directory>>

Registered ==
  /\ \/ pc = "stored" /\ count' = count + 1 /\ UNCHANGED table
     \/ pc = "counted" /\ table' = [table EXCEPT ![count - 1] = started] /\ UNCHANGED count
  /\ found' = IF mode = "discover" THEN found + 1 ELSE found
  /\ pc' = "idle"
  /\ UNCHANGED <<programs, mappings, unread>>

Start ==
  /\ FindPort \/ ProbePort \/ BindPort \/ StartFails \/ Register \/ Registered
  /\ UNCHANGED <<mode, held, portNumber, pointers, pass, signals, foreign>>

-----------------------------------------------------------------------------
(* Passing over the table: for list_clients or the event loop ("use"), for *)
(* stop_network ("stop") or for cleanup_runtime ("exit").                  *)

(* Mutant: a slot that is NULL ends the pass.                              *)
NextSlotStops ==
  /\ pc = "next" /\ slot < count
  /\ IF table[slot] = 0 THEN slot' = count /\ UNCHANGED pc
                        ELSE pc' = "lock" /\ UNCHANGED slot
  /\ UNCHANGED <<entries, programs, held, pointers, errand>>

(* Mutant: a slot that is NULL is looked at for ever.                      *)
NextSlotStays ==
  /\ pc = "next" /\ slot < count
  /\ IF table[slot] = 0 THEN UNCHANGED <<slot, pc>>
                        ELSE pc' = "lock" /\ UNCHANGED slot
  /\ UNCHANGED <<entries, programs, held, pointers, errand>>

NextSlot ==
  /\ pc = "next" /\ slot < count
  /\ IF table[slot] = 0 THEN slot' = slot + 1 /\ UNCHANGED pc
                        ELSE pc' = "lock" /\ UNCHANGED slot
  /\ UNCHANGED <<entries, programs, held, pointers, errand>>

(* The thread waits for itself if it holds the lock; of a program cleaned  *)
(* up before nothing is defined any more.  The event loop writes its port  *)
(* into the endpoint first.                                                *)
LockClients ==
  /\ pc = "lock"
  /\ LET p == table[slot]
     IN  /\ pc' = IF memory[p] # "live" THEN "undefined"
                  ELSE IF p \in held THEN "blocked"
                  ELSE IF errand = "use" THEN "using" ELSE "close"
         /\ held' = held \cup {p}
         /\ label' = IF errand = "use" /\ mode = "loop"
                       THEN [label EXCEPT ![p] = portNumber] ELSE label
  /\ UNCHANGED <<entries, started, memory, bound, pointers, pass>>

(* Mutant: list_clients leaves the program with its lock.                  *)
ReleaseClientsNot ==
  /\ pc = "using"
  /\ slot' = slot + 1 /\ pc' = "next"
  /\ UNCHANGED <<entries, programs, held, pointers, errand>>

ReleaseClients ==
  /\ pc = "using"
  /\ held' = held \ {table[slot]}
  /\ slot' = slot + 1 /\ pc' = "next"
  /\ UNCHANGED <<entries, programs, pointers, errand>>

(* net_run: a client has hung up, and net_remove_client locks clients_lock *)
(* again (NetworkProgram's OnDisconnect).  list_clients reads only.        *)
OnDisconnect ==
  /\ pc = "using" /\ mode = "loop"
  /\ pc' = "blocked"
  /\ UNCHANGED <<entries, programs, held, pointers, pass>>

CloseSockets ==
  /\ pc = "close"
  /\ bound' = [bound EXCEPT ![table[slot]] = 0]
  /\ pc' = "unlock"
  /\ UNCHANGED <<entries, started, memory, label, held, pointers, pass>>

UnlockClients ==
  /\ pc = "unlock"
  /\ held' = held \ {table[slot]}
  /\ memory' = [memory EXCEPT ![table[slot]] = "closed"]
  /\ pc' = "free"
  /\ UNCHANGED <<entries, started, bound, label, pointers, pass>>

FreeProgram ==
  /\ pc = "free"
  /\ memory' = [memory EXCEPT ![table[slot]] = "freed"]
  /\ label' = [label EXCEPT ![table[slot]] = 0]
  /\ pc' = "forget"
  /\ UNCHANGED <<entries, started, bound, held, pointers, pass>>

(* Mutant: programs[i] keeps its pointer.                                  *)
ForgetNothing ==
  /\ pc = "forget"
  /\ slot' = slot + 1 /\ pc' = "next"
  /\ UNCHANGED <<entries, programs, held, pointers, errand>>

ForgetProgram ==
  /\ pc = "forget"
  /\ table' = [table EXCEPT ![slot] = 0]
  /\ slot' = slot + 1 /\ pc' = "next"
  /\ UNCHANGED <<count, programs, held, pointers, errand>>

PassEnds ==
  /\ pc = "next" /\ slot >= count
  /\ \/ errand = "use" /\ pc' = "idle" /\ UNCHANGED count
     \/ errand = "stop" /\ pc' = "idle" /\ count' = 0
     \/ errand = "exit" /\ pc' = "machine" /\ UNCHANGED count
  /\ UNCHANGED <<table, programs, held, pointers, pass>>

(* The state machine and then the context: freed, then NULL.               *)
FreeMachine ==
  /\ \/ pc = "machine" /\ machine = "null" /\ pc' = "context" /\ UNCHANGED machine
     \/ pc = "machine" /\ machine = "live" /\ pc' = "null machine" /\ machine' = "freed"
     \/ pc = "machine" /\ machine = "freed" /\ pc' = "undefined" /\ UNCHANGED machine
     \/ pc = "null machine" /\ pc' = "context" /\ machine' = "null"
  /\ UNCHANGED <<entries, programs, held, context, pass>>

FreeContext ==
  /\ \/ pc = "context" /\ context = "null" /\ pc' = "exited" /\ UNCHANGED context
     \/ pc = "context" /\ context = "live" /\ pc' = "null context" /\ context' = "freed"
     \/ pc = "context" /\ context = "freed" /\ pc' = "undefined" /\ UNCHANGED context
     \/ pc = "null context" /\ pc' = "exited" /\ context' = "null"
  /\ UNCHANGED <<entries, programs, held, machine, pass>>

Sweep ==
  /\ \/ NextSlot \/ LockClients \/ ReleaseClients \/ OnDisconnect \/ CloseSockets
     \/ UnlockClients \/ FreeProgram \/ ForgetProgram \/ PassEnds \/ FreeMachine \/ FreeContext
  /\ UNCHANGED <<mode, directory, portNumber, signals, foreign>>

-----------------------------------------------------------------------------
(* What the thread is given to do: commands, lines, passes and entries.    *)
BeginPass(e) == pc' = "next" /\ slot' = 0 /\ errand' = e

StartNetwork ==
  /\ mode \in {"interactive", "config"}
  /\ Allocate
  /\ UNCHANGED <<mode, directory, portNumber, machine, pass>>

StopNetwork ==
  /\ mode = "interactive" /\ BeginPass("stop")
  /\ UNCHANGED <<mode, programs, directory, portNumber, machine>>

(* list_clients and show_status, or a pass of the event loop.              *)
UseClients ==
  /\ mode \in {"interactive", "loop"} /\ BeginPass("use")
  /\ UNCHANGED <<mode, programs, directory, portNumber, machine>>

CmdInit ==
  /\ mode = "interactive" /\ machine = "null"
  /\ machine' = "live"
  /\ UNCHANGED <<mode, pc, programs, directory, portNumber, pass>>

(* quit or the end of the input; a configuration file that is not there.   *)
Leave ==
  /\ mode = "interactive" \/ (mode = "config" /\ started = 0 /\ portNumber = 8080)
  /\ BeginPass("exit")
  /\ UNCHANGED <<mode, programs, directory, portNumber, machine>>

(* A line of blanks: strtok returns NULL and strcmp reads it.              *)
BlankLine ==
  /\ mode = "interactive"
  /\ pc' = "crashed"
  /\ UNCHANGED <<mode, programs, directory, portNumber, machine, pass>>

PortLine(line) ==
  /\ mode = "config"
  /\ portNumber' = Word16(line.container)
  /\ UNCHANGED <<mode, pc, programs, directory, machine, pass>>

EndOfInput ==
  /\ \/ mode = "config" /\ mode' = "loop"
     \/ mode = "file" /\ mode' = "discover"
     \/ mode = "discover" /\ unread = {} /\ mode' = "returned"
  /\ UNCHANGED <<pc, programs, directory, portNumber, machine, pass>>

Unmapped(port) ==
  \A k \in DOMAIN mappings : mappings[k].host # port /\ mappings[k].container # port

(* Mutant: only the host port is looked up.                                *)
MappableHostOnly(host, container) ==
  host > 0 /\ container > 0 /\ Len(mappings) < MaxPorts /\ Unmapped(host)

Mappable(host, container) ==
  host > 0 /\ container > 0 /\ Len(mappings) < MaxPorts /\ Unmapped(host) /\ Unmapped(container)

(* add_port_mapping, up to net_init_program.                               *)
AddPortMapping(host, container) ==
  /\ Mappable(host, container)
  /\ mappings' = Append(mappings, [host |-> host, container |-> container])
  /\ Allocate

(* A line "server NAME HOST:CONTAINER"; one that is refused does nothing.  *)
ServerLine(line) ==
  /\ mode = "file"
  /\ AddPortMapping(Word16(line.host), Word16(line.container))
  /\ UNCHANGED <<mode, found, unread, portNumber, machine, pass>>

(* The next directory: the ports it gives, else defaults that count the    *)
(* services found so far, not the attempts.                                *)
DiscoverService(d) ==
  /\ mode = "discover" /\ d \in unread
  /\ unread' = unread \ {d}
  /\ LET Given(n, default) == Word16(IF n = Default THEN default ELSE n)
         host == Given(Directories[d].host, HostBase + found)
         container == Given(Directories[d].container, ContainerBase + found)
     IN  \/ AddPortMapping(host, container)
         \/ ~Mappable(host, container) /\ UNCHANGED <<mappings, programs, pc>>
  /\ UNCHANGED <<mode, found, portNumber, machine, pass>>

Task ==
  /\ pc = "idle"
  /\ \/ StartNetwork \/ StopNetwork \/ UseClients \/ CmdInit \/ Leave \/ BlankLine
     \/ EndOfInput
     \/ \E line \in Lines : PortLine(line) \/ ServerLine(line)
     \/ \E d \in DOMAIN Directories : DiscoverService(d)
  /\ UNCHANGED <<entries, held, context, signals, foreign>>

-----------------------------------------------------------------------------
(* Handlers are registered by main only.  A thread that waits for its own  *)
(* mutex is interrupted like any other.                                    *)
Signal(s) ==
  /\ mode \in {"interactive", "config", "loop"}
  /\ s \notin handling /\ pc \notin {"undefined", "overrun", "crashed", "exited"}
  /\ handling' = handling \cup {s} /\ struck' = struck \cup {pc}
  /\ BeginPass("exit")
  /\ UNCHANGED <<mode, entries, programs, held, directory, portNumber, pointers, foreign>>

(* Another process takes a port, or leaves one.                            *)
OtherProcess(port) ==
  /\ \/ port \in foreign /\ foreign' = foreign \ {port}
     \/ ~InUse(port) /\ Cardinality(foreign) < MaxForeign /\ foreign' = foreign \cup {port}
  /\ UNCHANGED <<mode, pc, entries, programs, held, directory, portNumber, pointers, pass, signals>>

Next ==
  \/ Start \/ Sweep \/ Task
  \/ \E s \in Signals : Signal(s)
  \/ \E port \in Ports : OtherProcess(port)

(* The thread goes on with a pass it has begun.                            *)
Spec == Init /\ [][Next]_vars /\ WF_vars(Sweep)
-----------------------------------------------------------------------------
(* Properties.                                                             *)

StartPcs == {"find", "probe", "release", "bind", "enter", "stored", "counted"}
PassPcs == {"next", "lock", "using", "close", "unlock", "free", "forget", "machine",
            "null machine", "context", "null context"}
Ends == {"exited", "blocked", "undefined", "overrun", "crashed"}
Mappings == LET Ports16 == {n \in Nat : 0 < n /\ n < 65536} IN [host : Ports16, container : Ports16]

(* Every variable holds what its C counterpart can hold.                   *)
TypeOK ==
  /\ mode \in {"interactive", "config", "loop", "file", "discover", "returned"}
  /\ pc \in {"idle"} \cup StartPcs \cup PassPcs \cup Ends
  /\ table \in [Slots -> 0 .. MaxStarted] /\ count \in 0 .. MaxPrograms
  /\ started \in 0 .. MaxStarted
  /\ memory \in [Programs -> {"none", "new", "live", "closed", "freed"}]
  /\ bound \in [Programs -> {0} \cup Ports] /\ label \in [Programs -> Nat]
  /\ held \subseteq Programs
  /\ mappings \in Seq(Mappings) /\ Len(mappings) <= MaxPorts
  /\ found \in Nat /\ unread \subseteq DOMAIN Directories
  /\ portNumber \in Nat
  /\ machine \in {"null", "live", "freed"} /\ context \in {"null", "live", "freed"}
  /\ slot \in 0 .. MaxPrograms /\ errand \in {"use", "stop", "exit"}
  /\ handling \subseteq Signals /\ struck \subseteq {"idle", "blocked"} \cup StartPcs \cup PassPcs
  /\ foreign \subseteq Ports

(* The table holds no program twice, none past its count and none that has *)
(* been cleaned up, whatever was started, stopped and started again; only  *)
(* a strike between the two halves of programs[program_count++] = program, *)
(* or between net_cleanup_program and the NULL, may leave one behind.      *)
EntriesLive ==
  \A i \in Slots : table[i] # 0 =>
    /\ \A j \in Slots : table[j] = table[i] => j = i
    /\ i < count \/ pc = "stored" \/ "stored" \in struck
    /\ \/ memory[table[i]] = "live"
       \/ i = slot /\ pc \in {"free", "forget"}
       \/ struck \cap {"free", "forget"} # {}

(* Cleaning up the same program, state machine or context twice comes only *)
(* of a signal that struck at one of these places; a thread that waits for *)
(* a lock it holds, only of such a signal or, in the event loop, of a      *)
(* client that hung up (and of signals that struck while it waited).  No   *)
(* order of commands leads to either.                                      *)
FaultsExplained ==
  /\ pc = "undefined" => struck \cap {"free", "forget", "null machine", "null context"} # {}
  /\ pc = "blocked" =>
       \/ struck \cap {"using", "close", "unlock"} # {}
       \/ mode = "loop" /\ (errand = "use" \/ "blocked" \in struck)

(* The process that ends by quit, by a signal or by a second signal in the *)
(* handler of the first has given back the port and the memory of every    *)
(* program, except one a signal struck before it was in the table.         *)
ExitReleasesAll ==
  pc = "exited" =>
    \A p \in 1 .. started :
      \/ memory[p] = "freed" /\ bound[p] = 0
      \/ p = started /\ struck \cap StartPcs # {}

(* polycall_init_with_directory: the k-th mapping is the k-th program's,   *)
(* through every refusal and failure, and no two mappings share a port.    *)
MappingsSound ==
  Directed /\ pc = "idle" =>
    /\ Len(mappings) = count
    /\ \A k \in DOMAIN mappings :
         /\ table[k - 1] # 0 /\ label[table[k - 1]] = mappings[k].container
         /\ \A j \in DOMAIN mappings \ {k} :
              {mappings[j].host, mappings[j].container}
                \cap {mappings[k].host, mappings[k].container} = {}

(* A cleanup that has begun, after quit or a signal, comes to an end:      *)
(* cleanup_runtime passes over slots that are NULL already.                *)
LeavingEnds == errand = "exit" ~> pc \in {"exited", "blocked", "undefined"}

(* docs/TRIAL.md: a client connects to the container port.  So the program *)
(* of a mapping listens there.                                             *)
BoundWhereSaid ==
  Directed /\ pc = "idle" => \A i \in Slots : table[i] # 0 => bound[table[i]] = label[table[i]]
=============================================================================
