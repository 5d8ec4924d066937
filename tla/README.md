# A verification of libpolycall

TLA+ modules for the program in this repository, TLC configurations that check
them on small instances, and proofs for TLAPS.  Paths below are relative to
`libpolycall-v1trail/` unless they start with `bindings/` or `docs/`.

## The system

libpolycall is a C library with a command line program.  It offers a state
machine with integrity checks, a protocol session that drives one, TCP servers,
"micro services" with command queues, and a tokenizer and parser.  Bindings in
other languages speak to its servers.  `PROJECT.json` lists every component;
this is what each keeps and does.

| Component | State | Operations | Uses | Hard behaviour | Correct when |
|---|---|---|---|---|---|
| State machine, `src/polycall_state_machine.c` | table of states (checksum, version, lock), table of transitions, current state, diagnostics | create, add_state, add_transition, execute_transition, verify, lock, unlock, snapshot, restore | the application's callbacks | callbacks call back into the machine in the middle of a transition; snapshots outlive what they were taken of | ids stay in range; verification is exact; a stale snapshot is never restored; locks hold |
| Protocol session, `src/polycall_protocol.c` | session state, next sequence number, a state machine | send, process, update, start and complete handshake, authenticate, set_error | state machine, network endpoint | two records of one state; a message sent and the transition after it refused; nested calls | session and machine never part; a handshake that is claimed was sent |
| Network program, `src/network.c` | client table, its mutex, the listening endpoint | net_run, add and remove client, cleanup, send, receive | sockets, the application's handlers | clients at any moment; a signal handler on the same thread; a mutex taken twice | no connection leaks; callbacks in order; everyone is served |
| Micro services, `src/polycall_micro.c` | 32 slots, active mask, count, a command queue per slot | create, destroy, batch, filter, process, update state, collect garbage, transform | protocol session (init only), wall clock | slots walked while services are destroyed by id; ids given twice; a clock set back | mask and count agree; queues keep order; a collection takes what is due |
| Runtime and CLI, `main.c` | programs, port mappings, service directories, state machine, context, history | commands, config files, discovery, event loop, signal handler | network programs, state machine | cleanup in a signal handler, twice; partly failed mappings; ports other processes take | one program per mapping; everything freed once; exits give everything back |
| Tokenizer, `src/polycall_tokenizer.c` | input buffer, position, token array | set_input, process, reset, matchers, ops | - | scanning past the input; a full token array; an input scanned in several calls | tokens cover the input in order |
| Parser, `src/polycall_parser.c` | token index, node pool, AST | parse_string, parse_file, AST operations | tokenizer | loops that make no progress; nodes that run out; a pool freed under the AST | the AST is a tree; parsing ends on what is grammatical and on nothing else |
| Node endpoint, `bindings/node-polycall/src/modules` (`NetworkEndpoint.js`, `ProtocolHandler.js`) | socket, retry count and timers, data that waits; sequence number, entries of messages, their timers | connect, send, disconnect, retry; sendMessage, answers, timeout, reset | TCP | sockets that were replaced but live on; timers against answers and resets | written once and in order; every promise settled |
| Node binding, the other modules there | client, router, states | request, transition, snapshot | endpoint | locks checked before an await | a transition's checks hold when it takes effect |
| Lua, Go, Java, Python bindings | connection and authentication state | connect, authenticate, execute, disconnect | TCP | calls out of order; mutexes | no operation without authentication |

How they interact: `main.c` owns network programs and calls `net_run` in a loop;
network programs call handlers; `polycall_micro_init` creates a protocol session;
a session owns a state machine, whose callbacks belong to the application; a parser
owns a tokenizer.  All of the C code runs on one thread, apart from the signal
handler that interrupts it, and so does each Node process.

## Modules

| Module | Stands on | Proofs |
|---|---|---|
| `PolyCallStateMachine` | | `PolyCallStateMachine_proofs` |
| `ProtocolSession` | instance of `PolyCallStateMachine`, which it implements | `ProtocolSession_proofs` |
| `ConnectionService` | | |
| `NetworkProgram` | implements `ConnectionService` | `NetworkProgram_proofs` |
| `MicroServices` | | `MicroServices_proofs` (on `Induction`) |
| `Runtime` | (what `net_run` does is `NetworkProgram`'s) | `Runtime_proofs` |
| `Tokenizer`, `Parser` | `Parser` extends `Tokenizer` | `Parser_proofs` (on `Induction`) |
| `ProtocolHandler`, `NetworkEndpoint` | `NetworkEndpoint` extends `ProtocolHandler` | `NetworkEndpoint_proofs` |

`PolyCallStateMachine` is the state machine.  `states`, `transitions` and
`current` are the fields of `PolyCall_StateMachine`.  Every public function that
changes something is one action, except `polycall_sm_execute_transition`: it runs
three callbacks that may call the machine again, so it is `BeginTransition` (its
checks) and `FinishTransition` (its effect), with `pending` the stack of calls whose
callbacks run.  Between the two, every other action may happen.  Contents of a
state are abstract values, its `id` is a field of it as in the code, and `Checksum` is a
function of both; the functions never change them, and `Corrupt` is the stray write,
to either, that the checksums exist to detect.  A snapshot is a copy of the whole state,
and a restore writes over the state that the copy's `id` names, which need not be the
one the copy was taken of.  `original` and `overwritten` (the states that were restored
from another one's snapshot) are history variables.  Guards are a BOOLEAN because only the
application knows what they say: a guarded transition may go either way.

`ProtocolSession` is a protocol session over an INSTANCE of `PolyCallStateMachine`.
It changes its machine's variables by the machine's actions only.
`transition_protocol_state` is `TransitionTo` before the machine's callbacks and
`FinishTransition` after them, with `goals` beside the machine's `pending`; thus a
callback that calls `polycall_protocol_set_error` in the middle of a handshake is
a behaviour of the model.  `wire` keeps the types of the messages that went out
whole: `net_send` may also send a part or fail.  The application registers the
protocol's states in the order of `polycall_protocol_state_t`, which is what a
session needs to work at all, since `polycall_protocol_init` leaves its machine
empty; transitions may be missing.

`NetworkProgram` is a network program in the hands of `main.c`'s loop.  `net_run`
is cut at every call that locks, blocks, closes or runs a handler; taking a client in is
`Accept`, `SetNonblockingFails` or `LockToAdd`, and `AddClient` or `RefuseClient` with
`CloseRefused`.  `holding` says whether
the thread has `clients_lock`.  `Signal` may strike between any two steps; its
handler runs on the same thread and so waits for itself where the mutex is held.  Where it
is not, `Cleanup` closes what is in the slots and what waits; a connection that was accepted
and is in no slot yet stays open until `Exit`, the end of the process.
Clients (`Connect`, `Send`, `HangUp`) are the environment.  `recv` takes any
positive part of what is there.

`ConnectionService` is what a network program promises, with no trace of how it does it:
connections are answered in the order they were made, at most `NET_MAX_CLIENTS` are
served at a time, `on_connect` comes once for each of them, before the next one is
taken in and before any of its data, and nothing is received twice or from a connection
that is not served.  `NetworkProgram` maps its variables to it (`Service`): `read` is
what was received, `Up` (the cleanup is not done) is `up`, and a connection between
`accept` and its slot is, from outside, still the first in the queue, or closed once the
cleanup has passed it by: nobody will answer it.

`Runtime` is the PPI runtime of `main.c`.  `mode` is the way the program was
started and how far it has come: the interactive command line, a configuration
file and then the event loop, or `polycall_init_with_directory` with its file and
its directories.  `pc` is "idle" between two commands, lines, passes or entries.
Starting a program (look for a port, probe it, bind it, enter it into the table)
and passing over the table (for a listing, a stop or the cleanup) are cut wherever
another process may take or leave a port or a signal may strike, also between the
two halves of `programs[program_count++] = program`.  A signal handler calls
`cleanup_runtime` and exits, so it never returns to what it interrupted and the
thread needs no stack: a signal sends the thread to the start of the cleanup, and
the other signal does so again from within the handler.  A pass of the event loop may wait
for its own lock without any signal: a client hung up (`OnDisconnect`, what
`NetworkProgram` has in detail).  `struck` is the history
of the places where signals struck; the properties say which of them matter.  Using a freed
object, writing past the table and reading NULL are ends of the model.  `foreign` are the
ports of other processes.

`Tokenizer` and `Parser` share one set of variables, because a parser parses what
its tokenizer has.  An input is the sequence of its pieces and its length in
bytes: which characters make a lexeme is the matchers' business, and what the
token array, the buffer and the position do is not.  A set of operations is the
set of types it produces.  `polycall_parser_parse_string` composes an empty set of
operations, so it fails on every input that has a lexeme in it, and on one shorter
than the buffer, whose NUL it does not skip.  What gets through is an input of
blanks exactly as long as the buffer.  The tokens it then parses are those that
the application scanned on the same tokenizer before and has not reset; the
application's own calls (`UseTokenizer`) are therefore part of the model.  The
descent (`parse_function`, `parse_block`, `parse_statement`, `parse_expression`) is a
fixed nest of loops, with `pc` its place and `fun`, `block` and `stmt` the locals
of the C frames.  A round of a loop that changes nothing is followed by the same round for
ever: `Spin` is the step that finds that out, to a place of its own.  The arrays of children of
a program and of a block never grow; the child that has no place is linked and counted, and
the run is at "overrun", of which nothing more is said.  `current` starts at the first token and `token_index` at 0, so that the
first token is seen twice: a program `f(x){1}` whose first function is written
properly never parses.

`ProtocolHandler` is the message layer of the Node binding and `NetworkEndpoint` the
client side of its endpoint, which extends it: `Send` is a message of the one
given to the other.  `pendingMessages` is a set of messages, each found under its
sequence number.  `connect` replaces the socket and does not close it: `sockets`
holds those that are alive, `socket` is the one `this.socket` points at, and events
of any of them act on the one endpoint.  `error` and `close` of one socket both
reach `handleDisconnect`.  A listener of `connected` may send before the data that
waited is flushed (`Opened`).  Whether a promise was resolved or rejected is not
told apart, and the peer may answer any number at any time, because both sides
number their messages with counters of their own.  The application listens to
`error` and keeps its process up when a promise nobody holds is rejected.

`MicroServices` is a context with its slots, mask and count.  Slots are numbered
from 0 as in the mask.  `polycall_micro_collect_garbage` is a step per slot
because it calls `destroy_service` in the middle of its walk; nothing else runs
before it has ended.  `sweep` keeps, as history, what was due at its start.
Commands are numbered in the order in which they are offered.  The clock moves
both ways, as `time(NULL)` may, and `Expired` wraps around as `uint64_t` does.

`MC*` modules give the constants and the constraints of the runs.  `*_proofs`
modules hold theorems.  Operators marked "Mutant" are plausible mistakes, kept
next to what they would replace; each is known to break the property that
`PROJECT.json` names for it.

## Runs

| Run | Instance | Shows |
|---|---|---|
| `state_machine` | 2 states, 2 transitions of up to 2 names, 1 snapshot, damage to contents or id, transitions nested to depth 2, 3 changes of versions | `SnapshotsCurrent`, `VerifyIsSound`, `NoEntryPastLock`, `LocksOnlyByCall`, `ChangesRaiseVersion` |
| `state_machine_moves` | the same without nesting | finding: a transition fires from any state |
| `protocol` | 6 states, up to 4 transitions, 2 messages, calls nested to depth 2, 2 locks, unlocks or entries | `SessionTracksMachine`, `HandshakeSent`, `SessionRespectsLocks`, and that the session implements the state machine's specification (`MachineSpec`) |
| `network` | 3 connections, 2 slots, up to 2 messages each | `ConnectionsAccounted`, that the program implements `ConnectionService` (`ServiceSpec`), `EveryConnectionAnswered`, `EveryMessageRead` |
| `network_disconnect` | the same | finding: the first hang-up stops the server for good |
| `runtime` | a table of 2, 3 starts, 3 ports with another process on one, 3 lines, 3 directories, both signals | `EntriesLive`, `FaultsExplained`, `ExitReleasesAll`, `MappingsSound`, `LeavingEnds` |
| `runtime_ports` | the same | finding: a service's program does not listen on the container port of its mapping |
| `micro_services` | 3 slots, ids 0 and 1, queues of 2, batches of 2, a clock with 3 readings | `CountMatchesMask`, `QueuesInOrder`, `SweepTakesAsManyAsDue` |
| `micro_collects` | the same, the clock moving forward | finding: the collector destroys a fresh service in place of a timed-out one |
| `parser` | 3 inputs out of 8, 2 sets of operations, 6 tokens, pools of 3 and 8 nodes, 2 children | `TokensTile`, `AstIsTree`, `FlatIsTheVisit`, `EndsInGrammar`, `NoLoopSpins`, `GrammarEnds`, `DescentAdvances` |
| `parser_children` | the same | finding: the arrays of children never grow, and the child without a place is written behind them |
| `endpoint` | 2 messages, 2 sockets alive at a time, 2 retries, 2 breaks or calls | `Awaited`, `OnceInOrder`, `WaitsForSomething`, `EverySendSettles`, `QueueNeverForgotten` |

What the properties say in words stands above each of them.  In short:

* `SnapshotsCurrent`: a restore copies the lock flag too, and only the equality of
  versions stands between an old snapshot and an undone lock.  For the state the snapshot
  was taken of it is enough.
* `VerifyIsSound`: no sequence of locking, entering, damage, snapshot and restore
  makes verification raise a false alarm or hides damage, with one exception that the code
  has: a snapshot of a state whose id was damaged is restored over another state, if the
  versions happen to agree, and brings its own checksum along.  Such a state verifies only
  if it looks like some registered state; it need not be the one registered there.
* `LocksOnlyByCall`: the same exception, and no other, for lock flags.
* `NoEntryPastLock`: the checks of a transition are a callback older than its
  effect; a lock set in between is the only way into a locked state, and it shows
  in the version.
* `SessionTracksMachine`: whatever fails or nests, the session's state is its
  machine's.
* `ConnectionsAccounted`: wherever a signal strikes, the open connections are those in a slot
  and at most the one that was between `accept` and its slot.  That one is closed by nothing
  but the end of the process.
* `ServiceSpec`: a signal may strike with a connection in hand, under the mutex or not, a
  refusal may come after `accept`; none of it shows to clients and handlers as anything but a service that
  turned a connection away or stopped.
* `EveryMessageRead`, `EveryConnectionAnswered`: the loop starves nobody, full table
  or not, up to the moment it halts (a signal, or the first hang-up).
* `EntriesLive`, `ExitReleasesAll`, `FaultsExplained`: no order of commands, starts
  that fail, stops and starts again makes the runtime keep, clean up twice or lose
  a program.  Signals can, and these properties name the only places where: between
  the store and the count of a new entry, between `net_cleanup_program` and the
  NULL, between a `free` and its NULL, and wherever `clients_lock` is held.  Besides, a
  client that hangs up blocks the event loop.
* `LeavingEnds`: a cleanup that has begun comes to an end; waiting for its own lock and
  undefined behaviour are ends here, and `FaultsExplained` says what they need.
* `MappingsSound`: a mapping is counted before its program exists.  Through each
  failure the two tables stay one.
* `TokensTile`: `process` may fail anywhere and be called again with other
  operations, and inputs follow each other in one token array.  Still every lexeme
  up to the position has one token, in order, but for what found the array full.
* `EndsInGrammar`, `GrammarEnds`: `Grammatical` reads the grammar off the tokens
  without any of the parser's state; the parser ends exactly on those streams, or
  when its nodes have run out.  On all others it spins, or writes behind an array of
  children first; on a grammatical stream it may do the latter too (`parser_children`).
* `NoLoopSpins`, `DescentAdvances`: why `GrammarEnds` holds.  On a grammatical stream no
  loop comes to a token that it neither reads nor ends at; and on any stream `Work`, a
  measure of the tokens and nodes left, says how many steps there are at most before
  the call returns, writes behind an array or spins for ever.
* `AstIsTree`, `FlatIsTheVisit`: at every step, also when nodes run out in the
  middle of a function, what hangs from the root is a tree, up to the first child that
  is written behind its array; at the end the flat array is its traversal.
* `SweepTakesAsManyAsDue`: the collector finds services by slot and destroys by id.
  Even so, with ids repeated and the clock set back, of every id it destroys as many
  as were due.  Which ones is another matter (`micro_collects`).
* `OnceInOrder`: however connections overlap, nothing is written twice, and what
  waited goes out in the order it was sent.
* `WaitsForSomething`, `QueueNeverForgotten`: data that waits has an attempt or a
  retry to wait for until all retries are used up; it is handed on in the end.
* `Awaited`, `EverySendSettles`: an answer never meets a promise already settled, and
  each promise is settled, be it only by its timer, which `reset` leaves running.

### Bounds

Bounds named `Max...` cap counters; an action that would pass one is disabled.
Two states are enough for a transition, a lock on either end and a restore of one
while the other is entered; depth 2 is the first nesting; two transitions allow
two of one name.  Three slots allow a hole between two active ones and three
services of one id.  Three readings of the clock with a timeout of 1 allow fresh,
old, and future times.  Two slots and three clients fill the table and refuse one.
The session's depth 2 allows a call from a callback.  Versions and sequence numbers
stay far from 2^32.  `protocol` installs the machine before its first call
(`InstalledFirst`): a transition installed later only adds behaviours that start
from a refusal, which the missing transitions show too.

Three starts against a table of two reach a slot that is used again, a start past
the table, and with three ports of which one is taken a start that finds none free;
lines and directories repeat ports, across host and container and modulo 2^16.
The parser's texts hold a program with one statement, one with a token that starts
no expression, one whose third statement goes past a block with two children, two
functions in one text, an unmatched character, blanks, one text that is too short
and one too long for the buffer; six tokens are one fewer
than the longest text and its EOF make, three nodes fewer than a program needs.  Two messages are one that is answered and one
that has its number after a reset; two sockets are one that was replaced and the
one that replaced it; `MaxEvents` counts what the network or the application does
of its own accord (connections broken, calls of connect, disconnect and reset),
and two of them allow a break during a reconnection and a reset after it.

### Fairness

* `NetworkProgram`: `WF_vars(Pass \/ Cleanup \/ Exit)`.  The thread runs whenever it can,
  because the loop in `main.c` does nothing but call `net_run` and sleep a
  millisecond, and `select` returns within a second.  Clients and signals are not
  fair.
* `Runtime`: `WF_vars(Sweep)`.  A pass over the table that has begun goes on; no
  command needs to be given.
* `Parser`: `WF_vars(ScanStep \/ ScanFails \/ BeginProgram \/ Descend)`.  A call that was
  made goes on; no call needs to be made.
* `NetworkEndpoint`: `WF_vars(Retry \/ SocketEvent) /\ WF_vars(MessageTimer)`.  The event
  loop runs the timers that are due and delivers the events of sockets, and the
  operating system ends every attempt to connect.  This is weaker than fairness
  for each timer and each socket, and it is enough.  Breaks of open connections,
  answers and calls are not fair.

All runs have `CHECK_DEADLOCK FALSE`: every bounded instance ends when its bounds are
used up, and a halted server, a process that has ended and a loop that spins are
states of the models.

## Proofs

All theorems hold for every value of the constants that satisfies the modules' named
assumptions; those ask no more than that sizes are natural numbers, and that values
standing for "none" are not something.

`PolyCallStateMachine_proofs` proves all six properties of the `state_machine` run.  The
invariant is the type invariant, `SnapshotsCurrent`, and two facts it needs: the
recorded checksum of a state, and of the copy in a snapshot of it, is the registered one
unless the state was overwritten with another one's snapshot, and some registered state's
even then (`SumKnown`); a call in progress has seen no later version of its target
than there is.  The last one gives `NoEntryPastLock`: had the lock been set after the
checks, the version would have risen.  `StateKept` says what every step does to one state
(its version rises or nothing but its contents changes) and is the one place
where each action is looked at; snapshots and calls in progress follow from it.

`ProtocolSession_proofs` proves that a session implements `PolyCallStateMachine`
(`Spec => MachineSpec`: initial states map to initial states, and `MachineStep` maps
every step to a step of the machine or a stutter), and the run's other four
properties.  The invariant says that `goals` and `pending` are equally long,
that each call in progress holds a transition named for its goal, that every transition
leads where its name says, and that no call in progress is headed past the
handshake before the message is out.  `Typing` and `SessionLocksHold` are drawn from the
machine's own theorems: `Proved` is an instance of its proof module, `SameStep` says that
its steps are those of the session's machine, and the refinement does the rest.

`NetworkProgram_proofs` proves the type invariant, `ConnectionsAccounted`,
that `on_disconnect` too comes only after `on_connect` (`CallbacksInOrder`, which no run
repeats), and that a network program implements `ConnectionService`
(`Spec => ServiceSpec`).  The invariant adds that the backlog holds each queued connection
once (so that one accepted is not queued still), that what is in hand is a connection
(`HandOK`), that the cleanup leaves no slot active, and that `on_connect` has
seen every connection in the table except, until it is called, the last.  A signal with a
connection in hand keeps it in hand, at "blocked", "cleanup" and "exit" (`HandIs`), so that
`ConnectionsAccounted` says which connection the cleanup misses.  The refinement
(`ServiceStep`, one step per action) needs besides that `on_connect` was never called for
a connection that still waits (`GreetedOnce`), and `Outside`, which says what the mapping
comes to at each place.  That a table with a free slot serves fewer than `MaxClients`
(`RoomLeft`) is a fact about cardinalities: slots in use are mapped onto connections.

`Runtime_proofs` proves the five invariants of the `runtime` run.  The invariant says for
each value of `pc` what the program under way, the slot the pass is at and the table
are like, and for each place in `struck` what a signal there has left behind.
`PassAdvances` says that no pass over the table comes to a slot twice, whatever the signals
before it left there; it needs the types only: `PassGoesOn` says of each step that it comes to a
later place at the same slot, or to the next slot.

`Parser_proofs` proves the seven properties of the `parser` run that are not liveness.
`Inv` says of `pc` which of `fun`, `block` and `stmt` are set, that they are the latest
nodes not yet linked, and that the cursor is within the tokens; it gives the type
invariant and `AstIsTree`.  The others add to it:

* `TokensTile` is inductive with the two facts that `Tiles` adds: no token is of an input
  still to come, and without an input there is none.
* `EndsInGrammar`: nothing in the state remembers what was read, so `GInv` says that the
  place the parser is at is one that the grammar reaches with the tokens up to the
  cursor, unless nodes ran out or the descent is stuck.
* `FlatIsTheVisit` is about a recursive traversal of a tree that is still being
  built.  `PoolInOrder` says that for each node there is a last number under it,
  that its children's stretches of numbers follow each other from right behind it to
  there (`Laid`, `SpanAt`), and that what is under construction is the end of the pool.
  From that, `VisitsNumbers` proves what the traversal of such a pool yields.
* `NoLoopSpins`: `Keeping` is `GInv` for grammatical streams, where the places at which a
  loop spins are not among those the descent may be at (`Spins` and `Overruns` say what
  the two steps out of the grammar leave as it was).
* `DescentAdvances`: `Work` goes down with every step (`WorkStep`) and is a natural number
  (`WorkCounts`).

`NetworkEndpoint_proofs` proves the type invariant, `Awaited`, `OnceInOrder` and
`WaitsForSomething`.  Besides these the invariant says that numbers of entries are below
the next one, so that a new number is nobody's entry, and that what waits was recorded
as such.  `WriteData`, `WaitData`, `FlushData` say what the three ways to pass data on do
to its order.

`MicroServices_proofs` proves the four properties of the `micro_services` run for any
number of slots.  `CountMatchesMask` needs no more than the typing of slots and mask,
and that destroying by id removes one active slot.  `SweepTakesAsManyAsDue` needs that
slots not yet reached and still active are as they were at the start, and that
the number gone equals the number due so far, per id: the search by id cannot come
up empty, because the slot it started from is active and has the id.
`SweepExact` draws from it that where no id was given twice a collection destroys exactly the
services that were due, so that `micro_collects` needs a repeated id.
`CreateFindsSlot` draws from `CountMatchesMask` that `create_service` never runs off the
mask.  `QueuesInOrder` needs what the loop of `polycall_micro_filter_commands` computes:
`KeptPicks` proves that it picks, in order, the commands the predicate keeps.

`Induction` holds what the last proofs have in common.  The induction theorems of the
library take an operator as a parameter, which the provers cannot be given; here
the property is a set of numbers instead (`NatSetInduction`, from the
well-foundedness of `<`), and a recursion is a function from each prefix of its
data to a value, whose existence is `Recursion`.  So the loops of `filter_commands` and
`polycall_ast_visit` are written as recursive functions, and what they compute is proved
for data of any size.

Model-checked only: the six liveness properties (`EveryConnectionAnswered`,
`EveryMessageRead`, `LeavingEnds`, `GrammarEnds`, `EverySendSettles`,
`QueueNeverForgotten`), because the provers do no reasoning about fairness and ENABLED.
What makes them hold is proved for some of them: `PassAdvances` for `LeavingEnds`,
`NoLoopSpins` and `DescentAdvances` for `GrammarEnds`, `Awaited` for `EverySendSettles`,
`WaitsForSomething` for `QueueNeverForgotten`.  What remains to TLC there is that a step that
may be taken is taken.  Every other property of a passing run is the statement of a theorem.

## What is not modelled

* Names, timestamps, diagnostics messages, payloads and wire format; the characters a
  matcher takes, line and column; the history buffer; Windows paths.
* `polycall_protocol_process` changes nothing that a caller can see: the context
  callers hold is the base of the internal one, without the callbacks.  Reading
  the callbacks past its end is undefined; the model takes them as absent, which is
  the behaviour callers get from zeroed memory.  The same holds for `last_error` in
  `polycall_protocol_set_error`.
* `net_run` with descriptor 0 as a client (never watched), `accept` failing for lack
  of descriptors (the connection stays queued).
* What the handler's calls that are not safe in a signal handler (`free`, `printf`) do
  when a signal strikes within `malloc` itself.
* `polycall_micro_cleanup`, `polycall_micro_transform_state`; the AST's filter,
  transforms, `optimize` (which copies the root only) and `add_child`; any use of a
  returned AST, whose nodes are freed; `list_endpoints`.
* What a write out of bounds destroys: behind the arrays of children
  (`src/polycall_parser.c:225`, `287`), behind `programs[]` (`main.c:552`), and the terminator
  that `set_input` writes one past its buffer (`src/polycall_tokenizer.c:232`).
* The server side of the Node endpoint, and the components marked `not_modelled` in
  `PROJECT.json`, for the reasons given there.

Things met on the way that no property is about, for whoever works on this code:

* `docs/TRIAL.md:305` gives the services `node` and `python` container ports that collide;
  `add_port_mapping` refuses the second.  With `-f`, lines that start with `server` are
  ignored.  The interactive mode never calls `net_run`.  A refused mapping with default
  ports leaves `services_found` as it was, so the next directory tries the same ports.
* `polycall_protocol_authenticate` and `polycall_protocol_set_error` never ask
  `polycall_protocol_can_transition`, which the header introduces as "State transition
  validation" (`include/polycall_protocol.h:116`): a session goes from INIT straight to READY.
  Only `polycall_protocol_update` asks it.
* Node: `PolyCallClient`'s constructor calls methods that `Router` lacks and throws; the
  reply to a handshake is made and never sent; an answer carries the sender's own
  number, so it meets its request by coincidence; a retry that is timed already still
  connects after `disconnect()`, whose comment says "Prevent auto-reconnect"
  (`NetworkEndpoint.js:127`).
* Go: `Connect` calls `Disconnect` under the mutex that `Disconnect` takes.

## Plan

What is left, in this order:

1. `AsyncStateMachine`: the Node binding's transitions cut at every await, with
   `PolyCallStateMachine`'s properties asked again, once a client exists that
   drives them.
2. `BindingSession`: what a binding promises (no command without authentication) as an
   abstract specification, the Lua, Go and Java cores as refinements of it.
3. Proofs: the invariants behind `EveryMessageRead` and `EveryConnectionAnswered` (a pass that
   has selected a connection comes to its slot before it ends; the queue gets shorter
   with every pass that finds it not empty); an abstract specification of
   `NetworkEndpoint` (messages accepted, written once and in order, settled) and its
   refinement.
