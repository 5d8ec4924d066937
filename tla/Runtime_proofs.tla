--------------------------- MODULE Runtime_proofs ---------------------------
(***************************************************************************)
(* Proofs about Runtime for every value of its constants: any table, any   *)
(* range of ports, any lines and directories, any number of programs.      *)
(*                                                                         *)
(* No invariant of the run is inductive alone.  That a pass meets only     *)
(* live programs rests on what a start leaves in the table at each of its  *)
(* steps and on where a signal has struck; that a process that exits has   *)
(* released everything rests on the slots a pass has behind it being NULL  *)
(* and on every program started being either released or before it.        *)
(***************************************************************************)
EXTENDS Runtime, TLAPS

Using == {"using", "close", "unlock"}
AtSlot == {"lock", "using", "close", "unlock", "free", "forget"}
AtEnd == {"machine", "null machine", "context", "null context", "exited"}

(* Where a program under way stands.                                       *)
Starting ==
  /\ \A p \in Programs : memory[p] = "none" <=> p > started
  /\ \A p \in Programs : memory[p] \in {"none", "new"} => bound[p] = 0
  /\ pc \in StartPcs => started \in Programs
  /\ pc \in {"find", "probe", "release", "bind"} => memory[started] = "new"
  /\ pc \in {"enter", "stored", "counted"} => memory[started] = "live"

(* The port it tries.                                                      *)
Aiming ==
  /\ pc = "find" => label[started] \in PortLow .. PortHigh + 1
  /\ pc \in {"probe", "release", "bind"} => label[started] \in Ports

(* What the table holds: a program under way only once it is stored.       *)
Entries ==
  /\ \A i, j \in Slots : table[i] = table[j] /\ table[i] # 0 => i = j
  /\ \A i \in Slots : table[i] # 0 =>
       /\ memory[table[i]] \notin {"none", "new"}
       /\ pc \in StartPcs /\ table[i] = started => pc = "stored" /\ i = count
       /\ i >= count => (pc = "stored" /\ i = count) \/ "stored" \in struck
  /\ pc = "stored" => count < MaxPrograms /\ table[count] = started
  /\ pc = "counted" => count > 0 /\ table[count - 1] = 0

LiveEntries ==
  \A i \in Slots : table[i] # 0 =>
    \/ memory[table[i]] = "live"
    \/ i = slot /\ pc \in {"free", "forget"}
    \/ struck \cap {"free", "forget"} # {}

(* A struck thread is on its way out and nowhere else; one struck while it *)
(* waited for itself waits because of another strike or in the event loop. *)
Strikes ==
  /\ struck # {} => errand = "exit"
  /\ errand = "exit" => pc \notin StartPcs \cup {"idle", "using", "overrun", "crashed"}
  /\ "blocked" \in struck => mode = "loop" \/ struck \cap Using # {}

(* What a pass has reached, and what it has behind it.                     *)
Passing ==
  /\ pc \in AtSlot => slot < count /\ table[slot] # 0
  /\ pc \in Using => memory[table[slot]] = "live"
  /\ pc = "using" <=> pc \in Using /\ errand = "use"
  /\ pc = "free" => memory[table[slot]] = "closed"
  /\ pc = "forget" => memory[table[slot]] = "freed"
  /\ pc \in {"unlock", "free", "forget"} => bound[table[slot]] = 0
  /\ pc \in AtSlot \cup {"next"} /\ errand # "use" => \A i \in Slots : i < slot => table[i] = 0
  /\ pc \in AtEnd => \A i \in Slots : i < count => table[i] = 0

Locks ==
  pc \notin {"undefined", "blocked"} /\ struck \cap (Using \cup {"blocked"}) = {} =>
    held = IF pc \in Using THEN {table[slot]} ELSE {}

Pointers ==
  /\ machine = "freed" => pc = "null machine" \/ "null machine" \in struck
  /\ context = "freed" => pc = "null context" \/ "null context" \in struck

Tabled(p) == \E i \in Slots : i < count /\ table[i] = p

(* Every program started is released, in the table, or under way.          *)
Accounted ==
  \A p \in Programs : p <= started =>
    \/ memory[p] = "freed" /\ bound[p] = 0
    \/ Tabled(p)
    \/ p = started /\ (pc \in StartPcs \cup {"overrun"} \/ struck \cap StartPcs # {})

Under == IF pc \in StartPcs \cup {"overrun"} THEN 1 ELSE 0
Complete == IF pc = "counted" THEN count - 1 ELSE count

(* The mappings of polycall_init_with_directory and its programs.          *)
Mapped ==
  /\ mode \in {"file", "discover", "returned"} =>
       pc \in StartPcs \cup {"idle", "overrun"} /\ struck = {} /\ errand = "use"
  /\ Directed =>
       /\ Len(mappings) = Complete + Under
       /\ \A k \in 1 .. Complete : table[k - 1] # 0 /\ label[table[k - 1]] = mappings[k].container
       /\ pc \in {"stored", "counted"} => label[started] = mappings[Len(mappings)].container
       /\ \A j, k \in DOMAIN mappings : j # k =>
            {mappings[j].host, mappings[j].container}
              \cap {mappings[k].host, mappings[k].container} = {}

IInv ==
  /\ Starting /\ Aiming /\ Entries /\ LiveEntries /\ Strikes /\ Passing /\ Locks /\ Pointers
  /\ FaultsExplained /\ Accounted /\ Mapped

(* What the steps below need of the types.                                 *)
Typed ==
  /\ table \in [Slots -> 0 .. MaxStarted] /\ count \in 0 .. MaxPrograms
  /\ started \in 0 .. MaxStarted /\ slot \in Nat
  /\ memory \in [Programs -> {"none", "new", "live", "closed", "freed"}]
  /\ bound \in [Programs -> {0} \cup Ports] /\ label \in [Programs -> Nat]

LEMMA TypedOK == TypeOK => Typed
  BY DEF TypeOK, Typed

-----------------------------------------------------------------------------
(* Starting a program.                                                     *)
LEMMA FindPortStep ==
  ASSUME TypeOK, IInv, FindPort, UNCHANGED <<mode, held, portNumber, pointers, pass, signals, foreign>>
  PROVE  IInv'
  <1> USE ConstantsOK DEF IInv, FindPort, entries, programs, directory, pointers, pass, signals
  <1>types. Typed
    BY TypedOK
  <1>s. started \in Programs
    BY DEF Starting, StartPcs
  <1>t. \A i \in Slots : table[i] # 0 => table[i] \in Programs /\ table[i] # started
    BY <1>s, <1>types DEF Typed, Entries, Programs, StartPcs
  <1>u. \A q \in Programs : q # started => label'[q] = label[q]
    BY <1>s, <1>types DEF Typed
  <1>v. count \in Nat /\ \A k \in 1 .. count : k - 1 \in Slots
    BY <1>types DEF Typed, Slots
  <1>1. Starting' /\ Aiming' /\ Entries' /\ LiveEntries'
    BY <1>types, <1>s, <1>t, <1>u, <1>v DEF Starting, Programs, StartPcs, Aiming, Ports, Entries, Slots,
       LiveEntries, Typed
  <1>2. Strikes' /\ Passing' /\ Locks' /\ Pointers' /\ FaultsExplained'
    BY <1>types, <1>s, <1>t, <1>u, <1>v DEF Strikes, StartPcs, AtEnd, Passing, Slots, Programs, Using,
       AtSlot, Locks, Pointers, FaultsExplained, Typed
  <1>3. Accounted'
    BY <1>types, <1>s, <1>t, <1>u, <1>v DEF Accounted, Tabled, Slots, Programs, StartPcs, AtSlot, Typed
  <1>4. Mapped'
    <2>1. \A k \in 1 .. count : table[k - 1] # 0 => label'[table[k - 1]] = label[table[k - 1]]
      BY <1>t, <1>u, <1>v
    <2>2. Complete = count /\ Complete' = count /\ Under = 1 /\ Under' = 1
      BY DEF Complete, Under, StartPcs
    <2>3. pc \in StartPcs /\ pc' \in StartPcs /\ pc' \notin {"stored", "counted"}
      BY DEF StartPcs
    <2> QED BY <2>1, <2>2, <2>3 DEF Mapped, Directed
  <1> QED BY <1>1, <1>2, <1>3, <1>4

LEMMA ProbePortStep ==
  ASSUME TypeOK, IInv, ProbePort, UNCHANGED <<mode, held, portNumber, pointers, pass, signals, foreign>>
  PROVE  IInv'
  <1> USE ConstantsOK DEF IInv, ProbePort, entries, programs, directory, pointers, pass, signals
  <1>types. Typed
    BY TypedOK
  <1>1. Starting' /\ Aiming' /\ Entries' /\ LiveEntries'
    BY <1>types DEF Starting, Programs, StartPcs, Aiming, Ports, Entries, Slots, LiveEntries, Typed
  <1>2. Strikes' /\ Passing' /\ Locks' /\ Pointers' /\ FaultsExplained'
    BY <1>types DEF Strikes, StartPcs, AtEnd, Passing, Slots, Programs, Using, AtSlot, Locks, Pointers,
       FaultsExplained, Typed
  <1>3. Accounted'
    BY <1>types DEF Accounted, Tabled, Slots, Programs, StartPcs, AtSlot, Typed
  <1>4. Mapped'
    BY <1>types DEF Mapped, Complete, Under, Directed, Slots, Programs, StartPcs, Typed
  <1> QED BY <1>1, <1>2, <1>3, <1>4

LEMMA BindPortStep ==
  ASSUME TypeOK, IInv, BindPort, UNCHANGED <<mode, held, portNumber, pointers, pass, signals, foreign>>
  PROVE  IInv'
  <1> USE ConstantsOK DEF IInv, BindPort, entries, programs, directory, pointers, pass, signals
  <1>types. Typed
    BY TypedOK
  <1>s. started \in Programs
    BY DEF Starting, StartPcs
  <1>t. \A i \in Slots : table[i] # 0 => table[i] \in Programs /\ table[i] # started
    BY <1>s, <1>types DEF Typed, Entries, Programs, StartPcs
  <1>u. /\ \A q \in Programs : memory'[q] = IF q = started THEN "live" ELSE memory[q]
        /\ \A q \in Programs : bound'[q] = IF q = started THEN label[q] ELSE bound[q]
    BY <1>s, <1>types DEF Typed
  <1>1. Starting' /\ Aiming' /\ Entries' /\ LiveEntries'
    BY <1>types, <1>s, <1>t, <1>u DEF Starting, Programs, StartPcs, Aiming, Ports, Entries, Slots,
       LiveEntries, Typed
  <1>2. Strikes' /\ Passing' /\ Locks' /\ Pointers' /\ FaultsExplained'
    BY <1>types, <1>s, <1>t, <1>u DEF Strikes, StartPcs, AtEnd, Passing, Slots, Programs, Using, AtSlot,
       Locks, Pointers, FaultsExplained, Typed
  <1>3. Accounted'
    BY <1>types, <1>s, <1>t, <1>u DEF Accounted, Tabled, Slots, Programs, StartPcs, AtSlot, Typed
  <1>4. Mapped'
    BY <1>types, <1>s, <1>t, <1>u DEF Mapped, Complete, Under, Directed, Slots, Programs, StartPcs,
       Typed
  <1> QED BY <1>1, <1>2, <1>3, <1>4

LEMMA StartFailsStep ==
  ASSUME TypeOK, IInv, StartFails, UNCHANGED <<mode, held, portNumber, pointers, pass, signals, foreign>>
  PROVE  IInv'
  <1> USE ConstantsOK DEF IInv, StartFails, entries, programs, directory, pointers, pass, signals
  <1>types. Typed
    BY TypedOK
  <1>s. started \in Programs
    BY DEF Starting, StartPcs
  <1>t. \A i \in Slots : table[i] # 0 => table[i] \in Programs /\ table[i] # started
    BY <1>s, <1>types DEF Typed, Entries, Programs, StartPcs
  <1>u. /\ \A q \in Programs : memory'[q] = IF q = started THEN "freed" ELSE memory[q]
        /\ \A q \in Programs : label'[q] = IF q = started THEN 0 ELSE label[q]
    BY <1>s, <1>types DEF Typed
  <1>v. count \in Nat /\ \A k \in 1 .. count : k - 1 \in Slots
    BY <1>types DEF Typed, Slots
  <1>1. Starting' /\ Aiming' /\ Entries' /\ LiveEntries'
    BY <1>types, <1>s, <1>t, <1>u, <1>v DEF Starting, Programs, StartPcs, Aiming, Ports, Entries, Slots,
       LiveEntries, Typed
  <1>2. Strikes' /\ Passing' /\ Locks' /\ Pointers' /\ FaultsExplained'
    BY <1>types, <1>s, <1>t, <1>u, <1>v DEF Strikes, StartPcs, AtEnd, Passing, Slots, Programs, Using,
       AtSlot, Locks, Pointers, FaultsExplained, Typed
  <1>3. Accounted'
    BY <1>types, <1>s, <1>t, <1>u, <1>v DEF Accounted, Tabled, Passing, Starting, Entries, Strikes,
       Slots, Programs, StartPcs, AtSlot, Typed
  <1>4. Mapped'
    <2>1. \A k \in 1 .. count : table[k - 1] # 0 => label'[table[k - 1]] = label[table[k - 1]]
      BY <1>t, <1>u, <1>v
    <2>2. Complete = count /\ Complete' = count /\ Under = 1 /\ Under' = 0
      BY DEF Complete, Under, StartPcs
    <2>3. ASSUME Directed
          PROVE  /\ mappings \in Seq(Mappings) /\ Len(mappings) = count + 1
                 /\ Len(mappings') = count /\ \A k \in 1 .. count : mappings'[k] = mappings[k]
                 /\ DOMAIN mappings = 1 .. count + 1 /\ DOMAIN mappings' = 1 .. count
      <3>1. mappings \in Seq(Mappings) /\ Len(mappings) = count + 1
        BY <2>2, <2>3 DEF Mapped, TypeOK
      <3>2. mappings' = SubSeq(mappings, 1, count)
        BY <2>3, <3>1, <1>v
      <3> QED BY <3>1, <3>2, <1>v
    <2>4. pc \in StartPcs /\ pc' = "idle"
      BY DEF StartPcs
    <2>5. ASSUME Directed
          PROVE  /\ \A k \in 1 .. count : table[k - 1] # 0 /\ label'[table[k - 1]] = mappings'[k].container
                 /\ \A j, k \in 1 .. count : j # k =>
                      {mappings'[j].host, mappings'[j].container}
                        \cap {mappings'[k].host, mappings'[k].container} = {}
      BY <1>v, <2>1, <2>2, <2>3, <2>5 DEF Mapped
    <2> QED BY <2>2, <2>3, <2>4, <2>5 DEF Mapped, Directed
  <1> QED BY <1>1, <1>2, <1>3, <1>4

LEMMA RegisterStep ==
  ASSUME TypeOK, IInv, Register, UNCHANGED <<mode, held, portNumber, pointers, pass, signals, foreign>>
  PROVE  IInv'
  <1> USE ConstantsOK DEF IInv, Register, Labelled, entries, programs, directory, pointers, pass, signals
  <1>types. Typed
    BY TypedOK
  <1>s. started \in Programs
    BY DEF Starting, StartPcs
  <1>t. \A i \in Slots : table[i] # 0 => table[i] \in Programs /\ table[i] # started
    BY <1>s, <1>types DEF Typed, Entries, Programs, StartPcs
  <1>u. \A q \in Programs : q # started => label'[q] = label[q]
    BY <1>s, <1>types DEF Typed
  <1>v. count \in 0 .. MaxPrograms /\ struck = {} /\ struck' = {} /\ memory[started] = "live"
    BY <1>types DEF Typed, Strikes, Starting, StartPcs
  <1>w. \/ /\ pc' = "stored" /\ count < MaxPrograms /\ count \in Slots /\ count' = count
           /\ \A i \in Slots : table'[i] = IF i = count THEN started ELSE table[i]
        \/ pc' = "counted" /\ count < MaxPrograms /\ count \in Slots /\ count' = count + 1 /\ table' = table
        \/ pc' = "overrun" /\ count' = count /\ table' = table
    <2>1. count < MaxPrograms => count \in Slots
      BY <1>v DEF Slots
    <2>2. CASE pc' = "stored"
      BY <1>types, <1>v, <2>1, <2>2 DEF Typed
    <2>3. CASE pc' # "stored"
      BY <2>1, <2>3
    <2> QED BY <2>2, <2>3
  <1>x. \A i \in Slots : i >= count => table[i] = 0
    BY <1>v DEF Entries
  <1>1. Entries'
    <2>1. CASE pc' = "stored"
      BY <1>s, <1>t, <1>v, <1>w, <1>x, <2>1 DEF Entries, Slots, Programs, StartPcs
    <2>2. CASE pc' = "counted"
      BY <1>t, <1>v, <1>w, <1>x, <2>2 DEF Entries, Slots, Programs, StartPcs
    <2>3. CASE pc' = "overrun"
      BY <1>t, <1>v, <1>w, <1>x, <2>3 DEF Entries, Slots, StartPcs
    <2> QED BY <1>w, <2>1, <2>2, <2>3
  <1>2. LiveEntries'
    BY <1>t, <1>v, <1>w, <1>x DEF LiveEntries
  <1>3. Starting' /\ Aiming'
    BY <1>types, <1>s, <1>t, <1>u, <1>v, <1>w, <1>x DEF Starting, Programs, StartPcs, Aiming, Ports,
       Typed
  <1>4. Strikes' /\ Passing' /\ Locks' /\ Pointers' /\ FaultsExplained'
    BY <1>types, <1>s, <1>t, <1>u, <1>v, <1>w, <1>x DEF Strikes, StartPcs, AtEnd, Passing, Slots,
       Programs, Using, AtSlot, Locks, Pointers, FaultsExplained, Typed
  <1>5. Accounted'
    <2>1. \A p \in Programs : Tabled(p) => Tabled(p)'
      BY <1>v, <1>w, <1>x DEF Tabled, Slots
    <2>2. started' = started /\ pc' \in StartPcs \cup {"overrun"}
      BY DEF StartPcs
    <2> QED BY <1>v, <2>1, <2>2 DEF Accounted
  <1>6. Mapped'
    <2>1. ASSUME Directed
          PROVE  label'[started] = mappings[Len(mappings)].container
      BY <1>s, <1>types, <2>1 DEF Typed, Directed
    <2>2. Complete = count /\ Complete' = count /\ Under = 1 /\ Under' = 1
      BY <1>v, <1>w DEF Complete, Under, StartPcs
    <2>3. \A k \in 1 .. count : k - 1 \in Slots /\ k - 1 < count
      BY <1>v DEF Slots
    <2>4. \A k \in 1 .. count : table[k - 1] # 0 =>
            /\ table'[k - 1] = table[k - 1]
            /\ label'[table[k - 1]] = label[table[k - 1]]
      BY <1>t, <1>u, <1>w, <2>3
    <2>5. mode \in {"file", "discover", "returned"} => pc' \in StartPcs \cup {"idle", "overrun"} /\ struck = {} /\ errand = "use"
      BY <1>w DEF Mapped, StartPcs
    <2> QED BY <2>1, <2>2, <2>4, <2>5 DEF Mapped, Directed
  <1> QED BY <1>1, <1>2, <1>3, <1>4, <1>5, <1>6

LEMMA RegisteredStep ==
  ASSUME TypeOK, IInv, Registered, UNCHANGED <<mode, held, portNumber, pointers, pass, signals, foreign>>
  PROVE  IInv'
  <1> USE ConstantsOK DEF IInv, Registered, entries, programs, directory, pointers, pass, signals
  <1>types. Typed
    BY TypedOK
  <1>s. started \in Programs /\ memory[started] = "live" /\ struck = {}
    BY DEF Starting, Strikes, StartPcs
  <1>t. \A i \in Slots : table[i] # 0 => table[i] \in Programs /\ (table[i] = started => pc = "stored" /\ i = count)
    BY <1>s, <1>types DEF Typed, Entries, Programs, StartPcs
  <1>u. count \in 0 .. MaxPrograms
    BY <1>types DEF Typed
  <1>v. \/ /\ pc = "stored" /\ count' = count + 1 /\ table' = table
           /\ count \in Slots /\ table[count] = started
        \/ /\ pc = "counted" /\ count' = count /\ count > 0 /\ count - 1 \in Slots
           /\ table[count - 1] = 0
           /\ \A i \in Slots : table'[i] = IF i = count - 1 THEN started ELSE table[i]
    <2>1. CASE pc = "stored"
      BY <1>u, <2>1 DEF Entries, Slots
    <2>2. CASE pc = "counted"
      <3>1. count > 0 /\ count - 1 \in Slots /\ table[count - 1] = 0
        BY <1>u, <2>2 DEF Entries, Slots
      <3> QED BY <1>types, <2>2, <3>1 DEF Typed
    <2> QED BY <2>1, <2>2
  <1>1. Entries'
    <2>1. CASE pc = "stored"
      BY <1>s, <1>t, <1>u, <1>v, <2>1 DEF Entries, Slots, Programs, StartPcs
    <2>2. CASE pc = "counted"
      BY <1>s, <1>t, <1>u, <1>v, <2>2 DEF Entries, Slots, Programs, StartPcs
    <2> QED BY <2>1, <2>2
  <1>2. LiveEntries'
    BY <1>s, <1>t, <1>v DEF LiveEntries
  <1>3. Starting' /\ Aiming'
    BY <1>types, <1>s, <1>t, <1>u, <1>v DEF Starting, Programs, StartPcs, Aiming, Ports, Typed
  <1>4. Strikes' /\ Passing' /\ Locks' /\ Pointers' /\ FaultsExplained'
    BY <1>types, <1>s, <1>t, <1>u, <1>v DEF Strikes, StartPcs, AtEnd, Passing, Slots, Programs, Using,
       AtSlot, Locks, Pointers, FaultsExplained, Typed
  <1>5. Accounted'
    <2>1. ASSUME NEW p \in Programs, Tabled(p) \/ p = started
          PROVE  Tabled(p)'
      <3>1. CASE Tabled(p)
        <4>1. PICK i \in Slots : i < count /\ table[i] = p
          BY <3>1 DEF Tabled
        <4>2. i < count' /\ table'[i] = p
          BY <1>u, <1>v, <4>1 DEF Slots, Programs
        <4> QED BY <4>2 DEF Tabled
      <3>2. CASE p = started
        BY <1>u, <1>v, <3>2 DEF Tabled, Slots
      <3> QED BY <2>1, <3>1, <3>2
    <2> QED BY <1>s, <2>1 DEF Accounted, StartPcs
  <1>6. Mapped'
    <2>1. Complete' = Complete + Under /\ Under = 1 /\ Under' = 0 /\ count' = Complete + 1
      BY <1>u, <1>v DEF Complete, Under, StartPcs
    <2>2. Complete \in Slots /\ table'[Complete] = started
      BY <1>v DEF Complete
    <2>3. \A k \in 1 .. Complete : k - 1 \in Slots /\ k - 1 # Complete
      BY <2>2 DEF Slots
    <2>4. \A k \in 1 .. Complete : table'[k - 1] = table[k - 1]
      BY <1>v, <2>2, <2>3 DEF Complete
    <2>5. started # 0 /\ Complete \in Nat
      BY <1>s, <2>2 DEF Programs, Slots
    <2>6. ASSUME Directed
          PROVE  \A k \in 1 .. Complete + 1 :
                   table'[k - 1] # 0 /\ label[table'[k - 1]] = mappings[k].container
      <3>1. label[started] = mappings[Complete + 1].container
        BY <1>v, <2>1, <2>6 DEF Mapped
      <3>2. ASSUME NEW k \in 1 .. Complete
            PROVE  table'[k - 1] # 0 /\ label[table'[k - 1]] = mappings[k].container
        BY <2>4, <2>6 DEF Mapped
      <3>3. ASSUME NEW k \in 1 .. Complete + 1, k \notin 1 .. Complete
            PROVE  table'[k - 1] # 0 /\ label[table'[k - 1]] = mappings[k].container
        BY <2>2, <2>5, <3>1, <3>3
      <3> QED BY <3>2, <3>3
    <2> QED BY <2>1, <2>6 DEF Mapped, Directed
  <1> QED BY <1>1, <1>2, <1>3, <1>4, <1>5, <1>6

-----------------------------------------------------------------------------
(* Passing over the table.                                                 *)
LEMMA NextSlotStep ==
  ASSUME TypeOK, IInv, NextSlot, UNCHANGED <<mode, directory, portNumber, signals, foreign>>
  PROVE  IInv'
  <1> USE ConstantsOK DEF IInv, NextSlot, entries, programs, directory, pointers, pass, signals
  <1>types. Typed
    BY TypedOK
  <1>1. Starting' /\ Aiming' /\ Entries' /\ LiveEntries'
    BY <1>types DEF Starting, Programs, StartPcs, Aiming, Ports, Entries, Slots, LiveEntries, Typed
  <1>2. Passing'
    <2>1. CASE table[slot] = 0
      <3>1. \A i \in Slots : i < slot' => i < slot \/ i = slot
        BY <1>types, <2>1 DEF Typed, Slots
      <3> QED BY <2>1, <3>1 DEF Passing, Using, AtSlot, AtEnd
    <2>2. CASE table[slot] # 0
      BY <2>2 DEF Passing, Using, AtSlot, AtEnd
    <2> QED BY <2>1, <2>2
  <1>3. Strikes' /\ Locks' /\ Pointers' /\ FaultsExplained'
    BY <1>types DEF Strikes, StartPcs, AtEnd, Locks, Slots, Programs, Using, AtSlot, Pointers,
       FaultsExplained, Typed
  <1>4. Accounted'
    BY <1>types DEF Accounted, Tabled, Slots, Programs, StartPcs, AtSlot, Typed
  <1>5. Mapped'
    BY <1>types DEF Mapped, Complete, Under, Directed, Slots, Programs, StartPcs, Typed
  <1> QED BY <1>1, <1>2, <1>3, <1>4, <1>5

LEMMA LockClientsStep ==
  ASSUME TypeOK, IInv, LockClients, UNCHANGED <<mode, directory, portNumber, signals, foreign>>
  PROVE  IInv'
  <1> USE ConstantsOK DEF IInv, LockClients, entries, programs, directory, pointers, pass, signals
  <1>types. Typed
    BY TypedOK
  <1>s. slot \in Slots /\ slot < count /\ table[slot] \in Programs
    BY <1>types DEF Typed, Passing, AtSlot, Slots, Programs
  <1>t. \A i \in Slots : table[i] # 0 => table[i] \in Programs /\ (i # slot => table[i] # table[slot])
    BY <1>s, <1>types DEF Typed, Entries, Programs
  <1>1. Starting' /\ Aiming' /\ Entries' /\ LiveEntries'
    BY <1>types, <1>s, <1>t DEF Starting, Programs, StartPcs, Aiming, Ports, Entries, Slots,
       LiveEntries, Typed
  <1>2. FaultsExplained'
    <2>1. CASE memory[table[slot]] # "live"
      BY <1>s, <2>1 DEF LiveEntries, FaultsExplained, Passing, AtSlot
    <2>2. CASE memory[table[slot]] = "live" /\ table[slot] \in held
      <3>1. struck \cap (Using \cup {"blocked"}) # {}
        BY <2>2 DEF Locks, Using
      <3>2. struck \cap Using # {} \/ (mode = "loop" /\ "blocked" \in struck)
        BY <3>1 DEF Strikes
      <3> QED BY <2>2, <3>2 DEF Using, FaultsExplained
    <2>3. CASE memory[table[slot]] = "live" /\ table[slot] \notin held
      BY <2>3 DEF FaultsExplained
    <2> QED BY <2>1, <2>2, <2>3
  <1>3. Strikes' /\ Passing' /\ Locks' /\ Pointers'
    BY <1>types, <1>s, <1>t DEF Strikes, StartPcs, AtEnd, Passing, Slots, Programs, Using, AtSlot,
       Locks, Pointers, Typed
  <1>4. Accounted'
    BY <1>types, <1>s, <1>t DEF Accounted, Tabled, Slots, Programs, StartPcs, AtSlot, Typed
  <1>5. Mapped'
    BY <1>types, <1>s, <1>t DEF Mapped, Complete, Under, Directed, Slots, Programs, StartPcs, Typed
  <1> QED BY <1>1, <1>2, <1>3, <1>4, <1>5

LEMMA ReleaseClientsStep ==
  ASSUME TypeOK, IInv, ReleaseClients, UNCHANGED <<mode, directory, portNumber, signals, foreign>>
  PROVE  IInv'
  <1> USE ConstantsOK DEF IInv, ReleaseClients, entries, programs, directory, pointers, pass, signals
  <1>types. Typed
    BY TypedOK
  <1>s. slot \in Slots /\ slot < count /\ table[slot] \in Programs
    BY <1>types DEF Typed, Passing, AtSlot, Slots, Programs
  <1>t. \A i \in Slots : table[i] # 0 => table[i] \in Programs /\ (i # slot => table[i] # table[slot])
    BY <1>s, <1>types DEF Typed, Entries, Programs
  <1>1. Starting' /\ Aiming' /\ Entries' /\ LiveEntries'
    BY <1>types, <1>s, <1>t DEF Starting, Programs, StartPcs, Aiming, Ports, Entries, Slots,
       LiveEntries, Typed
  <1>2. Strikes' /\ Passing' /\ Locks' /\ Pointers' /\ FaultsExplained'
    BY <1>types, <1>s, <1>t DEF Strikes, StartPcs, AtEnd, Passing, Slots, Programs, Using, AtSlot,
       Locks, Pointers, FaultsExplained, Typed
  <1>3. Accounted'
    BY <1>types, <1>s, <1>t DEF Accounted, Tabled, Slots, Programs, StartPcs, AtSlot, Typed
  <1>4. Mapped'
    BY <1>types, <1>s, <1>t DEF Mapped, Complete, Under, Directed, Slots, Programs, StartPcs, Typed
  <1> QED BY <1>1, <1>2, <1>3, <1>4

LEMMA OnDisconnectStep ==
  ASSUME IInv, OnDisconnect, UNCHANGED <<mode, directory, portNumber, signals, foreign>>
  PROVE  IInv'
  <1> USE DEF IInv, OnDisconnect, entries, programs, directory, pointers, pass, signals
  <1>1. Starting' /\ Aiming' /\ Entries' /\ LiveEntries'
    BY DEF Starting, StartPcs, Aiming, Entries, LiveEntries
  <1>2. Strikes' /\ Passing' /\ Locks' /\ Pointers' /\ FaultsExplained'
    BY DEF Strikes, StartPcs, AtEnd, Passing, Using, AtSlot, Locks, Pointers, FaultsExplained
  <1>3. Accounted'
    BY DEF Accounted, Tabled, StartPcs
  <1>4. Mapped'
    BY DEF Mapped, Directed
  <1> QED BY <1>1, <1>2, <1>3, <1>4

LEMMA CloseSocketsStep ==
  ASSUME TypeOK, IInv, CloseSockets, UNCHANGED <<mode, directory, portNumber, signals, foreign>>
  PROVE  IInv'
  <1> USE ConstantsOK DEF IInv, CloseSockets, entries, programs, directory, pointers, pass, signals
  <1>types. Typed
    BY TypedOK
  <1>s. slot \in Slots /\ slot < count /\ table[slot] \in Programs
    BY <1>types DEF Typed, Passing, AtSlot, Slots, Programs
  <1>t. \A i \in Slots : table[i] # 0 => table[i] \in Programs /\ (i # slot => table[i] # table[slot])
    BY <1>s, <1>types DEF Typed, Entries, Programs
  <1>u. \A q \in Programs : bound'[q] = IF q = table[slot] THEN 0 ELSE bound[q]
    BY <1>s, <1>types DEF Typed
  <1>1. Starting' /\ Aiming' /\ Entries' /\ LiveEntries'
    BY <1>types, <1>s, <1>t, <1>u DEF Starting, Programs, StartPcs, Aiming, Ports, Entries, Slots,
       LiveEntries, Typed
  <1>2. Strikes' /\ Passing' /\ Locks' /\ Pointers' /\ FaultsExplained'
    BY <1>types, <1>s, <1>t, <1>u DEF Strikes, StartPcs, AtEnd, Passing, Slots, Programs, Using, AtSlot,
       Locks, Pointers, FaultsExplained, Typed
  <1>3. Accounted'
    BY <1>types, <1>s, <1>t, <1>u DEF Accounted, Tabled, Slots, Programs, StartPcs, AtSlot, Typed
  <1>4. Mapped'
    BY <1>types, <1>s, <1>t, <1>u DEF Mapped, Complete, Under, Directed, Slots, Programs, StartPcs,
       Typed
  <1> QED BY <1>1, <1>2, <1>3, <1>4

LEMMA UnlockClientsStep ==
  ASSUME TypeOK, IInv, UnlockClients, UNCHANGED <<mode, directory, portNumber, signals, foreign>>
  PROVE  IInv'
  <1> USE ConstantsOK DEF IInv, UnlockClients, entries, programs, directory, pointers, pass, signals
  <1>types. Typed
    BY TypedOK
  <1>s. slot \in Slots /\ slot < count /\ table[slot] \in Programs
    BY <1>types DEF Typed, Passing, AtSlot, Slots, Programs
  <1>t. \A i \in Slots : table[i] # 0 => table[i] \in Programs /\ (i # slot => table[i] # table[slot])
    BY <1>s, <1>types DEF Typed, Entries, Programs
  <1>u. \A q \in Programs : memory'[q] = IF q = table[slot] THEN "closed" ELSE memory[q]
    BY <1>s, <1>types DEF Typed
  <1>1. Starting'
    BY <1>types, <1>s, <1>u DEF Starting, Entries, Passing, Slots, Programs, StartPcs, Using, AtSlot, AtEnd, Typed
  <1>2. Aiming' /\ Entries' /\ LiveEntries'
    BY <1>types, <1>s, <1>t, <1>u DEF Aiming, Programs, Ports, StartPcs, Entries, Slots, LiveEntries,
       Typed
  <1>3. Strikes' /\ Passing' /\ Locks' /\ Pointers' /\ FaultsExplained'
    BY <1>types, <1>s, <1>t, <1>u DEF Strikes, StartPcs, AtEnd, Passing, Slots, Programs, Using, AtSlot,
       Locks, Pointers, FaultsExplained, Typed
  <1>4. Accounted'
    BY <1>types, <1>s, <1>t, <1>u DEF Accounted, Tabled, Slots, Programs, StartPcs, AtSlot, Typed
  <1>5. Mapped'
    BY <1>types, <1>s, <1>t, <1>u DEF Mapped, Complete, Under, Directed, Slots, Programs, StartPcs,
       Typed
  <1> QED BY <1>1, <1>2, <1>3, <1>4, <1>5

LEMMA FreeProgramStep ==
  ASSUME TypeOK, IInv, FreeProgram, UNCHANGED <<mode, directory, portNumber, signals, foreign>>
  PROVE  IInv'
  <1> USE ConstantsOK DEF IInv, FreeProgram, entries, programs, directory, pointers, pass, signals
  <1>types. Typed
    BY TypedOK
  <1>s. slot \in Slots /\ slot < count /\ table[slot] \in Programs
    BY <1>types DEF Typed, Passing, AtSlot, Slots, Programs
  <1>t. \A i \in Slots : table[i] # 0 => table[i] \in Programs /\ (i # slot => table[i] # table[slot])
    BY <1>s, <1>types DEF Typed, Entries, Programs
  <1>u. \A q \in Programs : memory'[q] = IF q = table[slot] THEN "freed" ELSE memory[q]
    BY <1>s, <1>types DEF Typed
  <1>1. Starting'
    BY <1>types, <1>s, <1>u DEF Starting, Entries, Passing, Slots, Programs, StartPcs, Using, AtSlot, AtEnd, Typed
  <1>2. Aiming' /\ Entries' /\ LiveEntries'
    BY <1>types, <1>s, <1>t, <1>u DEF Aiming, Programs, Ports, StartPcs, Entries, Slots, LiveEntries,
       Typed
  <1>3. Strikes' /\ Passing' /\ Locks' /\ Pointers' /\ FaultsExplained'
    BY <1>types, <1>s, <1>t, <1>u DEF Strikes, StartPcs, AtEnd, Passing, Slots, Programs, Using, AtSlot,
       Locks, Pointers, FaultsExplained, Typed
  <1>4. Accounted'
    BY <1>types, <1>s, <1>t, <1>u DEF Accounted, Tabled, Slots, Programs, StartPcs, AtSlot, Typed
  <1>5. Mapped'
    BY <1>types, <1>s, <1>t, <1>u DEF Mapped, Complete, Under, Directed, Slots, Programs, StartPcs,
       Typed
  <1> QED BY <1>1, <1>2, <1>3, <1>4, <1>5

LEMMA ForgetProgramStep ==
  ASSUME TypeOK, IInv, ForgetProgram, UNCHANGED <<mode, directory, portNumber, signals, foreign>>
  PROVE  IInv'
  <1> USE ConstantsOK DEF IInv, ForgetProgram, entries, programs, directory, pointers, pass, signals
  <1>types. Typed
    BY TypedOK
  <1>s. slot \in Slots /\ slot < count /\ table[slot] \in Programs
    BY <1>types DEF Typed, Passing, AtSlot, Slots, Programs
  <1>t. \A i \in Slots : table[i] # 0 => table[i] \in Programs /\ (i # slot => table[i] # table[slot])
    BY <1>s, <1>types DEF Typed, Entries, Programs
  <1>u. \A i \in Slots : table'[i] = IF i = slot THEN 0 ELSE table[i]
    BY <1>s, <1>types DEF Typed
  <1>1. Starting' /\ Aiming' /\ Entries' /\ LiveEntries'
    BY <1>types, <1>s, <1>t, <1>u DEF Starting, Programs, StartPcs, Aiming, Ports, Entries, Slots,
       LiveEntries, Typed
  <1>2. Strikes'
    BY <1>types, <1>s, <1>t, <1>u DEF Strikes, StartPcs, AtEnd, Typed
  <1>3. Passing'
    BY <1>types, <1>s, <1>t, <1>u DEF Passing, Slots, Programs, Using, AtSlot, AtEnd, Typed
  <1>4. Locks'
    BY <1>types, <1>s, <1>t, <1>u DEF Locks, Slots, Programs, Using, AtSlot, Typed
  <1>5. Pointers'
    BY <1>types, <1>s, <1>t, <1>u DEF Pointers, Typed
  <1>6. FaultsExplained'
    BY <1>types, <1>s, <1>t, <1>u DEF FaultsExplained, Slots, Programs, Using, AtSlot, Typed
  <1>7. Accounted'
    BY <1>types, <1>s, <1>t, <1>u DEF Accounted, Tabled, Passing, Starting, Entries, Strikes, Slots,
       Programs, StartPcs, AtSlot, Typed
  <1>8. Mapped'
    BY <1>types, <1>s, <1>t, <1>u DEF Mapped, Complete, Under, Directed, Slots, Programs, StartPcs,
       Typed
  <1> QED BY <1>1, <1>2, <1>3, <1>4, <1>5, <1>6, <1>7, <1>8

LEMMA PassEndsStep ==
  ASSUME TypeOK, IInv, PassEnds, UNCHANGED <<mode, directory, portNumber, signals, foreign>>
  PROVE  IInv'
  <1> USE ConstantsOK DEF IInv, PassEnds, entries, programs, directory, pointers, pass, signals
  <1>types. Typed
    BY TypedOK
  <1>s. count <= slot /\ \A i \in Slots : i < count => i < slot
    BY <1>types DEF Typed, Slots
  <1>t. errand # "use" => \A i \in Slots : i < count => table[i] = 0
    BY <1>s DEF Passing
  <1>1. Entries'
    <2>1. errand = "stop" => struck = {}
      BY DEF Strikes
    <2>2. errand = "stop" => \A i \in Slots : table[i] = 0
      BY <1>types, <1>t, <2>1 DEF Typed, Entries, Slots
    <2> QED BY <2>2 DEF Entries, StartPcs
  <1>2. Starting' /\ Aiming' /\ LiveEntries'
    BY <1>types, <1>s, <1>t DEF Starting, Programs, StartPcs, Aiming, Ports, LiveEntries, Slots, Typed
  <1>3. Passing'
    <2>1. pc' = "idle" \/ (pc' = "machine" /\ errand = "exit" /\ count' = count)
      OBVIOUS
    <2> QED BY <1>t, <2>1 DEF Passing, Using, AtSlot, AtEnd
  <1>4. Strikes' /\ Locks' /\ Pointers' /\ FaultsExplained'
    BY <1>types, <1>s, <1>t DEF Strikes, StartPcs, AtEnd, Locks, Slots, Programs, Using, AtSlot,
       Pointers, FaultsExplained, Typed
  <1>5. Accounted'
    BY <1>types, <1>s, <1>t DEF Accounted, Tabled, Slots, Programs, StartPcs, AtSlot, Typed
  <1>6. Mapped'
    BY <1>types, <1>s, <1>t DEF Mapped, Complete, Under, Directed, Slots, Programs, StartPcs, Typed
  <1> QED BY <1>1, <1>2, <1>3, <1>4, <1>5, <1>6

LEMMA FreeMachineStep ==
  ASSUME TypeOK, IInv, FreeMachine, UNCHANGED <<mode, directory, portNumber, signals, foreign>>
  PROVE  IInv'
  <1> USE ConstantsOK DEF IInv, FreeMachine, entries, programs, directory, pointers, pass, signals
  <1>types. Typed
    BY TypedOK
  <1>1. Starting' /\ Aiming' /\ Entries' /\ LiveEntries'
    BY <1>types DEF Starting, Programs, StartPcs, Aiming, Ports, Entries, Slots, LiveEntries, Typed
  <1>2. Strikes' /\ Passing' /\ Locks' /\ Pointers' /\ FaultsExplained'
    BY <1>types DEF Strikes, StartPcs, AtEnd, Passing, Slots, Programs, Using, AtSlot, Locks, Pointers,
       FaultsExplained, Typed
  <1>3. Accounted'
    BY <1>types DEF Accounted, Tabled, Slots, Programs, StartPcs, AtSlot, Typed
  <1>4. Mapped'
    BY <1>types DEF Mapped, Complete, Under, Directed, Slots, Programs, StartPcs, Typed
  <1> QED BY <1>1, <1>2, <1>3, <1>4

LEMMA FreeContextStep ==
  ASSUME TypeOK, IInv, FreeContext, UNCHANGED <<mode, directory, portNumber, signals, foreign>>
  PROVE  IInv'
  <1> USE ConstantsOK DEF IInv, FreeContext, entries, programs, directory, pointers, pass, signals
  <1>types. Typed
    BY TypedOK
  <1>1. Starting' /\ Aiming' /\ Entries' /\ LiveEntries'
    BY <1>types DEF Starting, Programs, StartPcs, Aiming, Ports, Entries, Slots, LiveEntries, Typed
  <1>2. Strikes' /\ Passing' /\ Locks' /\ Pointers' /\ FaultsExplained'
    BY <1>types DEF Strikes, StartPcs, AtEnd, Passing, Slots, Programs, Using, AtSlot, Locks, Pointers,
       FaultsExplained, Typed
  <1>3. Accounted'
    BY <1>types DEF Accounted, Tabled, Slots, Programs, StartPcs, AtSlot, Typed
  <1>4. Mapped'
    BY <1>types DEF Mapped, Complete, Under, Directed, Slots, Programs, StartPcs, Typed
  <1> QED BY <1>1, <1>2, <1>3, <1>4

-----------------------------------------------------------------------------
(* Commands, lines, passes and entries.                                    *)
(* A pass begins at the first slot with nothing behind it.                 *)
LEMMA BeginPassStep ==
  ASSUME IInv, pc = "idle", NEW e \in {"use", "stop", "exit"}, BeginPass(e),
         mode \in {"interactive", "config", "loop"},
         UNCHANGED <<mode, entries, programs, held, mappings, pointers, signals>>
  PROVE  IInv'
  <1> USE DEF IInv, BeginPass, entries, programs, pointers, signals
  <1>1. Starting' /\ Aiming' /\ Entries' /\ LiveEntries'
    BY DEF Starting, Aiming, Entries, LiveEntries, StartPcs
  <1>2. Strikes' /\ Locks' /\ FaultsExplained'
    BY DEF Strikes, StartPcs, Locks, Using, FaultsExplained
  <1>3. Pointers'
    BY DEF Pointers
  <1>4. Passing'
    <2>1. \A i \in Slots : ~(i < slot')
      BY DEF Slots
    <2> QED BY <2>1 DEF Passing, Using, AtSlot, AtEnd
  <1>5. Accounted'
    BY DEF Accounted, Tabled, StartPcs
  <1>6. Mapped'
    BY DEF Mapped, Directed
  <1> QED BY <1>1, <1>2, <1>3, <1>4, <1>5, <1>6

(* A step that touches neither programs, table nor pass.                   *)
LEMMA IdleStep ==
  ASSUME IInv, UNCHANGED <<mode, pc, entries, programs, held, mappings, pointers, pass, signals>>
  PROVE  IInv'
  <1> USE DEF IInv, entries, programs, pointers, pass, signals
  <1>1. Starting' /\ Aiming' /\ Entries' /\ LiveEntries'
    BY DEF Starting, Aiming, Entries, LiveEntries
  <1>2. Strikes'
    BY DEF Strikes
  <1>7. Passing'
    BY DEF Passing
  <1>8. Pointers'
    BY DEF Pointers
  <1>5. Locks'
    BY DEF Locks
  <1>6. FaultsExplained'
    BY DEF FaultsExplained
  <1>3. Accounted'
    BY DEF Accounted, Tabled
  <1>4. Mapped'
    BY DEF Mapped, Complete, Under, Directed
  <1> QED BY <1>1, <1>2, <1>3, <1>4, <1>5, <1>6, <1>7, <1>8

LEMMA AllocateStep ==
  ASSUME TypeOK, IInv, pc = "idle", Allocate,
         UNCHANGED <<entries, held, pointers, pass, signals>>
  PROVE  /\ Starting' /\ Aiming' /\ Entries' /\ LiveEntries' /\ Strikes' /\ Passing' /\ Locks'
         /\ Pointers' /\ FaultsExplained' /\ Accounted' /\ struck = {} /\ errand # "exit"
         /\ \A i \in Slots : table[i] # 0 => label'[table[i]] = label[table[i]]
  <1> USE ConstantsOK DEF IInv, Allocate, entries, pointers, pass, signals
  <1>types. Typed
    BY TypedOK
  <1>s. /\ started' = started + 1 /\ started \in Nat /\ started + 1 \in Programs
        /\ memory[started + 1] = "none" /\ struck = {} /\ errand # "exit" /\ struck' = {}
    BY <1>types DEF Typed, Programs, Starting, Strikes
  <1>t. \A i \in Slots : table[i] # 0 => table[i] \in Programs /\ table[i] <= started
    BY <1>types, <1>s DEF Typed, Programs, Entries, Starting
  <1>u. /\ memory' \in [Programs -> {"none", "new", "live", "closed", "freed"}]
        /\ \A q \in Programs : memory'[q] = IF q = started + 1 THEN "new" ELSE memory[q]
        /\ \A q \in Programs : q # started + 1 => label'[q] = label[q]
    BY <1>types, <1>s DEF Typed
  <1>1. Starting'
    BY <1>s, <1>u DEF Starting, StartPcs, Programs
  <1>2. Entries'
    BY <1>s, <1>t, <1>u DEF Entries, StartPcs
  <1>3. LiveEntries'
    BY <1>s, <1>t, <1>u DEF LiveEntries
  <1>4. Strikes'
    BY <1>s DEF Strikes
  <1>5. Passing'
    BY DEF Passing, Using, AtSlot, AtEnd
  <1>6. Locks'
    BY DEF Locks, Using
  <1>7. Pointers'
    BY DEF Pointers
  <1>8. FaultsExplained'
    BY DEF FaultsExplained
  <1>9. Accounted'
    <2>1. \A p \in Programs : p <= started + 1 => p <= started \/ p = started + 1
      BY <1>s DEF Programs
    <2>2. \A p \in Programs : Tabled(p) <=> Tabled(p)'
      BY DEF Tabled
    <2>3. ASSUME NEW p \in Programs, p <= started
          PROVE  (memory'[p] = "freed" /\ bound'[p] = 0) \/ Tabled(p)
      BY <1>s, <1>u, <2>3 DEF Accounted, StartPcs, Programs
    <2> QED BY <1>s, <2>1, <2>2, <2>3 DEF Accounted, StartPcs
  <1>10. \A i \in Slots : table[i] # 0 => label'[table[i]] = label[table[i]]
    BY <1>s, <1>t, <1>u
  <1>11. Aiming'
    BY <1>types, <1>s DEF Aiming, Typed
  <1> QED BY <1>1, <1>2, <1>3, <1>4, <1>5, <1>6, <1>7, <1>8, <1>9, <1>10, <1>11, <1>s

LEMMA StartNetworkStep ==
  ASSUME TypeOK, IInv, StartNetwork, pc = "idle", UNCHANGED <<entries, held, context, signals, foreign>>
  PROVE  IInv'
  <1>1. Allocate /\ UNCHANGED <<entries, held, pointers, pass, signals>>
    BY DEF StartNetwork, pointers
  <1>2. Mapped'
    BY DEF StartNetwork, Mapped, Directed
  <1> QED BY <1>1, <1>2, AllocateStep DEF IInv

(* A mapping is added only if its ports are in no other.                   *)
LEMMA MappingStep ==
  ASSUME TypeOK, IInv, pc = "idle", Directed,
         NEW host, NEW container, AddPortMapping(host, container),
         UNCHANGED <<mode, entries, held, pointers, pass, signals>>
  PROVE  IInv'
  <1>1. /\ Starting' /\ Aiming' /\ Entries' /\ LiveEntries' /\ Strikes' /\ Passing' /\ Locks'
        /\ Pointers' /\ FaultsExplained' /\ Accounted' /\ struck = {} /\ errand # "exit"
        /\ \A i \in Slots : table[i] # 0 => label'[table[i]] = label[table[i]]
    BY AllocateStep DEF AddPortMapping, IInv
  <1>2. Mapped'
    <2> DEFINE m == [host |-> host, container |-> container]
    <2>1. /\ mappings \in Seq(Mappings) /\ count \in 0 .. MaxPrograms
          /\ mappings' = Append(mappings, m) /\ pc' = "find" /\ UNCHANGED <<count, table, struck, errand, mode>>
      BY DEF TypeOK, AddPortMapping, Allocate, entries, pass, signals
    <2>2. Complete = count /\ Under = 0 /\ Complete' = count /\ Under' = 1
      BY <2>1 DEF Complete, Under, StartPcs
    <2>3. Len(mappings) = count /\ Len(mappings') = count + 1
      BY <2>1, <2>2 DEF IInv, Mapped
    <2>4. /\ \A k \in 1 .. count : mappings'[k] = mappings[k]
          /\ mappings'[count + 1] = m
      BY <2>1, <2>3
    <2>5. \A k \in 1 .. count : k - 1 \in Slots
      BY <2>1, ConstantsOK DEF Slots
    <2>6. \A k \in 1 .. count : table[k - 1] # 0 /\ label'[table[k - 1]] = mappings'[k].container
      BY <1>1, <2>2, <2>4, <2>5 DEF IInv, Mapped
    <2>7. ASSUME NEW k \in 1 .. count
          PROVE  {host, container} \cap {mappings[k].host, mappings[k].container} = {}
      <3>1. k \in DOMAIN mappings
        BY <2>1, <2>3
      <3> QED BY <3>1 DEF AddPortMapping, Mappable, Unmapped
    <2>8. ASSUME NEW j \in 1 .. count + 1, NEW k \in 1 .. count + 1, j # k
          PROVE  {mappings'[j].host, mappings'[j].container}
                   \cap {mappings'[k].host, mappings'[k].container} = {}
      <3>1. (j = count + 1 \/ j \in 1 .. count) /\ (k = count + 1 \/ k \in 1 .. count)
        BY <2>1
      <3>2. CASE j \in 1 .. count /\ k \in 1 .. count
        <4>1. j \in DOMAIN mappings /\ k \in DOMAIN mappings
          BY <2>1, <2>3, <3>2
        <4> QED BY <2>4, <2>8, <3>2, <4>1 DEF IInv, Mapped
      <3>3. CASE j = count + 1 /\ k \in 1 .. count
        BY <2>4, <2>7, <3>3
      <3>4. CASE k = count + 1 /\ j \in 1 .. count
        BY <2>4, <2>7, <3>4
      <3> QED BY <2>8, <3>1, <3>2, <3>3, <3>4
    <2>9. DOMAIN mappings' = 1 .. count + 1
      BY <2>1, <2>3
    <2>10. pc' \in StartPcs /\ pc' \notin {"stored", "counted"}
      BY <2>1 DEF StartPcs
    <2> QED BY <2>1, <2>2, <2>3, <2>6, <2>8, <2>9, <2>10 DEF IInv, Mapped, Directed
  <1> QED BY <1>1, <1>2 DEF IInv

LEMMA ServerLineStep ==
  ASSUME TypeOK, IInv, NEW line \in Lines, ServerLine(line), pc = "idle",
         UNCHANGED <<entries, held, context, signals, foreign>>
  PROVE  IInv'
  <1>1. PICK host, container : AddPortMapping(host, container)
    BY DEF ServerLine
  <1>2. Directed /\ UNCHANGED <<mode, entries, held, pointers, pass, signals>>
    BY DEF ServerLine, Directed, pointers
  <1> QED BY <1>1, <1>2, MappingStep

LEMMA DiscoverServiceStep ==
  ASSUME TypeOK, IInv, NEW d \in DOMAIN Directories, DiscoverService(d), pc = "idle",
         UNCHANGED <<entries, held, context, signals, foreign>>
  PROVE  IInv'
  <1>1. Directed /\ UNCHANGED <<mode, entries, held, pointers, pass, signals>>
    BY DEF DiscoverService, Directed, pointers
  <1>2. \/ \E host, container : AddPortMapping(host, container)
        \/ UNCHANGED <<mappings, programs, pc>>
    BY DEF DiscoverService
  <1>3. CASE \E host, container : AddPortMapping(host, container)
    BY <1>1, <1>3, MappingStep
  <1>4. CASE UNCHANGED <<mappings, programs, pc>>
    BY <1>1, <1>4, IdleStep
  <1> QED BY <1>2, <1>3, <1>4

LEMMA CmdInitStep ==
  ASSUME TypeOK, IInv, CmdInit, pc = "idle", UNCHANGED <<entries, held, context, signals, foreign>>
  PROVE  IInv'
  <1> USE ConstantsOK DEF IInv, CmdInit, entries, programs, directory, pointers, pass, signals
  <1>types. Typed
    BY TypedOK
  <1>1. Starting' /\ Aiming' /\ Entries' /\ LiveEntries'
    BY <1>types DEF Starting, Programs, StartPcs, Aiming, Ports, Entries, Slots, LiveEntries, Typed
  <1>2. Strikes' /\ Passing' /\ Locks' /\ Pointers' /\ FaultsExplained'
    BY <1>types DEF Strikes, StartPcs, AtEnd, Passing, Slots, Programs, Using, AtSlot, Locks, Pointers,
       FaultsExplained, Typed
  <1>3. Accounted'
    BY <1>types DEF Accounted, Tabled, Slots, Programs, StartPcs, AtSlot, Typed
  <1>4. Mapped'
    BY <1>types DEF Mapped, Complete, Under, Directed, Slots, Programs, StartPcs, Typed
  <1> QED BY <1>1, <1>2, <1>3, <1>4

LEMMA BlankLineStep ==
  ASSUME TypeOK, IInv, BlankLine, pc = "idle", UNCHANGED <<entries, held, context, signals, foreign>>
  PROVE  IInv'
  <1> USE ConstantsOK DEF IInv, BlankLine, entries, programs, directory, pointers, pass, signals
  <1>types. Typed
    BY TypedOK
  <1>1. Starting' /\ Aiming' /\ Entries' /\ LiveEntries'
    BY <1>types DEF Starting, Programs, StartPcs, Aiming, Ports, Entries, Slots, LiveEntries, Typed
  <1>2. Strikes' /\ Passing' /\ Locks' /\ Pointers' /\ FaultsExplained'
    BY <1>types DEF Strikes, StartPcs, AtEnd, Passing, Slots, Programs, Using, AtSlot, Locks, Pointers,
       FaultsExplained, Typed
  <1>3. Accounted'
    BY <1>types DEF Accounted, Tabled, Slots, Programs, StartPcs, AtSlot, Typed
  <1>4. Mapped'
    BY <1>types DEF Mapped, Complete, Under, Directed, Slots, Programs, StartPcs, Typed
  <1> QED BY <1>1, <1>2, <1>3, <1>4

LEMMA EndOfInputStep ==
  ASSUME TypeOK, IInv, EndOfInput, pc = "idle", UNCHANGED <<entries, held, context, signals, foreign>>
  PROVE  IInv'
  <1> USE ConstantsOK DEF IInv, EndOfInput, entries, programs, directory, pointers, pass, signals
  <1>types. Typed
    BY TypedOK
  <1>1. Starting' /\ Aiming' /\ Entries' /\ LiveEntries'
    BY <1>types DEF Starting, Programs, StartPcs, Aiming, Ports, Entries, Slots, LiveEntries, Typed
  <1>2. Strikes' /\ Passing' /\ Locks' /\ Pointers' /\ FaultsExplained'
    BY <1>types DEF Strikes, StartPcs, AtEnd, Passing, Slots, Programs, Using, AtSlot, Locks, Pointers,
       FaultsExplained, Typed
  <1>3. Accounted'
    BY <1>types DEF Accounted, Tabled, Slots, Programs, StartPcs, AtSlot, Typed
  <1>4. Mapped'
    BY <1>types DEF Mapped, Complete, Under, Directed, Slots, Programs, StartPcs, Typed
  <1> QED BY <1>1, <1>2, <1>3, <1>4

-----------------------------------------------------------------------------
(* A signal: only the place it struck is left of what was going on.        *)
LEMMA SignalStep ==
  ASSUME TypeOK, IInv, NEW s \in Signals, Signal(s)
  PROVE  IInv'
  <1> USE ConstantsOK DEF IInv, Signal, BeginPass, entries, programs, directory, pointers, pass, signals
  <1>types. Typed
    BY TypedOK
  <1>1. Starting' /\ Aiming' /\ Entries' /\ LiveEntries'
    BY <1>types DEF Starting, Programs, StartPcs, Aiming, Ports, Entries, Slots, LiveEntries, Typed
  <1>2. Passing'
    <2>1. \A i \in Slots : ~(i < slot')
      BY DEF Slots
    <2> QED BY <2>1 DEF Passing, Using, AtSlot, AtEnd
  <1>3. Strikes' /\ Locks' /\ Pointers' /\ FaultsExplained'
    BY <1>types DEF Strikes, StartPcs, AtEnd, Locks, Slots, Programs, Using, AtSlot, Pointers,
       FaultsExplained, Typed
  <1>4. Accounted'
    BY <1>types DEF Accounted, Tabled, Slots, Programs, StartPcs, AtSlot, Typed
  <1>5. Mapped'
    BY <1>types DEF Mapped, Complete, Under, Directed, Slots, Programs, StartPcs, Typed
  <1> QED BY <1>1, <1>2, <1>3, <1>4, <1>5

-----------------------------------------------------------------------------
(* Types.                                                                  *)
TablesTyped ==
  /\ table \in [Slots -> 0 .. MaxStarted] /\ count \in 0 .. MaxPrograms
  /\ started \in 0 .. MaxStarted /\ slot \in 0 .. MaxPrograms /\ held \subseteq Programs
  /\ memory \in [Programs -> {"none", "new", "live", "closed", "freed"}]
  /\ bound \in [Programs -> {0} \cup Ports] /\ label \in [Programs -> Nat]

Pcs == {"idle"} \cup StartPcs \cup PassPcs \cup Ends

ControlTyped ==
  /\ mode \in {"interactive", "config", "loop", "file", "discover", "returned"}
  /\ pc \in Pcs /\ errand \in {"use", "stop", "exit"}
  /\ machine \in {"null", "live", "freed"} /\ context \in {"null", "live", "freed"}
  /\ handling \subseteq Signals /\ struck \subseteq {"idle", "blocked"} \cup StartPcs \cup PassPcs
  /\ foreign \subseteq Ports

DirectoryTyped ==
  /\ mappings \in Seq(Mappings) /\ Len(mappings) <= MaxPorts
  /\ found \in Nat /\ unread \subseteq DOMAIN Directories /\ portNumber \in Nat

LEMMA TypeParts == TypeOK <=> TablesTyped /\ ControlTyped /\ DirectoryTyped
  BY DEF TypeOK, TablesTyped, ControlTyped, DirectoryTyped, Pcs

LEMMA TypePartsNext == TypeOK' <=> TablesTyped' /\ ControlTyped' /\ DirectoryTyped'
  BY DEF TypeOK, TablesTyped, ControlTyped, DirectoryTyped, Pcs

LEMMA StartTyped ==
  ASSUME TypeOK, IInv, Start
  PROVE  TypeOK'
  <1> USE ConstantsOK, TypeParts DEF IInv, entries, programs, directory, pointers, pass, signals
  <1>1. started \in Programs /\ pc \in StartPcs
    BY DEF Start, FindPort, ProbePort, BindPort, StartFails, Register, Registered, Starting, StartPcs
  <1>2. ControlTyped'
    BY DEF ControlTyped, Start, FindPort, ProbePort, BindPort, StartFails, Register, Registered,
       Pcs, StartPcs, Ends
  <1>3. Directed => mappings \in Seq(Mappings) /\ Len(mappings) \in 1 .. MaxPorts
    <2>1. Under = 1 /\ Complete \in Nat
      BY <1>1 DEF Under, Complete, TablesTyped, Entries
    <2> QED BY <2>1 DEF Mapped, DirectoryTyped
  <1>4. DirectoryTyped'
    <2>1. CASE mappings' = mappings
      BY <2>1 DEF DirectoryTyped, Start, FindPort, ProbePort, BindPort, StartFails, Register, Registered
    <2>2. CASE Directed /\ mappings' = SubSeq(mappings, 1, Len(mappings) - 1)
      <3>1. mappings' \in Seq(Mappings) /\ Len(mappings') <= MaxPorts
        BY <1>3, <2>2
      <3> QED BY <3>1 DEF DirectoryTyped, Start, FindPort, ProbePort, BindPort, StartFails, Register, Registered
    <2> QED BY <2>1, <2>2 DEF Start, FindPort, ProbePort, BindPort, StartFails, Register, Registered
  <1>5. TablesTyped'
    <2> USE DEF TablesTyped, Start
    <2>1. CASE FindPort \/ ProbePort \/ StartFails
      BY <1>1, <2>1 DEF FindPort, ProbePort, StartFails
    <2>2. CASE BindPort
      <3>1. label[started] \in Ports
        BY <2>2 DEF BindPort, Aiming
      <3> QED BY <1>1, <2>2, <3>1 DEF BindPort
    <2>3. CASE Register
      <3>1. Directed => mappings[Len(mappings)].container \in Nat
        <4>1. ASSUME mappings \in Seq(Mappings), Len(mappings) \in 1 .. MaxPorts
              PROVE  mappings[Len(mappings)] \in Mappings
          BY <4>1
        <4> QED BY <1>3, <4>1 DEF Mappings
      <3>2. portNumber \in Nat
        BY DEF DirectoryTyped
      <3>3. label' \in [Programs -> Nat]
        <4> DEFINE v == IF Directed THEN mappings[Len(mappings)].container
                        ELSE IF mode = "config" THEN portNumber ELSE label[started]
        <4>1. v \in Nat
          BY <1>1, <3>1, <3>2
        <4>2. label' = [label EXCEPT ![started] = v]
          BY <2>3 DEF Register, Labelled
        <4>3. label \in [Programs -> Nat]
          OBVIOUS
        <4> HIDE DEF v
        <4> QED BY <4>1, <4>2, <4>3
      <3>4. count' \in 0 .. MaxPrograms
        BY <2>3 DEF Register
      <3>5. table' \in [Slots -> 0 .. MaxStarted]
        BY <1>1, <2>3 DEF Register, Programs, Slots
      <3> QED BY <2>3, <3>3, <3>4, <3>5 DEF Register
    <2>4. CASE Registered
      <3>1. pc = "stored" => count + 1 \in 0 .. MaxPrograms
        BY DEF Entries
      <3> QED BY <1>1, <2>4, <3>1 DEF Registered, Programs
    <2> QED BY <2>1, <2>2, <2>3, <2>4
  <1> QED BY <1>2, <1>4, <1>5, TypePartsNext

LEMMA SweepTyped ==
  ASSUME TypeOK, IInv, Sweep
  PROVE  TypeOK'
  <1> USE ConstantsOK, TypeParts DEF IInv, entries, programs, directory, pointers, pass, signals
  <1>1. DirectoryTyped'
    BY DEF DirectoryTyped, Sweep
  <1>2. ControlTyped'
    <2> USE DEF Sweep, ControlTyped, Pcs
    <2>1. CASE \/ NextSlot \/ LockClients \/ ReleaseClients \/ OnDisconnect \/ CloseSockets
               \/ UnlockClients
      BY <2>1 DEF NextSlot, LockClients, ReleaseClients, OnDisconnect, CloseSockets,
         UnlockClients, PassPcs, Ends
    <2>2. CASE FreeProgram \/ ForgetProgram \/ PassEnds
      BY <2>2 DEF FreeProgram, ForgetProgram, PassEnds, PassPcs
    <2>3. CASE FreeMachine
      BY <2>3 DEF FreeMachine, PassPcs, Ends
    <2>4. CASE FreeContext
      BY <2>4 DEF FreeContext, PassPcs, Ends
    <2> QED BY <2>1, <2>2, <2>3, <2>4
  <1>3. TablesTyped'
    <2> USE DEF TablesTyped, Sweep
    <2>1. ASSUME pc \in AtSlot
          PROVE  slot \in Slots /\ slot + 1 \in 0 .. MaxPrograms /\ table[slot] \in Programs
      BY <2>1 DEF Passing, Slots, Programs
    <2>2. CASE NextSlot
      <3>1. slot + 1 \in 0 .. MaxPrograms
        BY <2>2 DEF NextSlot
      <3> QED BY <2>2, <3>1 DEF NextSlot
    <2>3. CASE LockClients
      <3>1. portNumber \in Nat
        BY DEF DirectoryTyped
      <3>2. table[slot] \in Programs
        BY <2>1, <2>3 DEF LockClients, AtSlot
      <3> QED BY <2>3, <3>1, <3>2 DEF LockClients
    <2>4. CASE ReleaseClients \/ ForgetProgram
      <3>1. slot \in Slots /\ slot + 1 \in 0 .. MaxPrograms
        BY <2>1, <2>4 DEF ReleaseClients, ForgetProgram, AtSlot
      <3> QED BY <2>4, <3>1 DEF ReleaseClients, ForgetProgram
    <2>5. CASE CloseSockets \/ UnlockClients \/ FreeProgram
      <3>1. table[slot] \in Programs
        BY <2>1, <2>5 DEF CloseSockets, UnlockClients, FreeProgram, AtSlot
      <3> QED BY <2>5, <3>1 DEF CloseSockets, UnlockClients, FreeProgram
    <2>6. CASE PassEnds
      BY <2>6 DEF PassEnds
    <2>7. CASE OnDisconnect \/ FreeMachine \/ FreeContext
      BY <2>7 DEF OnDisconnect, FreeMachine, FreeContext
    <2> QED BY <2>2, <2>3, <2>4, <2>5, <2>6, <2>7
  <1> QED BY <1>1, <1>2, <1>3, TypePartsNext

LEMMA AllocateTyped ==
  ASSUME TypeOK, Allocate, UNCHANGED <<entries, held, slot>>
  PROVE  TablesTyped' /\ pc' \in Pcs
  <1>1. started + 1 \in Programs
    BY ConstantsOK, TypeParts DEF Allocate, TablesTyped, Programs
  <1>2. pc' \in Pcs
    BY DEF Allocate, Pcs, StartPcs
  <1>3. PortLow \in Nat /\ started + 1 \in 0 .. MaxStarted
    BY ConstantsOK, <1>1 DEF Programs
  <1> QED BY <1>1, <1>2, <1>3, TypeParts DEF Allocate, TablesTyped, entries

LEMMA Word16Typed == \A n \in Nat : Word16(n) \in Nat /\ Word16(n) < 65536
  BY DEF Word16

LEMMA MappingTyped ==
  ASSUME TypeOK, NEW h \in Nat, NEW c \in Nat, AddPortMapping(Word16(h), Word16(c))
  PROVE  mappings' \in Seq(Mappings) /\ Len(mappings') <= MaxPorts
  <1> DEFINE m == [host |-> Word16(h), container |-> Word16(c)]
  <1>1. /\ Word16(h) \in Nat /\ 0 < Word16(h) /\ Word16(h) < 65536
        /\ Word16(c) \in Nat /\ 0 < Word16(c) /\ Word16(c) < 65536
    BY Word16Typed DEF AddPortMapping, Mappable
  <1>2. m \in Mappings
    BY <1>1 DEF Mappings
  <1>3. mappings' = Append(mappings, m) /\ Len(mappings) < MaxPorts
    BY DEF AddPortMapping, Mappable
  <1> HIDE DEF m
  <1> QED BY <1>2, <1>3, ConstantsOK, TypeParts DEF DirectoryTyped

LEMMA TaskTyped ==
  ASSUME TypeOK, Task
  PROVE  TypeOK'
  <1> USE ConstantsOK, TypeParts DEF entries, programs, directory, signals, pass
  <1>1. UNCHANGED <<entries, held, context, signals, foreign>>
    BY DEF Task
  <1>2. CASE StartNetwork
    <2>1. TablesTyped' /\ pc' \in Pcs
      BY <1>1, <1>2, AllocateTyped DEF StartNetwork
    <2> QED BY <1>1, <1>2, <2>1, TypePartsNext DEF StartNetwork, ControlTyped, DirectoryTyped
  <1>3. CASE StopNetwork \/ UseClients \/ Leave
    <2>1. /\ pc' = "next" /\ slot' = 0 /\ errand' \in {"use", "stop", "exit"}
          /\ UNCHANGED <<mode, programs, directory, portNumber, machine>>
      BY <1>3 DEF StopNetwork, UseClients, Leave, BeginPass
    <2>2. TablesTyped'
      BY <1>1, <2>1 DEF TablesTyped
    <2> QED BY <1>1, <2>1, <2>2, TypePartsNext DEF ControlTyped, DirectoryTyped, Pcs, PassPcs
  <1>4. CASE CmdInit \/ BlankLine \/ EndOfInput
    <2>1. TablesTyped' /\ DirectoryTyped'
      BY <1>1, <1>4 DEF CmdInit, BlankLine, EndOfInput, TablesTyped, DirectoryTyped
    <2> QED BY <1>1, <1>4, <2>1, TypePartsNext DEF CmdInit, BlankLine, EndOfInput, ControlTyped, Pcs, Ends
  <1>5. ASSUME NEW line \in Lines, PortLine(line)
        PROVE  TypeOK'
    <2>1. line.container \in Nat
      OBVIOUS
    <2>2. portNumber' \in Nat
      <3>1. portNumber' = Word16(line.container)
        BY <1>5 DEF PortLine
      <3>2. Word16(line.container) \in Nat
        BY <2>1, Word16Typed
      <3> QED BY <3>1, <3>2
    <2> QED BY <1>1, <1>5, <2>2, TypePartsNext DEF PortLine, TablesTyped, ControlTyped, DirectoryTyped
  <1>6. ASSUME NEW line \in Lines, ServerLine(line)
        PROVE  TypeOK'
    <2>1. line.host \in Nat /\ line.container \in Nat
      OBVIOUS
    <2>2. mappings' \in Seq(Mappings) /\ Len(mappings') <= MaxPorts
      BY <1>6, <2>1, MappingTyped DEF ServerLine
    <2>3. TablesTyped' /\ pc' \in Pcs
      BY <1>1, <1>6, AllocateTyped DEF ServerLine, AddPortMapping
    <2> QED BY <1>1, <1>6, <2>2, <2>3, TypePartsNext DEF ServerLine, ControlTyped, DirectoryTyped
  <1>7. ASSUME NEW d \in DOMAIN Directories, DiscoverService(d)
        PROVE  TypeOK'
    <2> DEFINE h == IF Directories[d].host = Default THEN HostBase + found ELSE Directories[d].host
               c == IF Directories[d].container = Default THEN ContainerBase + found
                                                          ELSE Directories[d].container
    <2>1. h \in Nat /\ c \in Nat
      <3>1. Directories[d].host \in Nat \cup {Default} /\ Directories[d].container \in Nat \cup {Default}
        OBVIOUS
      <3>2. HostBase + found \in Nat /\ ContainerBase + found \in Nat
        BY DEF DirectoryTyped
      <3> QED BY <3>1, <3>2
    <2>2. \/ AddPortMapping(Word16(h), Word16(c))
          \/ UNCHANGED <<mappings, programs, pc>>
      BY <1>7 DEF DiscoverService
    <2>3. /\ unread' \subseteq DOMAIN Directories
          /\ UNCHANGED <<mode, found, portNumber, machine, pass>>
      BY <1>7 DEF DiscoverService, DirectoryTyped
    <2> HIDE DEF h, c
    <2>4. TablesTyped' /\ pc' \in Pcs
      BY <1>1, <2>2, <2>3, AllocateTyped DEF AddPortMapping, TablesTyped, ControlTyped
    <2>5. mappings' \in Seq(Mappings) /\ Len(mappings') <= MaxPorts
      BY <2>1, <2>2, MappingTyped DEF DirectoryTyped
    <2> QED BY <1>1, <2>3, <2>4, <2>5, TypePartsNext DEF ControlTyped, DirectoryTyped
  <1> QED BY <1>2, <1>3, <1>4, <1>5, <1>6, <1>7 DEF Task

LEMMA TypeStep ==
  ASSUME TypeOK, IInv, [Next]_vars
  PROVE  TypeOK'
  <1> USE ConstantsOK, TypeParts DEF entries, programs, directory, pointers, pass, signals
  <1>1. ASSUME NEW s \in Signals, Signal(s)
        PROVE  TypeOK'
    <2>1. pc \in {"idle", "blocked"} \cup StartPcs \cup PassPcs
      BY <1>1 DEF Signal, ControlTyped, Pcs, Ends
    <2>2. ControlTyped'
      BY <1>1, <2>1 DEF Signal, BeginPass, ControlTyped, Pcs, PassPcs
    <2> QED BY <1>1, <2>2, TypePartsNext DEF Signal, BeginPass, TablesTyped, DirectoryTyped
  <1>2. ASSUME NEW port \in Ports, OtherProcess(port)
        PROVE  TypeOK'
    BY <1>2, TypePartsNext DEF OtherProcess, TablesTyped, ControlTyped, DirectoryTyped
  <1>3. CASE UNCHANGED vars
    BY <1>3, TypePartsNext DEF vars, TablesTyped, ControlTyped, DirectoryTyped
  <1> QED BY <1>1, <1>2, <1>3, StartTyped, SweepTyped, TaskTyped DEF Next

-----------------------------------------------------------------------------
LEMMA IInvInit == Init => TypeOK /\ IInv
  <1> SUFFICES ASSUME Init PROVE TypeOK /\ IInv
    OBVIOUS
  <1> USE ConstantsOK DEF Init
  <1>1. TypeOK
    BY DEF TypeOK
  <1>2. Starting /\ Aiming /\ Entries /\ LiveEntries /\ Strikes
    BY DEF Starting, Aiming, Entries, LiveEntries, Strikes, StartPcs, Programs
  <1>3. Passing /\ Locks /\ Pointers /\ FaultsExplained
    BY DEF Passing, Locks, Pointers, FaultsExplained, Using, AtSlot, AtEnd
  <1>4. Accounted
    BY DEF Accounted, Programs
  <1>5. Mapped
    BY DEF Mapped, Complete, Under, StartPcs
  <1> QED BY <1>1, <1>2, <1>3, <1>4, <1>5 DEF IInv

LEMMA IInvStep == TypeOK /\ IInv /\ [Next]_vars => TypeOK' /\ IInv'
  <1> SUFFICES ASSUME TypeOK, IInv, [Next]_vars PROVE IInv'
    BY TypeStep
  <1>1. CASE Start
    BY <1>1, FindPortStep, ProbePortStep, BindPortStep, StartFailsStep, RegisterStep, RegisteredStep
       DEF Start
  <1>2. CASE Sweep
    BY <1>2, NextSlotStep, LockClientsStep, ReleaseClientsStep, OnDisconnectStep, CloseSocketsStep, UnlockClientsStep,
       FreeProgramStep, ForgetProgramStep, PassEndsStep, FreeMachineStep, FreeContextStep DEF Sweep
  <1>3. CASE Task
    <2> USE DEF Task
    <2>1. CASE StopNetwork \/ UseClients \/ Leave
      <3>1. PICK e \in {"use", "stop", "exit"} : BeginPass(e)
        BY <2>1 DEF StopNetwork, UseClients, Leave
      <3>2. /\ mode \in {"interactive", "config", "loop"}
            /\ UNCHANGED <<mode, entries, programs, held, mappings, pointers, signals>>
        BY <1>3, <2>1 DEF StopNetwork, UseClients, Leave, directory, pointers
      <3> QED BY <1>3, <3>1, <3>2, BeginPassStep
    <2>2. ASSUME NEW line \in Lines, PortLine(line)
          PROVE  IInv'
      BY <1>3, <2>2, IdleStep DEF PortLine, directory, pointers
    <2> QED BY <1>3, <2>1, <2>2, StartNetworkStep, CmdInitStep, BlankLineStep, EndOfInputStep,
               ServerLineStep, DiscoverServiceStep
  <1>4. ASSUME NEW s \in Signals, Signal(s)
        PROVE  IInv'
    BY <1>4, SignalStep
  <1>5. ASSUME NEW port \in Ports, OtherProcess(port)
        PROVE  IInv'
    BY <1>5, IdleStep DEF OtherProcess, directory
  <1>6. CASE UNCHANGED vars
    BY <1>6, IdleStep DEF vars, directory
  <1> QED BY <1>1, <1>2, <1>3, <1>4, <1>5, <1>6 DEF Next

LEMMA Inductive == Spec => [](TypeOK /\ IInv)
  BY IInvInit, IInvStep, PTL DEF Spec

(* Every variable stays in its type, whatever the table's size.            *)
THEOREM Typing == Spec => []TypeOK
  BY Inductive, PTL

(* The table's entries are live and distinct (main.c, programs[]), however *)
(* starts, stops and signals follow each other.                            *)
THEOREM EntriesAlwaysLive == Spec => []EntriesLive
  <1>1. ASSUME TypeOK, IInv
        PROVE  EntriesLive
    <2>1. Entries /\ LiveEntries
      BY <1>1 DEF IInv
    <2>2. count \in Nat
      BY <1>1, TypeParts DEF TablesTyped
    <2> QED BY <2>1, <2>2 DEF EntriesLive, Entries, LiveEntries, Slots
  <1> QED BY <1>1, Inductive, PTL

(* No order of commands frees twice or blocks the thread on its own lock:  *)
(* a signal at one of the named places has to, or, for the lock, a client  *)
(* that hangs up on the event loop (cleanup_runtime, net_run).             *)
THEOREM FaultsAreExplained == Spec => []FaultsExplained
  <1>1. TypeOK /\ IInv => FaultsExplained
    BY DEF IInv
  <1> QED BY <1>1, Inductive, PTL

(* The process that exits has released every program it had entered.       *)
THEOREM ExitReleases == Spec => []ExitReleasesAll
  <1>1. ASSUME TypeOK, IInv
        PROVE  ExitReleasesAll
    <2> SUFFICES ASSUME pc = "exited", NEW p \in 1 .. started
                 PROVE  \/ memory[p] = "freed" /\ bound[p] = 0
                        \/ p = started /\ struck \cap StartPcs # {}
      BY DEF ExitReleasesAll
    <2>1. p \in Programs /\ p <= started /\ p # 0
      BY <1>1, ConstantsOK, TypeParts DEF TablesTyped, Programs
    <2>2. ~Tabled(p)
      <3>1. Passing
        BY <1>1 DEF IInv
      <3> QED BY <2>1, <3>1 DEF Passing, AtEnd, Tabled
    <2>3. pc \notin StartPcs \cup {"overrun"}
      BY DEF StartPcs
    <2>4. Accounted
      BY <1>1 DEF IInv
    <2> QED BY <2>1, <2>2, <2>3, <2>4 DEF Accounted
  <1> QED BY <1>1, Inductive, PTL

(* polycall_init_with_directory keeps mappings and programs in step and no *)
(* port in two mappings (add_port_mapping).                                *)
THEOREM MappingsAlwaysSound == Spec => []MappingsSound
  <1>1. ASSUME TypeOK, IInv
        PROVE  MappingsSound
    <2> SUFFICES ASSUME Directed, pc = "idle" PROVE MappingsSound
      BY DEF MappingsSound
    <2>1. Complete = count /\ Under = 0
      BY DEF Complete, Under, StartPcs
    <2>2. Mapped /\ mappings \in Seq(Mappings) /\ count \in Nat
      BY <1>1, TypeParts DEF IInv, DirectoryTyped, TablesTyped
    <2>3. Len(mappings) = count /\ DOMAIN mappings = 1 .. count
      BY <2>1, <2>2 DEF Mapped
    <2> QED BY <2>1, <2>2, <2>3 DEF Mapped, MappingsSound
  <1> QED BY <1>1, Inductive, PTL

-----------------------------------------------------------------------------
(* Whatever a pass meets in the table and however often signals start it   *)
(* again, each of its steps leaves less of it: no slot is come to twice.   *)
Rest(where) ==
  CASE where = "next" -> 7 [] where \in {"lock", "machine"} -> 6
    [] where \in {"using", "close", "null machine"} -> 5 [] where \in {"unlock", "context"} -> 4
    [] where \in {"free", "null context"} -> 3 [] where = "forget" -> 2 [] OTHER -> 0

Remaining == 8 * (MaxPrograms - slot) + Rest(pc)

PassAdvances == [][Sweep => Remaining' \in 0 .. Remaining - 1]_vars

(* Each step of a pass stays at its slot and comes to a later place, or it *)
(* goes on to the next slot.                                               *)
LEMMA RestValues ==
  /\ Rest("next") = 7 /\ Rest("lock") = 6 /\ Rest("machine") = 6 /\ Rest("using") = 5
  /\ Rest("close") = 5 /\ Rest("null machine") = 5 /\ Rest("unlock") = 4
  /\ Rest("context") = 4 /\ Rest("free") = 3 /\ Rest("null context") = 3
  /\ Rest("forget") = 2 /\ Rest("idle") = 0 /\ Rest("exited") = 0 /\ Rest("blocked") = 0
  /\ Rest("undefined") = 0
BY DEF Rest

GoesOn(s, t, from, to) == (t = s /\ to < from) \/ (t = s + 1 /\ to < from + 8)

LEMMA GoesDown ==
  ASSUME NEW m \in Nat, NEW s \in Nat, NEW t \in Nat, NEW a \in Nat, NEW b \in Nat,
         s <= m, t <= m, GoesOn(s, t, a, b)
  PROVE  8 * (m - t) + b \in 0 .. (8 * (m - s) + a) - 1
<1>1. m - s \in Nat /\ m - t \in Nat
  OBVIOUS
<1>2. CASE t = s /\ b < a
  BY <1>1, <1>2
<1>3. CASE t = s + 1 /\ b < a + 8
  <2>1. 8 * (m - s) = 8 * (m - t) + 8
    BY <1>3
  <2> QED BY <1>1, <1>3, <2>1
<1> QED BY <1>2, <1>3 DEF GoesOn

LEMMA PassGoesOn ==
  ASSUME Sweep
  PROVE  GoesOn(slot, slot', Rest(pc), Rest(pc'))
<1> DEFINE from == Rest(pc)
           to == Rest(pc')
<1>0. SUFFICES \/ /\ slot' = slot
                  /\ <<from, to>> \in ({7} \X {0, 6}) \cup ({6} \X {0, 4, 5}) \cup ({5} \X {0, 4})
                                      \cup ({4} \X {0, 3}) \cup ({3} \X {0, 2})
               \/ slot' = slot + 1 /\ from \in {2, 5, 7} /\ to = 7
  <2> HIDE DEF from, to
  <2>1. GoesOn(slot, slot', from, to)
    BY <1>0 DEF GoesOn
  <2> QED BY <2>1 DEF from, to
<1>1. CASE NextSlot
  <2>1. /\ pc = "next"
        /\ \/ pc' = "lock" /\ slot' = slot
           \/ pc' = pc /\ slot' = slot + 1
    BY <1>1 DEF NextSlot
  <2> QED BY <2>1, RestValues
<1>2. CASE LockClients
  <2>1. pc = "lock" /\ pc' \in {"undefined", "blocked", "using", "close"} /\ slot' = slot
    BY <1>2 DEF LockClients, pass
  <2> QED BY <2>1, RestValues
<1>3. CASE ReleaseClients
  <2>1. pc = "using" /\ pc' = "next" /\ slot' = slot + 1
    BY <1>3 DEF ReleaseClients
  <2> QED BY <2>1, RestValues
<1>11. CASE OnDisconnect
  <2>1. pc = "using" /\ pc' = "blocked" /\ slot' = slot
    BY <1>11 DEF OnDisconnect, pass
  <2> QED BY <2>1, RestValues
<1>4. CASE CloseSockets
  <2>1. pc = "close" /\ pc' = "unlock" /\ slot' = slot
    BY <1>4 DEF CloseSockets, pass
  <2> QED BY <2>1, RestValues
<1>5. CASE UnlockClients
  <2>1. pc = "unlock" /\ pc' = "free" /\ slot' = slot
    BY <1>5 DEF UnlockClients, pass
  <2> QED BY <2>1, RestValues
<1>6. CASE FreeProgram
  <2>1. pc = "free" /\ pc' = "forget" /\ slot' = slot
    BY <1>6 DEF FreeProgram, pass
  <2> QED BY <2>1, RestValues
<1>7. CASE ForgetProgram
  <2>1. pc = "forget" /\ pc' = "next" /\ slot' = slot + 1
    BY <1>7 DEF ForgetProgram
  <2> QED BY <2>1, RestValues
<1>8. CASE PassEnds
  <2>1. pc = "next" /\ pc' \in {"idle", "machine"} /\ slot' = slot
    BY <1>8 DEF PassEnds, pass
  <2> QED BY <2>1, RestValues
<1>9. CASE FreeMachine
  <2>1. /\ slot' = slot
        /\ \/ pc = "machine" /\ pc' \in {"context", "null machine", "undefined"}
           \/ pc = "null machine" /\ pc' = "context"
    BY <1>9 DEF FreeMachine, pass
  <2> QED BY <2>1, RestValues
<1>10. CASE FreeContext
  <2>1. /\ slot' = slot
        /\ \/ pc = "context" /\ pc' \in {"exited", "null context", "undefined"}
           \/ pc = "null context" /\ pc' = "exited"
    BY <1>10 DEF FreeContext, pass
  <2> QED BY <2>1, RestValues
<1> QED
  BY <1>1, <1>2, <1>3, <1>4, <1>5, <1>6, <1>7, <1>8, <1>9, <1>10, <1>11 DEF Sweep

(* A pass over the table, however large, comes to no slot twice, and so    *)
(* takes no more than eight steps for each (cleanup_runtime and the loops  *)
(* over g_runtime.programs).                                               *)
THEOREM PassesAdvance == Spec => PassAdvances
<1>1. ASSUME Sweep, TypeOK, TypeOK'
      PROVE  Remaining' \in 0 .. Remaining - 1
  <2> DEFINE from == Rest(pc)
             to == Rest(pc')
  <2>1. from \in Nat /\ to \in Nat
    BY DEF Rest
  <2>2. MaxPrograms \in Nat /\ slot \in 0 .. MaxPrograms /\ slot' \in 0 .. MaxPrograms
    BY <1>1, ConstantsOK DEF TypeOK
  <2>3. Remaining = 8 * (MaxPrograms - slot) + from /\ Remaining' = 8 * (MaxPrograms - slot') + to
    BY DEF Remaining
  <2>4. GoesOn(slot, slot', from, to)
    BY <1>1, PassGoesOn
  <2> HIDE DEF from, to
  <2>5. 8 * (MaxPrograms - slot') + to \in 0 .. (8 * (MaxPrograms - slot) + from) - 1
    <3>1. slot \in Nat /\ slot' \in Nat /\ slot <= MaxPrograms /\ slot' <= MaxPrograms
      BY <2>2
    <3> QED BY <2>1, <2>2, <2>4, <3>1, GoesDown
  <2> QED BY <2>3, <2>5
<1>2. TypeOK /\ TypeOK' /\ [Next]_vars => [Sweep => Remaining' \in 0 .. Remaining - 1]_vars
  BY <1>1
<1> QED BY <1>2, Typing, PTL DEF Spec, PassAdvances
=============================================================================
