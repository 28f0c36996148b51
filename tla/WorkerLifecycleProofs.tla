------------------------ MODULE WorkerLifecycleProofs ------------------------
(***************************************************************************)
(* The invariants of WorkerLifecycle hold for any number of workers and     *)
(* crashes.  The inductive invariant Inv ties the five records together at  *)
(* every step of an operation, not only between operations.                 *)
(***************************************************************************)
EXTENDS WorkerLifecycle, TLAPS

Making == {"save", "make", "verify"}
Stopping == {"closing", "registry", "settle", "remove"}

\* a record that names no worker is the empty one (a placeholder of the monitor
\* has no check in flight)
Shapes ==
    /\ entry.w = 0 => entry = NoEntry
    /\ reg.w = 0 => reg = NoReg
    /\ live.w = 0 <=> live = NoLive
    /\ live.status = "none" <=> live = NoLive
    /\ mon.w = 0 => mon.check = "none"
    /\ op.at = "idle" => op = NoOp
    /\ ~up => op = NoOp /\ entry = NoEntry /\ mon = NoMon /\ reg = NoReg

MakingInv ==
    op.at \in Making =>
        /\ ~Entered /\ mon.w = 0
        /\ op.active \/ untold
        /\ op.at # "save" => Exists /\ row.active = op.active
        /\ op.at # "verify" => created < MaxWorkers
        /\ op.at = "verify" => created > 0 /\ bull[created] \in {"running", "idle"}

StoppingInv ==
    /\ op.at \in Stopping =>
          /\ Entered /\ ~Alive(entry.w)
          /\ op.then = "restart" => entry.active /\ created < MaxWorkers
          /\ op.at # "closing" => mon.w = 0
    /\ op.at = "exit" => ~Entered

StrayInv ==
    \A w \in Ids \ deserted : Alive(w) => entry.w = w \/ (op.at = "verify" /\ w = created)

MonitorInv ==
    mon.w # 0 => /\ Entered /\ mon.w = entry.w
                 /\ op.at = "closing" \/ Alive(entry.w)

RegistryInv ==
    /\ timer <=> live.status = "stopped"
    /\ live # NoLive => Registered
    /\ live.status = "stopping" <=> op.at = "settle"
    /\ live.status = "running" => Entered /\ op.at # "remove"

RowInv ==
    Entered => /\ Exists /\ entry.active = row.active
               /\ ~row.active => untold \/ ~Alive(entry.w)

Inv == TypeOK /\ Shapes /\ MakingInv /\ StoppingInv /\ StrayInv
         /\ MonitorInv /\ RegistryInv /\ RowInv

\* Whatever an action does to the operation in progress, it stays one.
LEMMA OperationForms ==
    ASSUME op \in Operations
    PROVE  /\ \A l \in {"idle", "save", "make", "verify", "closing", "registry",
                         "settle", "remove", "exit"} :
                 Goto(l) => op' \in Operations
           /\ \A auto, active \in BOOLEAN : BeginMaking(auto, active) => op' \in Operations
           /\ \A then \in {"return", "restart", "remove", "exit"} :
                 BeginClosing(then) => op' \in Operations
           /\ NoOp \in Operations
<1>1. ASSUME NEW l \in {"idle", "save", "make", "verify", "closing", "registry",
     "settle", "remove", "exit"}, Goto(l)
      PROVE  op' \in Operations
  BY <1>1 DEF Goto, Operations
<1>2. ASSUME NEW auto \in BOOLEAN, NEW active \in BOOLEAN, BeginMaking(auto, active)
      PROVE  op' \in Operations
  <2>1. op' = [at |-> "save", then |-> "return", auto |-> auto, active |-> active]
    BY <1>2, Zenon DEF BeginMaking
  <2> QED  BY <2>1 DEF Operations
<1>3. ASSUME NEW then \in {"return", "restart", "remove", "exit"}, BeginClosing(then)
      PROVE  op' \in Operations
  BY <1>3 DEF BeginClosing, Operations
<1>4. NoOp \in Operations
  BY DEF NoOp, Operations
<1> QED  BY <1>1, <1>2, <1>3, <1>4

\* The updates the actions make to the row keep its type; so do those to the
\* factory's entry (EntryForms).
LEMMA RowForms ==
    ASSUME NEW r \in Rows
    PROVE  /\ \A s \in RowStatuses : [r EXCEPT !.status = s] \in Rows
           /\ \A b \in BOOLEAN : [r EXCEPT !.auto = b] \in Rows /\ [r EXCEPT !.active = b] \in Rows
           /\ \A s \in RowStatuses, a, b \in BOOLEAN : [status |-> s, auto |-> a,
                active |-> b] \in Rows
           /\ NoRow \in Rows
  BY DEF Rows, NoRow, RowStatuses

\* The same of the factory's entry.
LEMMA EntryForms ==
    ASSUME created \in Nat, NEW e \in Entries
    PROVE  /\ NoEntry \in Entries
           /\ \A s \in RowStatuses : [e EXCEPT !.status = s] \in Entries
           /\ \A b \in BOOLEAN : [e EXCEPT !.auto = b] \in Entries /\ [e EXCEPT !.active = b] \in Entries
           /\ e.auto \in BOOLEAN /\ e.active \in BOOLEAN /\ e.w \in 0 .. created
  BY DEF Entries, RowStatuses, NoEntry

\* Writing a status to the row keeps its type.
LEMMA PersistForms ==
    ASSUME row \in Rows, NEW s \in RowStatuses, Persist(s)
    PROVE  row' \in Rows
  BY RowForms DEF Persist

\* updateState() of the health monitor keeps its state, and what it reports the
\* row and the entry, of their type.
LEMMA ReportForms ==
    ASSUME created \in Nat, row \in Rows, entry \in Entries,
           NEW m \in Monitors, NEW healthy \in BOOLEAN
    PROVE  /\ Judged(m, healthy) \in Monitors
           /\ Reports(m, Judged(m, healthy)) => row' \in Rows /\ entry' \in Entries
<1> DEFINE n == Judged(m, healthy)
<1>1. n \in Monitors /\ (n.status # m.status => n.status \in {"running", "failed"})
  <2>1. \A s \in {"none", "starting", "running", "failed"}, f \in 0 .. 2 :
           /\ [m EXCEPT !.check = "none", !.fails = f, !.status = s] \in Monitors
           /\ [m EXCEPT !.check = "none", !.fails = f, !.status = s].status = s
    BY DEF Monitors
  <2>2. m.fails \in 0 .. 2 /\ m.status \in {"none", "starting", "running", "failed"}
    BY DEF Monitors
  <2>3. CASE healthy
    <3>1. n = [m EXCEPT !.check = "none", !.fails = 0, !.status = "running"]
      BY <2>3 DEF Judged
    <3> QED  BY <2>1, <3>1
  <2>4. CASE ~healthy /\ m.fails = 0
    <3>1. n = [m EXCEPT !.check = "none", !.fails = 1, !.status = m.status]
      BY <2>4 DEF Judged, Monitors
    <3>2. \A s \in {"none", "starting", "running", "failed"} :
             /\ [m EXCEPT !.check = "none", !.fails = 1, !.status = s] \in Monitors
             /\ [m EXCEPT !.check = "none", !.fails = 1, !.status = s].status = s
      <4>1. 1 \in 0 .. 2
        OBVIOUS
      <4> QED  BY <2>1, <4>1, Zenon
    <3> QED  BY <2>2, <3>1, <3>2
  <2>5. CASE ~healthy /\ m.fails # 0
    <3>1. (IF m.fails < 2 THEN m.fails + 1 ELSE 2) = 2
      BY <2>5, <2>2
    <3>2. n = [m EXCEPT !.check = "none", !.fails = 2, !.status = "failed"]
      BY <2>5, <3>1 DEF Judged
    <3> QED  BY <2>1, <3>2
  <2> QED  BY <2>3, <2>4, <2>5
<1>2. n.status # m.status => n.status \in RowStatuses
  BY <1>1 DEF RowStatuses
<1>3. ASSUME Reports(m, n) PROVE row' \in Rows /\ entry' \in Entries
  <2> HIDE DEF n
  <2>1. CASE n.status = m.status
    BY <1>3, <2>1 DEF Reports
  <2>2. CASE n.status # m.status
    BY <1>2, <1>3, <2>2, PersistForms, EntryForms DEF Reports
  <2> QED  BY <2>1, <2>2
<1> QED  BY <1>1, <1>3


\* Every step keeps the types of the shutdown flag and of the history.
LEMMA NotesKept ==
    ASSUME Inv, [Next]_vars
    PROVE  shut' \in BOOLEAN /\ deserted' \subseteq Ids /\ untold' \in BOOLEAN
<1> USE DEF Inv, TypeOK
<1>1. CASE RequestCreate
  BY <1>1, Zenon DEF RequestCreate
<1>2. CASE NotConnected
  <2>1. shut' = shut /\ untold' = untold
    BY <1>2, Zenon DEF NotConnected
  <2>2. deserted' = deserted \/ (bull[created] = "running" /\ deserted' = deserted \union {created})
    BY <1>2, Zenon DEF NotConnected
  <2>3. created \in Ids \/ created = 0
    BY LifecycleAssumption DEF Ids
  <2>4. op.at = "verify" => created # 0
    BY DEF Inv, MakingInv, Making
  <2> QED  BY <1>2, <2>1, <2>2, <2>3, <2>4 DEF NotConnected
<1>3. CASE RequestActive
  BY <1>3, Zenon DEF RequestActive
<1>4. CASE RequestUpdate
  BY <1>4, Zenon DEF RequestUpdate
<1>5. CASE RequestShutdown
  BY <1>5, Zenon DEF RequestShutdown
<1>6. CASE Exit \/ Crash
  BY <1>6, Zenon DEF Exit, Crash, Down, notes
<1>7. CASE UNCHANGED notes
  BY <1>7, Zenon DEF notes
<1> QED
  BY <1>1, <1>2, <1>3, <1>4, <1>5, <1>6, <1>7 DEF Next, Requests, Steps, vars, notes,
       RequestStart, RequestStop, RequestRestart, RequestPause, RequestResume,
       RequestAutoStart, RequestRemove, RequestMonitoring, RequestNoMonitoring, Save, Make,
       Connected, StopMarks, RegistryStops, RegistryStopped, Removes, CleansUp, Boot,
       CheckBegins, CheckEnds, LateCheckEnds, JobsEnd

\* Every step keeps the types: each variable of each action.
LEMMA TypesKept == ASSUME Inv, [Next]_vars PROVE TypeOK'
<1>n. (shut \in BOOLEAN /\ deserted \subseteq Ids /\ untold \in BOOLEAN)'
  BY NotesKept, Zenon DEF Ids
<1> USE LifecycleAssumption DEF Inv, TypeOK, Entered, Registered, Exists, Idle, memory,
     bounds
<1>c. created \in Nat
  OBVIOUS
<1>0. {"creating", "starting", "running", "failed", "stopped"} \subseteq RowStatuses
  BY DEF RowStatuses
<1>p. NoMon \in Monitors /\ \A m \in Monitors : m.w \in 0 .. created
  BY DEF NoMon, Monitors
<1>q. Placeholder \in Monitors /\ Placeholder = [w |-> 0, status |-> "starting",
     fails |-> 0, check |-> "none"]
  BY DEF Placeholder, NoMon, Monitors
<1>1. CASE RequestCreate
  <2>0. Entries' = Entries
    BY <1>1 DEF RequestCreate, Creating, Entries
  <2>1. row' \in Rows
    <3>1. CASE UNCHANGED row
      BY <3>1
    <3>2. ASSUME NEW auto \in BOOLEAN, NEW active \in BOOLEAN,
                 row' = [status |-> "stopped", auto |-> auto, active |-> active]
          PROVE  row' \in Rows
      BY <1>0, <3>2, RowForms
    <3> QED  BY <1>1, <1>0, <3>1, <3>2, Zenon DEF RequestCreate
  <2>2. op' \in Operations
    BY <1>1, <1>0, OperationForms, EntryForms DEF RequestCreate, Creating
  <2>3. entry' \in Entries'
    BY <1>1, <1>0, <2>0, EntryForms, ReportForms DEF RequestCreate, Creating
  <2>4. (up \in BOOLEAN /\ timer \in BOOLEAN)'
    BY <1>1, Zenon DEF RequestCreate, Creating
  <2>5. (created \in 0 .. MaxWorkers /\ crashes \in Nat /\ \A w \in Ids : bull[w] = "none" <=> w > created)'
    BY <1>1 DEF RequestCreate, Creating, Ids, MakingInv, Making
  <2>6. bull' \in [Ids -> BullStates]
    BY <1>1 DEF RequestCreate, Creating, Ids, BullStates
  <2>7. reg' \in Registrations'
    BY <1>1 DEF RequestCreate, Creating, NoReg, Registrations
  <2>8. live' \in Instances'
    BY <1>1 DEF RequestCreate, Creating, NoLive, Instances
  <2>9. (mon \in Monitors /\ late \subseteq Monitors)'
    BY <1>1, ReportForms DEF RequestCreate, Creating, NoMon, Monitors
  <2> QED  BY <1>n, <2>1, <2>2, <2>3, <2>4, <2>5, <2>6, <2>7, <2>8, <2>9
<1>2. CASE RequestStart
  <2>0. Entries' = Entries
    BY <1>2 DEF RequestStart, Starts, StartsFromPersisted, FromPersisted, Creating,
         StartsInstance, Active, Entries
  <2>1. row' \in Rows
    BY <1>2, <1>0, RowForms, PersistForms, ReportForms DEF RequestStart, Starts,
         StartsFromPersisted, FromPersisted, Creating, StartsInstance, Active
  <2>2. op' \in Operations
    BY <1>2, <1>0, OperationForms, EntryForms DEF RequestStart, Starts,
         StartsFromPersisted, FromPersisted, Creating, StartsInstance, Active
  <2>3. entry' \in Entries'
    <3>1. entry' = [entry EXCEPT !.status = "running"] \/ entry' = entry
      BY <1>2, Zenon DEF RequestStart, Starts, StartsFromPersisted
    <3> QED  BY <1>c, <1>0, <2>0, <3>1, EntryForms
  <2>4. (up \in BOOLEAN /\ timer \in BOOLEAN)'
    BY <1>2, Zenon DEF RequestStart, Starts, StartsFromPersisted, FromPersisted,
         Creating, StartsInstance, Active
  <2>5. (created \in 0 .. MaxWorkers /\ crashes \in Nat /\ \A w \in Ids : bull[w] = "none" <=> w > created)'
    BY <1>2 DEF RequestStart, Starts, StartsFromPersisted, FromPersisted, Creating,
         StartsInstance, Active, Ids, MakingInv, Making
  <2>6. bull' \in [Ids -> BullStates]
    BY <1>2 DEF RequestStart, Starts, StartsFromPersisted, FromPersisted, Creating,
         StartsInstance, Active, Ids, BullStates
  <2>7. reg' \in Registrations'
    BY <1>2 DEF RequestStart, Starts, StartsFromPersisted, FromPersisted, Creating,
         StartsInstance, Active, NoReg, Registrations
  <2>8. live' \in Instances'
    <3>1. live' = live \/ live' = [w |-> reg.w, status |-> "running"]
      BY <1>2, Zenon DEF RequestStart, Starts, StartsFromPersisted, StartsInstance,
           Instances
    <3>2. created' = created
      BY <1>2 DEF RequestStart
    <3> QED  BY <3>1, <3>2 DEF Instances, Registrations
  <2>9. (mon \in Monitors /\ late \subseteq Monitors)'
    BY <1>2, ReportForms DEF RequestStart, Starts, StartsFromPersisted, FromPersisted,
         Creating, StartsInstance, Active, NoMon, Monitors
  <2> QED  BY <1>n, <2>1, <2>2, <2>3, <2>4, <2>5, <2>6, <2>7, <2>8, <2>9
<1>3. CASE RequestStop
  <2>0. Entries' = Entries
    BY <1>3 DEF RequestStop, Stops, Close, Active, Entries
  <2>1. row' \in Rows
    BY <1>3, <1>0, RowForms, PersistForms, ReportForms DEF RequestStop, Stops, Close, Active
  <2>2. op' \in Operations
    BY <1>3, <1>0, OperationForms, EntryForms DEF RequestStop, Stops, Close, Active
  <2>3. entry' \in Entries'
    BY <1>3, <1>0, <2>0, EntryForms, ReportForms DEF RequestStop, Stops, Close, Active
  <2>4. (up \in BOOLEAN /\ timer \in BOOLEAN)'
    BY <1>3, Zenon DEF RequestStop, Stops, Close, Active
  <2>5. (created \in 0 .. MaxWorkers /\ crashes \in Nat /\ \A w \in Ids : bull[w] = "none" <=> w > created)'
    BY <1>3 DEF RequestStop, Stops, Close, Active, Ids, MakingInv, Making
  <2>6. bull' \in [Ids -> BullStates]
    BY <1>3 DEF RequestStop, Stops, Close, Active, Ids, BullStates
  <2>7. reg' \in Registrations'
    BY <1>3 DEF RequestStop, Stops, Close, Active, NoReg, Registrations
  <2>8. live' \in Instances'
    BY <1>3 DEF RequestStop, Stops, Close, Active, NoLive, Instances
  <2>9. (mon \in Monitors /\ late \subseteq Monitors)'
    BY <1>3, ReportForms DEF RequestStop, Stops, Close, Active, NoMon, Monitors
  <2> QED  BY <1>n, <2>1, <2>2, <2>3, <2>4, <2>5, <2>6, <2>7, <2>8, <2>9
<1>4. CASE RequestRestart
  <2>0. Entries' = Entries
    BY <1>4 DEF RequestRestart, Restarts, Stops, Close, Active, FromPersisted, Creating,
         Entries
  <2>1. row' \in Rows
    BY <1>4, <1>0, RowForms, PersistForms, ReportForms DEF RequestRestart, Restarts,
         Stops, Close, Active, FromPersisted, Creating
  <2>2. op' \in Operations
    BY <1>4, <1>0, OperationForms, EntryForms DEF RequestRestart, Restarts, Stops, Close,
         Active, FromPersisted, Creating
  <2>3. entry' \in Entries'
    BY <1>4, <1>0, <2>0, EntryForms, ReportForms DEF RequestRestart, Restarts, Stops,
         Close, Active, FromPersisted, Creating
  <2>4. (up \in BOOLEAN /\ timer \in BOOLEAN)'
    BY <1>4, Zenon DEF RequestRestart, Restarts, Stops, Close, Active, FromPersisted,
         Creating
  <2>5. (created \in 0 .. MaxWorkers /\ crashes \in Nat /\ \A w \in Ids : bull[w] = "none" <=> w > created)'
    <3>1. bull' = bull \/ Close(entry.w)
      BY <1>4, Zenon DEF RequestRestart, Restarts, Stops
    <3>2. UNCHANGED <<created, crashes>>
      BY <1>4 DEF RequestRestart
    <3> QED  BY <3>1, <3>2 DEF Close, Ids
  <2>6. bull' \in [Ids -> BullStates]
    <3>1. bull' = bull \/ Close(entry.w)
      BY <1>4, Zenon DEF RequestRestart, Restarts, Stops
    <3> QED  BY <3>1 DEF Close, BullStates
  <2>7. reg' \in Registrations'
    BY <1>4 DEF RequestRestart, Restarts, Stops, Close, Active, FromPersisted, Creating,
         NoReg, Registrations
  <2>8. live' \in Instances'
    BY <1>4 DEF RequestRestart, Restarts, Stops, Close, Active, FromPersisted, Creating,
         NoLive, Instances
  <2>9. (mon \in Monitors /\ late \subseteq Monitors)'
    BY <1>4, ReportForms DEF RequestRestart, Restarts, Stops, Close, Active,
         FromPersisted, Creating, NoMon, Monitors
  <2> QED  BY <1>n, <2>1, <2>2, <2>3, <2>4, <2>5, <2>6, <2>7, <2>8, <2>9
<1>5. CASE RequestPause
  <2>0. Entries' = Entries
    BY <1>5 DEF RequestPause, Active, Entries
  <2>1. row' \in Rows
    BY <1>5, <1>0, RowForms, PersistForms, ReportForms DEF RequestPause, Active
  <2>2. op' \in Operations
    BY <1>5, <1>0, OperationForms, EntryForms DEF RequestPause, Active
  <2>3. entry' \in Entries'
    BY <1>5, <1>0, <2>0, EntryForms, ReportForms DEF RequestPause, Active
  <2>4. (up \in BOOLEAN /\ timer \in BOOLEAN)'
    BY <1>5, Zenon DEF RequestPause, Active
  <2>5. (created \in 0 .. MaxWorkers /\ crashes \in Nat /\ \A w \in Ids : bull[w] = "none" <=> w > created)'
    BY <1>5 DEF RequestPause, Active, Ids, MakingInv, Making
  <2>6. bull' \in [Ids -> BullStates]
    BY <1>5 DEF RequestPause, Active, Ids, BullStates
  <2>7. reg' \in Registrations'
    BY <1>5 DEF RequestPause, Active, NoReg, Registrations
  <2>8. live' \in Instances'
    BY <1>5 DEF RequestPause, Active, NoLive, Instances
  <2>9. (mon \in Monitors /\ late \subseteq Monitors)'
    BY <1>5, ReportForms DEF RequestPause, Active, NoMon, Monitors
  <2> QED  BY <1>n, <2>1, <2>2, <2>3, <2>4, <2>5, <2>6, <2>7, <2>8, <2>9
<1>6. CASE RequestResume
  <2>0. Entries' = Entries
    BY <1>6 DEF RequestResume, Active, Entries
  <2>1. row' \in Rows
    BY <1>6, <1>0, RowForms, PersistForms, ReportForms DEF RequestResume, Active
  <2>2. op' \in Operations
    BY <1>6, <1>0, OperationForms, EntryForms DEF RequestResume, Active
  <2>3. entry' \in Entries'
    BY <1>6, <1>0, <2>0, EntryForms, ReportForms DEF RequestResume, Active
  <2>4. (up \in BOOLEAN /\ timer \in BOOLEAN)'
    BY <1>6, Zenon DEF RequestResume, Active
  <2>5. (created \in 0 .. MaxWorkers /\ crashes \in Nat /\ \A w \in Ids : bull[w] = "none" <=> w > created)'
    BY <1>6 DEF RequestResume, Active, Ids, MakingInv, Making
  <2>6. bull' \in [Ids -> BullStates]
    BY <1>6 DEF RequestResume, Active, Ids, BullStates
  <2>7. reg' \in Registrations'
    BY <1>6 DEF RequestResume, Active, NoReg, Registrations
  <2>8. live' \in Instances'
    BY <1>6 DEF RequestResume, Active, NoLive, Instances
  <2>9. (mon \in Monitors /\ late \subseteq Monitors)'
    BY <1>6, ReportForms DEF RequestResume, Active, NoMon, Monitors
  <2> QED  BY <1>n, <2>1, <2>2, <2>3, <2>4, <2>5, <2>6, <2>7, <2>8, <2>9
<1>7. CASE RequestAutoStart
  <2>0. Entries' = Entries
    BY <1>7 DEF RequestAutoStart, Active, Creating, StartsInstance, Entries
  <2>1. row' \in Rows
    <3>1. PICK auto \in BOOLEAN :
             LET r == [row EXCEPT !.auto = auto]
             IN  row' = r \/ row' = [r EXCEPT !.status = "running"]
      BY <1>7, Zenon DEF RequestAutoStart
    <3>2. [row EXCEPT !.auto = auto] \in Rows
      BY RowForms, Zenon
    <3>3. [[row EXCEPT !.auto = auto] EXCEPT !.status = "running"] \in Rows
      BY <1>0, <3>2, RowForms
    <3> QED  BY <3>1, <3>2, <3>3, Zenon
  <2>2. op' \in Operations
    BY <1>7, <1>0, OperationForms, EntryForms DEF RequestAutoStart, Active, Creating,
         StartsInstance
  <2>3. entry' \in Entries'
    <3>1. PICK auto \in BOOLEAN :
             LET e == IF Entered THEN [entry EXCEPT !.auto = auto] ELSE entry
             IN  entry' \in {entry, e, [e EXCEPT !.status = "running"]}
      BY <1>7, Zenon DEF RequestAutoStart
    <3>2. (IF Entered THEN [entry EXCEPT !.auto = auto] ELSE entry) \in Entries
      BY <1>c, EntryForms
    <3> QED  BY <1>c, <1>0, <2>0, <3>1, <3>2, EntryForms
  <2>4. (up \in BOOLEAN /\ timer \in BOOLEAN)'
    BY <1>7, Zenon DEF RequestAutoStart, Active, Creating, StartsInstance
  <2>5. (created \in 0 .. MaxWorkers /\ crashes \in Nat /\ \A w \in Ids : bull[w] = "none" <=> w > created)'
    BY <1>7 DEF RequestAutoStart, Active, Creating, StartsInstance, Ids, MakingInv, Making
  <2>6. bull' \in [Ids -> BullStates]
    BY <1>7 DEF RequestAutoStart, Active, Creating, StartsInstance, Ids, BullStates
  <2>7. reg' \in Registrations'
    BY <1>7 DEF RequestAutoStart, Active, Creating, StartsInstance, NoReg, Registrations
  <2>8. live' \in Instances'
    <3>1. live' = live \/ live' = [w |-> reg.w, status |-> "running"]
      BY <1>7, Zenon DEF RequestAutoStart, StartsInstance, Instances
    <3>2. created' = created
      BY <1>7 DEF RequestAutoStart
    <3> QED  BY <3>1, <3>2 DEF Instances, Registrations
  <2>9. (mon \in Monitors /\ late \subseteq Monitors)'
    BY <1>7, ReportForms DEF RequestAutoStart, Active, Creating, StartsInstance, NoMon,
         Monitors
  <2> QED  BY <1>n, <2>1, <2>2, <2>3, <2>4, <2>5, <2>6, <2>7, <2>8, <2>9
<1>8. CASE RequestActive
  <2>0. Entries' = Entries
    BY <1>8 DEF RequestActive, Deactivates, Close, Entries
  <2>1. row' \in Rows
    <3>1. PICK active \in BOOLEAN : row' = [row EXCEPT !.active = active]
      BY <1>8, Zenon DEF RequestActive, Deactivates
    <3> QED  BY <3>1, RowForms, Zenon
  <2>2. op' \in Operations
    BY <1>8, <1>0, OperationForms, EntryForms DEF RequestActive, Deactivates, Close
  <2>3. entry' \in Entries'
    <3>1. PICK active \in BOOLEAN :
             entry' = IF Entered THEN [entry EXCEPT !.active = active] ELSE entry
      BY <1>8, Zenon DEF RequestActive, Deactivates
    <3> QED  BY <1>c, <2>0, <3>1, EntryForms, Zenon
  <2>4. (up \in BOOLEAN /\ timer \in BOOLEAN)'
    BY <1>8, Zenon DEF RequestActive, Deactivates, Close
  <2>5. (created \in 0 .. MaxWorkers /\ crashes \in Nat /\ \A w \in Ids : bull[w] = "none" <=> w > created)'
    BY <1>8 DEF RequestActive, Deactivates, Close, Ids, MakingInv, Making
  <2>6. bull' \in [Ids -> BullStates]
    BY <1>8 DEF RequestActive, Deactivates, Close, Ids, BullStates
  <2>7. reg' \in Registrations'
    BY <1>8 DEF RequestActive, Deactivates, Close, NoReg, Registrations
  <2>8. live' \in Instances'
    BY <1>8 DEF RequestActive, Deactivates, Close, NoLive, Instances
  <2>9. (mon \in Monitors /\ late \subseteq Monitors)'
    BY <1>8, ReportForms DEF RequestActive, Deactivates, Close, NoMon, Monitors
  <2> QED  BY <1>n, <2>1, <2>2, <2>3, <2>4, <2>5, <2>6, <2>7, <2>8, <2>9
<1>9. CASE RequestUpdate
  <2>0. Entries' = Entries
    BY <1>9 DEF RequestUpdate, Close, Entries
  <2>1. row' \in Rows
    <3>1. PICK active \in BOOLEAN : row' = [row EXCEPT !.active = active]
      BY <1>9, Zenon DEF RequestUpdate
    <3> QED  BY <3>1, RowForms, Zenon
  <2>2. op' \in Operations
    BY <1>9, <1>0, OperationForms, EntryForms DEF RequestUpdate, Close
  <2>3. entry' \in Entries'
    <3>1. PICK active \in BOOLEAN :
             entry' = IF Entered THEN [entry EXCEPT !.active = active] ELSE entry
      BY <1>9, Zenon DEF RequestUpdate
    <3> QED  BY <1>c, <2>0, <3>1, EntryForms, Zenon
  <2>4. (up \in BOOLEAN /\ timer \in BOOLEAN)'
    BY <1>9, Zenon DEF RequestUpdate, Close
  <2>5. (created \in 0 .. MaxWorkers /\ crashes \in Nat /\ \A w \in Ids : bull[w] = "none" <=> w > created)'
    BY <1>9 DEF RequestUpdate, Close, Ids, MakingInv, Making
  <2>6. bull' \in [Ids -> BullStates]
    BY <1>9 DEF RequestUpdate, Close, Ids, BullStates
  <2>7. reg' \in Registrations'
    BY <1>9 DEF RequestUpdate, Close, NoReg, Registrations
  <2>8. live' \in Instances'
    BY <1>9 DEF RequestUpdate, Close, NoLive, Instances
  <2>9. (mon \in Monitors /\ late \subseteq Monitors)'
    BY <1>9, ReportForms DEF RequestUpdate, Close, NoMon, Monitors
  <2> QED  BY <1>n, <2>1, <2>2, <2>3, <2>4, <2>5, <2>6, <2>7, <2>8, <2>9
<1>10. CASE RequestRemove
  <2>0. Entries' = Entries
    BY <1>10 DEF RequestRemove, Stops, Close, Entries
  <2>1. row' \in Rows
    BY <1>10, <1>0, RowForms, PersistForms, ReportForms DEF RequestRemove, Stops, Close
  <2>2. op' \in Operations
    BY <1>10, <1>0, OperationForms, EntryForms DEF RequestRemove, Stops, Close
  <2>3. entry' \in Entries'
    BY <1>10, <1>0, <2>0, EntryForms, ReportForms DEF RequestRemove, Stops, Close
  <2>4. (up \in BOOLEAN /\ timer \in BOOLEAN)'
    BY <1>10, Zenon DEF RequestRemove, Stops, Close
  <2>5. (created \in 0 .. MaxWorkers /\ crashes \in Nat /\ \A w \in Ids : bull[w] = "none" <=> w > created)'
    BY <1>10 DEF RequestRemove, Stops, Close, Ids, MakingInv, Making
  <2>6. bull' \in [Ids -> BullStates]
    BY <1>10 DEF RequestRemove, Stops, Close, Ids, BullStates
  <2>7. reg' \in Registrations'
    BY <1>10 DEF RequestRemove, Stops, Close, NoReg, Registrations
  <2>8. live' \in Instances'
    BY <1>10 DEF RequestRemove, Stops, Close, NoLive, Instances
  <2>9. (mon \in Monitors /\ late \subseteq Monitors)'
    BY <1>10, ReportForms DEF RequestRemove, Stops, Close, NoMon, Monitors
  <2> QED  BY <1>n, <2>1, <2>2, <2>3, <2>4, <2>5, <2>6, <2>7, <2>8, <2>9
<1>11. CASE RequestShutdown
  <2>0. Entries' = Entries
    BY <1>11 DEF RequestShutdown, Close, Entries
  <2>1. row' \in Rows
    BY <1>11, <1>0, RowForms, PersistForms, ReportForms DEF RequestShutdown, Close
  <2>2. op' \in Operations
    BY <1>11, <1>0, OperationForms, EntryForms DEF RequestShutdown, Close
  <2>3. entry' \in Entries'
    BY <1>11, <1>0, <2>0, EntryForms, ReportForms DEF RequestShutdown, Close
  <2>4. (up \in BOOLEAN /\ timer \in BOOLEAN)'
    BY <1>11, Zenon DEF RequestShutdown, Close
  <2>5. (created \in 0 .. MaxWorkers /\ crashes \in Nat /\ \A w \in Ids : bull[w] = "none" <=> w > created)'
    BY <1>11 DEF RequestShutdown, Close, Ids, MakingInv, Making
  <2>6. bull' \in [Ids -> BullStates]
    BY <1>11 DEF RequestShutdown, Close, Ids, BullStates
  <2>7. reg' \in Registrations'
    BY <1>11 DEF RequestShutdown, Close, NoReg, Registrations
  <2>8. live' \in Instances'
    BY <1>11 DEF RequestShutdown, Close, NoLive, Instances
  <2>9. (mon \in Monitors /\ late \subseteq Monitors)'
    BY <1>11, ReportForms DEF RequestShutdown, Close, NoMon, Monitors
  <2> QED  BY <1>n, <2>1, <2>2, <2>3, <2>4, <2>5, <2>6, <2>7, <2>8, <2>9
<1>12. CASE Save
  <2>0. Entries' = Entries
    BY <1>12 DEF Save, Entries
  <2>1. row' \in Rows
    <3>1. op.auto \in BOOLEAN /\ op.active \in BOOLEAN
      BY DEF Operations
    <3> QED  BY <1>0, <1>12, <3>1, RowForms DEF Save
  <2>2. op' \in Operations
    BY <1>12, <1>0, OperationForms, EntryForms DEF Save
  <2>3. entry' \in Entries'
    BY <1>12, <1>0, <2>0, EntryForms, ReportForms DEF Save
  <2>4. (up \in BOOLEAN /\ timer \in BOOLEAN)'
    BY <1>12, Zenon DEF Save
  <2>5. (created \in 0 .. MaxWorkers /\ crashes \in Nat /\ \A w \in Ids : bull[w] = "none" <=> w > created)'
    BY <1>12 DEF Save, Ids, MakingInv, Making
  <2>6. bull' \in [Ids -> BullStates]
    BY <1>12 DEF Save, Ids, BullStates
  <2>7. reg' \in Registrations'
    BY <1>12 DEF Save, NoReg, Registrations
  <2>8. live' \in Instances'
    BY <1>12 DEF Save, NoLive, Instances
  <2>9. (mon \in Monitors /\ late \subseteq Monitors)'
    BY <1>12, ReportForms DEF Save, NoMon, Monitors
  <2> QED  BY <1>n, <2>1, <2>2, <2>3, <2>4, <2>5, <2>6, <2>7, <2>8, <2>9
<1>13. CASE Make
  <2>1. row' \in Rows
    BY <1>13, <1>0, RowForms, PersistForms, ReportForms DEF Make
  <2>2. op' \in Operations
    BY <1>13, <1>0, OperationForms, EntryForms DEF Make
  <2>3. entry' \in Entries'
    <3>1. created' = created + 1 /\ entry' = entry
      BY <1>13 DEF Make
    <3> QED  BY <3>1 DEF Entries
  <2>4. (up \in BOOLEAN /\ timer \in BOOLEAN)'
    BY <1>13, Zenon DEF Make
  <2>5. (created \in 0 .. MaxWorkers /\ crashes \in Nat /\ \A w \in Ids : bull[w] = "none" <=> w > created)'
    BY <1>13 DEF Make, Ids, MakingInv, Making
  <2>6. bull' \in [Ids -> BullStates]
    BY <1>13 DEF Make, Ids, BullStates
  <2>7. reg' \in Registrations'
    BY <1>13 DEF Make, NoReg, Registrations
  <2>8. live' \in Instances'
    BY <1>13 DEF Make, NoLive, Instances
  <2>9. (mon \in Monitors /\ late \subseteq Monitors)'
    <3>1. mon' = mon /\ late' = late /\ created' = created + 1
      BY <1>13 DEF Make
    <3>2. 0 .. created \subseteq 0 .. (created + 1)
      BY <1>c
    <3>3. Monitors \subseteq Monitors'
      BY <3>1, <3>2 DEF Monitors
    <3> QED  BY <3>1, <3>3
  <2> QED  BY <1>n, <2>1, <2>2, <2>3, <2>4, <2>5, <2>6, <2>7, <2>8, <2>9
<1>14. CASE NotConnected
  <2>0. Entries' = Entries
    BY <1>14 DEF NotConnected, Entries
  <2>1. row' \in Rows
    BY <1>14, <1>0, RowForms, PersistForms, ReportForms DEF NotConnected
  <2>2. op' \in Operations
    BY <1>14, <1>0, OperationForms, EntryForms DEF NotConnected
  <2>3. entry' \in Entries'
    BY <1>14, <1>0, <2>0, EntryForms, ReportForms DEF NotConnected
  <2>4. (up \in BOOLEAN /\ timer \in BOOLEAN)'
    BY <1>14, Zenon DEF NotConnected
  <2>5. (created \in 0 .. MaxWorkers /\ crashes \in Nat /\ \A w \in Ids : bull[w] = "none" <=> w > created)'
    BY <1>14 DEF NotConnected, Ids, MakingInv, Making
  <2>6. bull' \in [Ids -> BullStates]
    BY <1>14 DEF NotConnected, Ids, BullStates
  <2>7. reg' \in Registrations'
    BY <1>14 DEF NotConnected, NoReg, Registrations
  <2>8. live' \in Instances'
    BY <1>14 DEF NotConnected, NoLive, Instances
  <2>9. (mon \in Monitors /\ late \subseteq Monitors)'
    BY <1>14, ReportForms DEF NotConnected, NoMon, Monitors
  <2> QED  BY <1>n, <2>1, <2>2, <2>3, <2>4, <2>5, <2>6, <2>7, <2>8, <2>9
<1>15. CASE Connected
  <2>0. Entries' = Entries
    BY <1>15 DEF Connected, StartsInstance, Watch, Entries
  <2>1. row' \in Rows
    BY <1>15, <1>0, RowForms, PersistForms, ReportForms DEF Connected, StartsInstance, Watch
  <2>2. op' \in Operations
    BY <1>15, <1>0, OperationForms, EntryForms DEF Connected, StartsInstance, Watch
  <2>3. entry' \in Entries'
    <3>1. entry' = [w |-> created, status |-> "running", auto |-> op.auto,
         active |-> op.active]
      BY <1>15 DEF Connected
    <3>2. op.auto \in BOOLEAN /\ op.active \in BOOLEAN
      BY DEF Operations
    <3>3. created \in 0 .. created
      BY <1>c
    <3>4. "running" \in RowStatuses \union {"none"}
      BY <1>0
    <3>5. [w |-> created, status |-> "running", auto |-> op.auto, active |-> op.active]
            \in Entries
      BY <3>2, <3>3, <3>4, Zenon DEF Entries
    <3> QED  BY <2>0, <3>1, <3>5, Zenon
  <2>4. (up \in BOOLEAN /\ timer \in BOOLEAN)'
    BY <1>15, Zenon DEF Connected, StartsInstance, Watch
  <2>5. (created \in 0 .. MaxWorkers /\ crashes \in Nat /\ \A w \in Ids : bull[w] = "none" <=> w > created)'
    BY <1>15 DEF Connected, StartsInstance, Watch, Ids, MakingInv, Making
  <2>6. bull' \in [Ids -> BullStates]
    BY <1>15 DEF Connected, StartsInstance, Watch, Ids, BullStates
  <2>7. reg' \in Registrations'
    <3>1. reg' \in {reg, [w |-> created, active |-> op.active]} /\ created' = created
      BY <1>15 DEF Connected, Registrations
    <3>2. op.active \in BOOLEAN
      BY DEF Operations, Registrations
    <3> QED  BY <3>1, <3>2 DEF Registrations
  <2>8. live' \in Instances'
    BY <1>15 DEF Connected, StartsInstance, Watch, NoLive, Instances, Registrations
  <2>9. (mon \in Monitors /\ late \subseteq Monitors)'
    <3>1. /\ late' = late /\ created' = created /\ created \in 0 .. created
          /\ mon' \in {mon, [mon EXCEPT !.w = created], [Placeholder EXCEPT !.w = created]}
      BY <1>15, <1>c DEF Connected, Watch
    <3>2. \A m \in Monitors : [m EXCEPT !.w = created] \in Monitors
      BY <3>1 DEF Monitors
    <3>3. Monitors' = Monitors
      BY <3>1 DEF Monitors
    <3> QED  BY <1>q, <3>1, <3>2, <3>3, Zenon
  <2> QED  BY <1>n, <2>1, <2>2, <2>3, <2>4, <2>5, <2>6, <2>7, <2>8, <2>9
<1>16. CASE StopMarks
  <2>0. Entries' = Entries
    BY <1>16 DEF StopMarks, Entries
  <2>1. row' \in Rows
    BY <1>16, <1>0, RowForms, PersistForms, ReportForms DEF StopMarks
  <2>2. op' \in Operations
    BY <1>16, <1>0, OperationForms, EntryForms DEF StopMarks
  <2>3. entry' \in Entries'
    BY <1>16, <1>0, <2>0, EntryForms, ReportForms DEF StopMarks
  <2>4. (up \in BOOLEAN /\ timer \in BOOLEAN)'
    BY <1>16, Zenon DEF StopMarks
  <2>5. (created \in 0 .. MaxWorkers /\ crashes \in Nat /\ \A w \in Ids : bull[w] = "none" <=> w > created)'
    BY <1>16 DEF StopMarks, Ids, MakingInv, Making
  <2>6. bull' \in [Ids -> BullStates]
    BY <1>16 DEF StopMarks, Ids, BullStates
  <2>7. reg' \in Registrations'
    BY <1>16 DEF StopMarks, NoReg, Registrations
  <2>8. live' \in Instances'
    BY <1>16 DEF StopMarks, NoLive, Instances
  <2>9. (mon \in Monitors /\ late \subseteq Monitors)'
    BY <1>16, ReportForms DEF StopMarks, Unwatch, NoMon, Monitors
  <2> QED  BY <1>n, <2>1, <2>2, <2>3, <2>4, <2>5, <2>6, <2>7, <2>8, <2>9
<1>17. CASE RegistryStops
  <2>0. Entries' = Entries
    BY <1>17 DEF RegistryStops, Close, Proceed, Entries
  <2>1. row' \in Rows
    BY <1>17, <1>0, RowForms, PersistForms, ReportForms DEF RegistryStops, Close, Proceed
  <2>2. op' \in Operations
    BY <1>17, <1>0, OperationForms, EntryForms DEF RegistryStops, Close, Proceed
  <2>3. entry' \in Entries'
    BY <1>17, <1>0, <2>0, EntryForms, ReportForms DEF RegistryStops, Close, Proceed
  <2>4. (up \in BOOLEAN /\ timer \in BOOLEAN)'
    BY <1>17, Zenon DEF RegistryStops, Close, Proceed
  <2>5. (created \in 0 .. MaxWorkers /\ crashes \in Nat /\ \A w \in Ids : bull[w] = "none" <=> w > created)'
    BY <1>17 DEF RegistryStops, Close, Proceed, Ids, MakingInv, Making
  <2>6. bull' \in [Ids -> BullStates]
    BY <1>17 DEF RegistryStops, Close, Proceed, Ids, BullStates
  <2>7. reg' \in Registrations'
    BY <1>17 DEF RegistryStops, Close, Proceed, NoReg, Registrations
  <2>8. live' \in Instances'
    BY <1>17 DEF RegistryStops, Close, Proceed, NoLive, Instances
  <2>9. (mon \in Monitors /\ late \subseteq Monitors)'
    BY <1>17, ReportForms DEF RegistryStops, Close, Proceed, NoMon, Monitors
  <2> QED  BY <1>n, <2>1, <2>2, <2>3, <2>4, <2>5, <2>6, <2>7, <2>8, <2>9
<1>18. CASE RegistryStopped
  <2>0. Entries' = Entries
    BY <1>18 DEF RegistryStopped, Proceed, Entries
  <2>1. row' \in Rows
    BY <1>18, <1>0, RowForms, PersistForms, ReportForms DEF RegistryStopped, Proceed
  <2>2. op' \in Operations
    BY <1>18, <1>0, OperationForms, EntryForms DEF RegistryStopped, Proceed
  <2>3. entry' \in Entries'
    BY <1>18, <1>0, <2>0, EntryForms, ReportForms DEF RegistryStopped, Proceed
  <2>4. (up \in BOOLEAN /\ timer \in BOOLEAN)'
    BY <1>18, Zenon DEF RegistryStopped, Proceed
  <2>5. (created \in 0 .. MaxWorkers /\ crashes \in Nat /\ \A w \in Ids : bull[w] = "none" <=> w > created)'
    BY <1>18 DEF RegistryStopped, Proceed, Ids, MakingInv, Making
  <2>6. bull' \in [Ids -> BullStates]
    BY <1>18 DEF RegistryStopped, Proceed, Ids, BullStates
  <2>7. reg' \in Registrations'
    BY <1>18 DEF RegistryStopped, Proceed, NoReg, Registrations
  <2>8. live' \in Instances'
    BY <1>18 DEF RegistryStopped, Proceed, NoLive, Instances
  <2>9. (mon \in Monitors /\ late \subseteq Monitors)'
    BY <1>18, ReportForms DEF RegistryStopped, Proceed, NoMon, Monitors
  <2> QED  BY <1>n, <2>1, <2>2, <2>3, <2>4, <2>5, <2>6, <2>7, <2>8, <2>9
<1>19. CASE Removes
  <2>0. Entries' = Entries
    BY <1>19 DEF Removes, Entries
  <2>1. row' \in Rows
    BY <1>19, <1>0, RowForms, PersistForms, ReportForms DEF Removes
  <2>2. op' \in Operations
    BY <1>19, <1>0, OperationForms, EntryForms DEF Removes
  <2>3. entry' \in Entries'
    BY <1>19, <1>0, <2>0, EntryForms, ReportForms DEF Removes
  <2>4. (up \in BOOLEAN /\ timer \in BOOLEAN)'
    BY <1>19, Zenon DEF Removes
  <2>5. (created \in 0 .. MaxWorkers /\ crashes \in Nat /\ \A w \in Ids : bull[w] = "none" <=> w > created)'
    BY <1>19 DEF Removes, Ids, MakingInv, Making
  <2>6. bull' \in [Ids -> BullStates]
    BY <1>19 DEF Removes, Ids, BullStates
  <2>7. reg' \in Registrations'
    BY <1>19 DEF Removes, NoReg, Registrations
  <2>8. live' \in Instances'
    BY <1>19 DEF Removes, NoLive, Instances
  <2>9. (mon \in Monitors /\ late \subseteq Monitors)'
    BY <1>19, ReportForms DEF Removes, Unwatch, NoMon, Monitors
  <2> QED  BY <1>n, <2>1, <2>2, <2>3, <2>4, <2>5, <2>6, <2>7, <2>8, <2>9
<1>20. CASE Exit
  <2>0. Entries' = Entries
    BY <1>20 DEF Exit, Down, Unwatch, Entries
  <2>1. row' \in Rows
    BY <1>20, <1>0, RowForms, PersistForms, ReportForms DEF Exit, Down, Unwatch
  <2>2. op' \in Operations
    BY <1>20, <1>0, OperationForms, EntryForms DEF Exit, Down, Unwatch
  <2>3. entry' \in Entries'
    BY <1>20, <1>0, <2>0, EntryForms, ReportForms DEF Exit, Down, Unwatch
  <2>4. (up \in BOOLEAN /\ timer \in BOOLEAN)'
    BY <1>20, Zenon DEF Exit, Down, Unwatch
  <2>5. (created \in 0 .. MaxWorkers /\ crashes \in Nat /\ \A w \in Ids : bull[w] = "none" <=> w > created)'
    BY <1>20 DEF Exit, Down, Unwatch, Ids, MakingInv, Making
  <2>6. bull' \in [Ids -> BullStates]
    BY <1>20 DEF Exit, Down, Unwatch, Ids, BullStates
  <2>7. reg' \in Registrations'
    <3>1. (reg' = reg \/ reg' = NoReg) /\ created' = created
      BY <1>20, Zenon DEF Exit, Down
    <3>2. NoReg \in Registrations
      BY <1>c DEF NoReg, Registrations
    <3>3. Registrations' = Registrations
      BY <3>1 DEF Registrations
    <3> QED  BY <3>1, <3>2, <3>3
  <2>8. live' \in Instances'
    BY <1>20 DEF Exit, Down, Unwatch, NoLive, Instances
  <2>9. (mon \in Monitors /\ late \subseteq Monitors)'
    <3>1. mon' = NoMon /\ late' \in {{}, late, late \union {mon}} /\ created' = created
      BY <1>20 DEF Exit, Down, Unwatch
    <3>2. Monitors' = Monitors
      BY <3>1 DEF Monitors
    <3> QED  BY <1>p, <3>1, <3>2
  <2> QED  BY <1>n, <2>1, <2>2, <2>3, <2>4, <2>5, <2>6, <2>7, <2>8, <2>9
<1>21. CASE CleansUp
  <2>0. Entries' = Entries
    BY <1>21 DEF CleansUp, Entries
  <2>1. row' \in Rows
    BY <1>21, <1>0, RowForms, PersistForms, ReportForms DEF CleansUp
  <2>2. op' \in Operations
    BY <1>21, <1>0, OperationForms, EntryForms DEF CleansUp
  <2>3. entry' \in Entries'
    BY <1>21, <1>0, <2>0, EntryForms, ReportForms DEF CleansUp
  <2>4. (up \in BOOLEAN /\ timer \in BOOLEAN)'
    BY <1>21, Zenon DEF CleansUp
  <2>5. (created \in 0 .. MaxWorkers /\ crashes \in Nat /\ \A w \in Ids : bull[w] = "none" <=> w > created)'
    BY <1>21 DEF CleansUp, Ids, MakingInv, Making
  <2>6. bull' \in [Ids -> BullStates]
    BY <1>21 DEF CleansUp, Ids, BullStates
  <2>7. reg' \in Registrations'
    BY <1>21 DEF CleansUp, NoReg, Registrations
  <2>8. live' \in Instances'
    BY <1>21 DEF CleansUp, NoLive, Instances
  <2>9. (mon \in Monitors /\ late \subseteq Monitors)'
    BY <1>21, ReportForms DEF CleansUp, NoMon, Monitors
  <2> QED  BY <1>n, <2>1, <2>2, <2>3, <2>4, <2>5, <2>6, <2>7, <2>8, <2>9
<1>22. CASE Crash
  <2>0. Entries' = Entries
    BY <1>22 DEF Crash, Down, Entries
  <2>1. row' \in Rows
    BY <1>22, <1>0, RowForms, PersistForms, ReportForms DEF Crash, Down
  <2>2. op' \in Operations
    BY <1>22, <1>0, OperationForms, EntryForms DEF Crash, Down
  <2>3. entry' \in Entries'
    BY <1>22, <1>0, <2>0, EntryForms, ReportForms DEF Crash, Down
  <2>4. (up \in BOOLEAN /\ timer \in BOOLEAN)'
    BY <1>22, Zenon DEF Crash, Down
  <2>5. (created \in 0 .. MaxWorkers /\ crashes \in Nat /\ \A w \in Ids : bull[w] = "none" <=> w > created)'
    BY <1>22 DEF Crash, Down, Ids, MakingInv, Making
  <2>6. bull' \in [Ids -> BullStates]
    BY <1>22 DEF Crash, Down, Ids, BullStates
  <2>7. reg' \in Registrations'
    BY <1>22 DEF Crash, Down, NoReg, Registrations
  <2>8. live' \in Instances'
    BY <1>22 DEF Crash, Down, NoLive, Instances
  <2>9. (mon \in Monitors /\ late \subseteq Monitors)'
    BY <1>22, ReportForms DEF Crash, Down, NoMon, Monitors
  <2> QED  BY <1>n, <2>1, <2>2, <2>3, <2>4, <2>5, <2>6, <2>7, <2>8, <2>9
<1>23. CASE Boot
  <2>0. Entries' = Entries
    BY <1>23 DEF Boot, Boots, FromPersisted, Creating, Entries
  <2>1. row' \in Rows
    BY <1>23, <1>0, RowForms, PersistForms, ReportForms DEF Boot, Boots, FromPersisted,
         Creating
  <2>2. op' \in Operations
    BY <1>23, <1>0, OperationForms, EntryForms DEF Boot, Boots, FromPersisted, Creating
  <2>3. entry' \in Entries'
    BY <1>23, <1>0, <2>0, EntryForms, ReportForms DEF Boot, Boots, FromPersisted, Creating
  <2>4. (up \in BOOLEAN /\ timer \in BOOLEAN)'
    BY <1>23, Zenon DEF Boot, Boots, FromPersisted, Creating
  <2>5. (created \in 0 .. MaxWorkers /\ crashes \in Nat /\ \A w \in Ids : bull[w] = "none" <=> w > created)'
    BY <1>23 DEF Boot, Boots, FromPersisted, Creating, Ids, MakingInv, Making
  <2>6. bull' \in [Ids -> BullStates]
    BY <1>23 DEF Boot, Boots, FromPersisted, Creating, Ids, BullStates
  <2>7. reg' \in Registrations'
    BY <1>23 DEF Boot, Boots, FromPersisted, Creating, NoReg, Registrations
  <2>8. live' \in Instances'
    BY <1>23 DEF Boot, Boots, FromPersisted, Creating, NoLive, Instances
  <2>9. (mon \in Monitors /\ late \subseteq Monitors)'
    BY <1>23, ReportForms DEF Boot, Boots, FromPersisted, Creating, NoMon, Monitors
  <2> QED  BY <1>n, <2>1, <2>2, <2>3, <2>4, <2>5, <2>6, <2>7, <2>8, <2>9
<1>24. CASE CheckBegins
  <2>0. Entries' = Entries
    BY <1>24 DEF CheckBegins, Entries
  <2>1. row' \in Rows
    BY <1>24, <1>0, RowForms, PersistForms, ReportForms DEF CheckBegins
  <2>2. op' \in Operations
    BY <1>24, <1>0, OperationForms, EntryForms DEF CheckBegins
  <2>3. entry' \in Entries'
    BY <1>24, <1>0, <2>0, EntryForms, ReportForms DEF CheckBegins
  <2>4. (up \in BOOLEAN /\ timer \in BOOLEAN)'
    BY <1>24, Zenon DEF CheckBegins
  <2>5. (created \in 0 .. MaxWorkers /\ crashes \in Nat /\ \A w \in Ids : bull[w] = "none" <=> w > created)'
    BY <1>24 DEF CheckBegins, Ids, MakingInv, Making
  <2>6. bull' \in [Ids -> BullStates]
    BY <1>24 DEF CheckBegins, Ids, BullStates
  <2>7. reg' \in Registrations'
    BY <1>24 DEF CheckBegins, NoReg, Registrations
  <2>8. live' \in Instances'
    BY <1>24 DEF CheckBegins, NoLive, Instances
  <2>9. (mon \in Monitors /\ late \subseteq Monitors)'
    BY <1>24, ReportForms DEF CheckBegins, NoMon, Monitors
  <2> QED  BY <1>n, <2>1, <2>2, <2>3, <2>4, <2>5, <2>6, <2>7, <2>8, <2>9
<1>25. CASE CheckEnds
  <2>0. Entries' = Entries
    BY <1>25 DEF CheckEnds, MayEnd, Entries
  <2>1. row' \in Rows
    BY <1>25, <1>0, RowForms, PersistForms, ReportForms DEF CheckEnds, MayEnd
  <2>2. op' \in Operations
    BY <1>25, <1>0, OperationForms, EntryForms DEF CheckEnds, MayEnd
  <2>3. entry' \in Entries'
    BY <1>25, <1>0, <2>0, EntryForms, ReportForms DEF CheckEnds, MayEnd
  <2>4. (up \in BOOLEAN /\ timer \in BOOLEAN)'
    BY <1>25, Zenon DEF CheckEnds, MayEnd
  <2>5. (created \in 0 .. MaxWorkers /\ crashes \in Nat /\ \A w \in Ids : bull[w] = "none" <=> w > created)'
    BY <1>25 DEF CheckEnds, MayEnd, Ids, MakingInv, Making
  <2>6. bull' \in [Ids -> BullStates]
    BY <1>25 DEF CheckEnds, MayEnd, Ids, BullStates
  <2>7. reg' \in Registrations'
    BY <1>25 DEF CheckEnds, MayEnd, NoReg, Registrations
  <2>8. live' \in Instances'
    BY <1>25 DEF CheckEnds, MayEnd, NoLive, Instances
  <2>9. (mon \in Monitors /\ late \subseteq Monitors)'
    <3>1. PICK healthy \in BOOLEAN : mon' = Judged(mon, healthy)
      BY <1>25, Zenon DEF CheckEnds
    <3>2. Monitors' = Monitors /\ late' = late
      BY <1>25 DEF CheckEnds, Monitors
    <3> QED  BY <1>c, <3>1, <3>2, ReportForms
  <2> QED  BY <1>n, <2>1, <2>2, <2>3, <2>4, <2>5, <2>6, <2>7, <2>8, <2>9
<1>26. CASE LateCheckEnds
  <2>0. Entries' = Entries
    BY <1>26 DEF LateCheckEnds, MayEnd, Entries
  <2>1. row' \in Rows
    BY <1>26, <1>0, RowForms, PersistForms, ReportForms DEF LateCheckEnds, MayEnd
  <2>2. op' \in Operations
    BY <1>26, <1>0, OperationForms, EntryForms DEF LateCheckEnds, MayEnd
  <2>3. entry' \in Entries'
    BY <1>26, <1>0, <2>0, EntryForms, ReportForms DEF LateCheckEnds, MayEnd
  <2>4. (up \in BOOLEAN /\ timer \in BOOLEAN)'
    BY <1>26, Zenon DEF LateCheckEnds, MayEnd
  <2>5. (created \in 0 .. MaxWorkers /\ crashes \in Nat /\ \A w \in Ids : bull[w] = "none" <=> w > created)'
    BY <1>26 DEF LateCheckEnds, MayEnd, Ids, MakingInv, Making
  <2>6. bull' \in [Ids -> BullStates]
    BY <1>26 DEF LateCheckEnds, MayEnd, Ids, BullStates
  <2>7. reg' \in Registrations'
    BY <1>26 DEF LateCheckEnds, MayEnd, NoReg, Registrations
  <2>8. live' \in Instances'
    BY <1>26 DEF LateCheckEnds, MayEnd, NoLive, Instances
  <2>9. (mon \in Monitors /\ late \subseteq Monitors)'
    BY <1>26, ReportForms DEF LateCheckEnds, MayEnd, NoMon, Monitors
  <2> QED  BY <1>n, <2>1, <2>2, <2>3, <2>4, <2>5, <2>6, <2>7, <2>8, <2>9
<1>29. CASE RequestMonitoring
  <2>1. UNCHANGED <<up, row, bull, entry, reg, live, timer, late, op, created, crashes>>
    BY <1>29, Zenon DEF RequestMonitoring
  <2>2. mon' = Placeholder /\ Monitors' = Monitors
    BY <1>29, <2>1 DEF RequestMonitoring, Monitors
  <2> QED  BY <1>n, <1>q, <2>1, <2>2 DEF Entries, Registrations, Instances
<1>30. CASE RequestNoMonitoring
  <2>1. UNCHANGED <<up, row, bull, entry, reg, live, timer, op, created, crashes>>
    BY <1>30, Zenon DEF RequestNoMonitoring
  <2>2. mon' = NoMon /\ late' \in {late, late \union {mon}} /\ Monitors' = Monitors
    BY <1>30, <2>1 DEF RequestNoMonitoring, Unwatch, Monitors
  <2> QED  BY <1>n, <1>p, <2>1, <2>2 DEF Entries, Registrations, Instances
<1>27. ASSUME NEW w \in Ids, JobsEnd(w) PROVE TypeOK'
  BY <1>27, <1>n, SMTT(60) DEF JobsEnd, Ids, Entries, Monitors, Registrations, Instances,
       BullStates
<1>28. CASE UNCHANGED vars
  BY <1>28, <1>n DEF vars, Entries, Monitors, Registrations, Instances, BullStates
<1> QED
  BY <1>1, <1>2, <1>3, <1>4, <1>5, <1>6, <1>7, <1>8, <1>9, <1>10, <1>11, <1>12, <1>13,
       <1>14, <1>15, <1>16, <1>17, <1>18, <1>19, <1>20, <1>21, <1>22, <1>23, <1>24,
            <1>25, <1>26, <1>27, <1>28, <1>29, <1>30 DEF Next, Requests, Steps

\* The records stay tied together in every step: Inv is inductive.
LEMMA Inductive == Inv /\ [Next]_vars => Inv'
<1> SUFFICES ASSUME Inv, [Next]_vars PROVE Inv'
  OBVIOUS
<1>t. TypeOK'
  BY TypesKept
<1> USE LifecycleAssumption DEF Inv, TypeOK, Rows, Entries, Operations, Registrations,
     Instances, BullStates, Shapes, MakingInv, StoppingInv, StrayInv, MonitorInv,
          RegistryInv, RowInv, Making, Stopping, Alive, Entered, Registered, Exists,
               Idle, Ids, NoRow, NoEntry, NoReg, NoLive, NoMon, NoOp, RowStatuses,
                    Monitors, memory, notes, bounds
<1>1. CASE RequestCreate
  <2>0. /\ Idle /\ ~Exists /\ ~Entered
        /\ UNCHANGED <<up, bull, memory, shut, deserted, bounds>>
        /\ \/ \E active \in BOOLEAN :
                Creating(TRUE, active) /\ untold' = ~active /\ UNCHANGED row
           \/ UNCHANGED <<op, untold>>
    BY <1>1, Zenon DEF RequestCreate, Creating
  <2>1. Shapes'
    BY <2>0 DEF Creating, BeginMaking
  <2>2. MakingInv'
    BY <2>0 DEF Creating, BeginMaking
  <2>3. StoppingInv'
    BY <2>0 DEF Creating, BeginMaking
  <2>4. StrayInv'
    BY <2>0 DEF Creating, BeginMaking
  <2>5. MonitorInv'
    BY <2>0 DEF Creating, BeginMaking
  <2>6. RegistryInv'
    BY <2>0 DEF Creating, BeginMaking
  <2>7. RowInv'
    BY <2>0 DEF Creating, BeginMaking
  <2> QED  BY <1>t, <2>1, <2>2, <2>3, <2>4, <2>5, <2>6, <2>7 DEF Inv
<1>2. CASE RequestStart
  BY <1>2, <1>t, SMTT(30) DEF RequestStart, Starts, StartsFromPersisted,
       FromPersisted, Creating, BeginMaking, StartsInstance, Active, Persist
<1>3. CASE RequestStop
  BY <1>3, <1>t, SMTT(30) DEF RequestStop, Stops, Close, BeginClosing, Active, Persist
<1>4. CASE RequestRestart
  BY <1>4, <1>t, SMTT(30) DEF RequestRestart, Restarts, Stops, Close, BeginClosing,
       Active, Persist, FromPersisted, Creating, BeginMaking
<1>5. CASE RequestPause
  BY <1>5, <1>t, SMTT(60) DEF RequestPause, Active, Persist
<1>6. CASE RequestResume
  BY <1>6, <1>t, SMTT(60) DEF RequestResume, Active, Persist
<1>7. CASE RequestAutoStart
  <2>a. PICK auto \in BOOLEAN :
           LET e == IF Entered THEN [entry EXCEPT !.auto = auto] ELSE entry
               r == [row EXCEPT !.auto = auto]
           IN  /\ entry' \in {entry, e, [e EXCEPT !.status = "running"]}
               /\ row' \in {r, [r EXCEPT !.status = "running"]}
               /\ entry' # entry => Entered
    BY <1>7, Zenon DEF RequestAutoStart
  <2>b. /\ entry'.w = entry.w /\ entry'.active = entry.active
        /\ row'.active = row.active /\ Exists /\ Exists' /\ bull' = bull
    <3>1. row'.active = row.active /\ row'.status # "absent"
      BY <1>7, <2>a DEF RequestAutoStart
    <3>2. CASE ~Entered
      BY <1>7, <2>a, <3>1, <3>2, Zenon DEF RequestAutoStart
    <3>3. CASE Entered
      <4> DEFINE e == [entry EXCEPT !.auto = auto]
      <4>1. entry' \in {entry, e, [e EXCEPT !.status = "running"]}
        BY <2>a, <3>3
      <4>2. entry'.w = entry.w /\ entry'.active = entry.active
        BY <4>1
      <4>3. Exists /\ bull' = bull
        BY <1>7, Zenon DEF RequestAutoStart
      <4> QED  BY <3>1, <4>2, <4>3
    <3> QED  BY <3>2, <3>3
  <2>c. Entered' => Entered
    BY <2>a, Zenon
  <2>1. Shapes'
    BY <1>7, SMTT(20) DEF RequestAutoStart, Active, Creating, BeginMaking,
         StartsInstance
  <2>2. MakingInv'
    BY <1>7, SMTT(20) DEF RequestAutoStart, Active, Creating, BeginMaking,
         StartsInstance
  <2>3. StoppingInv'
    BY <1>7, SMTT(20) DEF RequestAutoStart, Active, Creating, BeginMaking,
         StartsInstance
  <2>4. StrayInv'
    BY <1>7, SMTT(20) DEF RequestAutoStart, Active, Creating, BeginMaking,
         StartsInstance
  <2>5. MonitorInv'
    BY <1>7, SMTT(20) DEF RequestAutoStart, Active, Creating, BeginMaking,
         StartsInstance
  <2>6. RegistryInv'
    BY <1>7, SMTT(20) DEF RequestAutoStart, Active, Creating, BeginMaking,
         StartsInstance
  <2>d. untold' = untold
    BY <1>7, Zenon DEF RequestAutoStart
  <2>7. RowInv'
    BY <1>t, <2>b, <2>c, <2>d
  <2> QED  BY <1>t, <2>1, <2>2, <2>3, <2>4, <2>5, <2>6, <2>7 DEF Inv
<1>8. CASE RequestActive
  <2>a. PICK active \in BOOLEAN :
           /\ Deactivates(active)
           /\ reg' = IF Registered THEN [reg EXCEPT !.active = active] ELSE reg
    BY <1>8, Zenon DEF RequestActive
  <2>b. reg'.w = reg.w /\ (Registered' <=> Registered)
    <3>1. CASE Registered
      <4>1. reg' = [reg EXCEPT !.active = active] /\ reg.w # 0
        BY <2>a, <3>1
      <4> QED  BY <3>1, <4>1
    <3>2. CASE ~Registered
      BY <2>a, <3>2
    <3> QED  BY <3>1, <3>2
  <2>c. row'.status = row.status /\ row'.active = active
    BY <2>a DEF Deactivates
  <2>d. /\ entry'.w = entry.w /\ entry'.status = entry.status
        /\ Entered => entry'.active = active
        /\ Entered' <=> Entered
    <3>1. CASE Entered
      <4>1. entry' = [entry EXCEPT !.active = active] /\ entry.w # 0
        BY <2>a, <3>1 DEF Deactivates
      <4>2. entry'.w = entry.w /\ entry'.status = entry.status /\ entry'.active = active
        BY <4>1
      <4> QED  BY <3>1, <4>1, <4>2
    <3>2. CASE ~Entered
      <4>1. entry' = entry
        BY <2>a, <3>2 DEF Deactivates
      <4> QED  BY <3>2, <4>1, Zenon
    <3> QED  BY <3>1, <3>2
  <2>e. /\ op = NoOp /\ Exists /\ UNCHANGED <<up, live, timer, mon, late, deserted, bounds>>
        /\ \/ Entered /\ ~active /\ Close(entry.w) /\ BeginClosing("return")
           \/ UNCHANGED <<bull, op>> /\ (active \/ ~Entered)
    BY <1>8, <2>a DEF RequestActive, Deactivates
  <2>1. Shapes'
    BY <2>b, <2>c, <2>d, <2>e, SMTT(30) DEF BeginClosing
  <2>2. MakingInv'
    BY <1>8, SMTT(20) DEF RequestActive, Deactivates, Close, BeginClosing
  <2>3. StoppingInv'
    BY <1>8, SMTT(20) DEF RequestActive, Deactivates, Close, BeginClosing
  <2>4. StrayInv'
    BY <1>8, SMTT(20) DEF RequestActive, Deactivates, Close, BeginClosing
  <2>5. MonitorInv'
    BY <1>8, SMTT(20) DEF RequestActive, Deactivates, Close, BeginClosing
  <2>6. RegistryInv'
    BY <2>b, <2>d, <2>e, SMTT(30) DEF BeginClosing
  <2>7. RowInv'
    BY <2>c, <2>d, <2>e, SMTT(30) DEF Close
  <2> QED  BY <1>t, <2>1, <2>2, <2>3, <2>4, <2>5, <2>6, <2>7 DEF Inv
<1>9. CASE RequestUpdate
  <2>a. PICK active \in BOOLEAN :
           /\ row' = [row EXCEPT !.active = active]
           /\ entry' = IF Entered THEN [entry EXCEPT !.active = active] ELSE entry
           /\ untold' = (~active /\ (untold \/ (Entered /\ row.active)))
           /\ \/ /\ Entered /\ active /\ created < MaxWorkers
                 /\ Close(entry.w) /\ BeginClosing("restart")
              \/ UNCHANGED <<bull, op>>
    BY <1>9, Zenon DEF RequestUpdate
  <2>c. row'.status = row.status /\ row'.active = active
    BY <2>a
  <2>d. /\ entry'.w = entry.w /\ entry'.status = entry.status
        /\ Entered => entry'.active = active
        /\ Entered' <=> Entered
    <3>1. CASE Entered
      <4>1. entry' = [entry EXCEPT !.active = active] /\ entry.w # 0
        BY <2>a, <3>1
      <4>2. entry'.w = entry.w /\ entry'.status = entry.status /\ entry'.active = active
        BY <4>1
      <4> QED  BY <3>1, <4>1, <4>2
    <3>2. CASE ~Entered
      <4>1. entry' = entry
        BY <2>a, <3>2
      <4> QED  BY <3>2, <4>1, Zenon
    <3> QED  BY <3>1, <3>2
  <2>e. op = NoOp /\ Exists /\ UNCHANGED <<up, reg, live, timer, mon, late, deserted, bounds>>
    BY <1>9 DEF RequestUpdate
  <2>1. Shapes'
    BY <2>a, <2>d, <2>e, SMTT(30) DEF BeginClosing
  <2>2. MakingInv'
    BY <2>a, <2>c, <2>d, <2>e, SMTT(30) DEF Close, BeginClosing
  <2>3. StoppingInv'
    BY <2>a, <2>c, <2>d, <2>e, SMTT(30) DEF Close, BeginClosing
  <2>4. StrayInv'
    BY <2>a, <2>c, <2>d, <2>e, SMTT(30) DEF Close, BeginClosing
  <2>5. MonitorInv'
    BY <2>a, <2>c, <2>d, <2>e, SMTT(30) DEF Close, BeginClosing
  <2>6. RegistryInv'
    BY <2>a, <2>c, <2>d, <2>e, SMTT(30) DEF Close, BeginClosing
  <2>7. RowInv'
    BY <2>a, <2>c, <2>d, <2>e, SMTT(30) DEF Close
  <2> QED  BY <1>t, <2>1, <2>2, <2>3, <2>4, <2>5, <2>6, <2>7 DEF Inv
<1>10. CASE RequestRemove
  BY <1>10, <1>t, SMTT(30) DEF RequestRemove, Stops, Close, BeginClosing, Persist
<1>11. CASE RequestShutdown
  BY <1>11, <1>t, SMTT(30) DEF RequestShutdown, Persist, Close, BeginClosing, Goto
<1>12. CASE Save
  BY <1>12, <1>t, SMTT(60) DEF Save, Goto
<1>13. CASE Make
  BY <1>13, <1>t, SMTT(30) DEF Make, Persist, Goto
<1>14. CASE NotConnected
  BY <1>14, <1>t, SMTT(30) DEF NotConnected, Persist
<1>15. CASE Connected
  <2> DEFINE r == IF Registered THEN reg ELSE [w |-> created, active |-> op.active]
  <2>0. /\ op.at = "verify" /\ bull[created] = "running" /\ reg' = r /\ op' = NoOp
        /\ entry' = [w |-> created, status |-> "running", auto |-> op.auto,
                     active |-> op.active]
        /\ UNCHANGED <<up, bull, late, notes, bounds>>
        /\ \/ StartsInstance(r) /\ mon' = Watch(created) /\ Persist("running")
           \/ Persist("failed") /\ UNCHANGED <<live, timer, mon>>
    BY <1>15, Zenon DEF Connected
  <2>a. created > 0 /\ ~Entered /\ mon.w = 0 /\ row.active = op.active /\ Exists
        /\ (op.active \/ untold) /\ up = TRUE
    BY <2>0
  <2>b. r.w # 0 /\ reg'.w = r.w /\ Registered'
    BY <2>0, <2>a
  <2>c. row'.active = row.active /\ row'.status # "absent"
    BY <2>0, <2>a DEF Persist
  <2>d. mon'.w \in {0, created} /\ mon'.check = mon.check
    BY <2>0, <2>a DEF Watch, Placeholder
  <2>e. \/ UNCHANGED <<live, timer>>
        \/ live' = [w |-> r.w, status |-> "running"] /\ timer' = FALSE
    BY <2>0 DEF StartsInstance
  <2>f. entry'.w = created /\ entry'.active = op.active /\ Entered'
    BY <2>0, <2>a
  <2> HIDE DEF r
  <2>1. Shapes'
    BY <2>0, <2>a, <2>b, <2>d, <2>e, <2>f
  <2>2. MakingInv'
    BY <2>0
  <2>3. StoppingInv'
    BY <2>0
  <2>4. StrayInv'
    BY <2>0, <2>f
  <2>5. MonitorInv'
    BY <2>0, <2>d, <2>f
  <2>6. RegistryInv'
    BY <2>0, <2>b, <2>e, <2>f
  <2>7. RowInv'
    BY <2>0, <2>a, <2>c, <2>f
  <2> QED  BY <1>t, <2>1, <2>2, <2>3, <2>4, <2>5, <2>6, <2>7 DEF Inv
<1>16. CASE StopMarks
  BY <1>16, <1>t, SMTT(60) DEF StopMarks, Unwatch, Persist, Goto
<1>17. CASE RegistryStops
  BY <1>17, <1>t, SMTT(30) DEF RegistryStops, Close, BeginClosing, Proceed,
       BeginMaking, Goto
<1>18. CASE RegistryStopped
  BY <1>18, <1>t, SMTT(30) DEF RegistryStopped, Proceed, BeginMaking, Goto
<1>19. CASE Removes
  BY <1>19, <1>t, SMTT(30) DEF Removes, Unwatch
<1>20. CASE Exit
  BY <1>20, <1>t, SMTT(30) DEF Exit, Down, Unwatch
<1>21. CASE CleansUp
  BY <1>21, <1>t, SMTT(30) DEF CleansUp
<1>22. CASE Crash
  BY <1>22, <1>t, SMTT(30) DEF Crash, Down
<1>23. CASE Boot
  BY <1>23, <1>t, SMTT(30) DEF Boot, Boots, FromPersisted, Creating, BeginMaking
<1>24. CASE CheckBegins
  BY <1>24, <1>t, SMTT(60) DEF CheckBegins
<1>25. CASE CheckEnds
  BY <1>25, <1>t, SMTT(30) DEF CheckEnds, MayEnd, Judged, Reports, Persist
<1>26. CASE LateCheckEnds
  BY <1>26, <1>t, SMTT(60) DEF LateCheckEnds, MayEnd, Judged, Reports, Persist
<1>29. CASE RequestMonitoring
  BY <1>29, <1>t, SMTT(30) DEF RequestMonitoring, Placeholder
<1>30. CASE RequestNoMonitoring
  BY <1>30, <1>t, SMTT(30) DEF RequestNoMonitoring, Unwatch
<1>27. ASSUME NEW w \in Ids, JobsEnd(w) PROVE Inv'
  BY <1>27, <1>t, SMTT(60) DEF JobsEnd
<1>28. CASE UNCHANGED vars
  BY <1>28, <1>t, SMTT(60) DEF vars
<1> QED
  BY <1>1, <1>2, <1>3, <1>4, <1>5, <1>6, <1>7, <1>8, <1>9, <1>10, <1>11, <1>12, <1>13,
       <1>14, <1>15, <1>16, <1>17, <1>18, <1>19, <1>20, <1>21, <1>22, <1>23, <1>24,
            <1>25, <1>26, <1>27, <1>28, <1>29, <1>30 DEF Next, Requests, Steps

\* The process starts with nothing in memory and no row.
LEMMA InitInv == Init => Inv
<1> SUFFICES ASSUME Init PROVE Inv
  OBVIOUS
<1> USE LifecycleAssumption DEF Init, NoRow, NoEntry, NoReg, NoLive, NoMon, NoOp
<1>1. TypeOK
  <2>1. row \in Rows /\ op \in Operations
    BY DEF Rows, RowStatuses, Operations
  <2>2. entry \in Entries /\ reg \in Registrations /\ live \in Instances
    BY DEF Entries, RowStatuses, Registrations, Instances
  <2>3. mon \in Monitors /\ late \subseteq Monitors
    BY DEF Monitors
  <2>4. bull \in [Ids -> BullStates] /\ \A w \in Ids : bull[w] = "none" <=> w > created
    BY DEF Ids, BullStates
  <2>5. up \in BOOLEAN /\ timer \in BOOLEAN
    BY Zenon
  <2>6. created \in 0 .. MaxWorkers /\ crashes \in Nat
    OBVIOUS
  <2> QED  BY <2>1, <2>2, <2>3, <2>4, <2>5, <2>6 DEF TypeOK
<1>2. Shapes /\ MakingInv /\ StoppingInv
  BY DEF Shapes, MakingInv, StoppingInv, Making, Stopping
<1>3. StrayInv /\ MonitorInv /\ RegistryInv /\ RowInv
  BY DEF StrayInv, MonitorInv, RegistryInv, RowInv, Entered, Registered, Alive, Ids
<1> QED  BY <1>1, <1>2, <1>3 DEF Inv

\* The five records of a worker stay tied together.
LEMMA Invariance == Spec => []Inv
<1>1. Init => Inv
  BY InitInv
<1>2. Inv /\ [Next]_vars => Inv'
  BY Inductive
<1> QED  BY <1>1, <1>2, PTL DEF Spec

\* Every record names a worker that was created, in every state.
THEOREM TypeCorrect == Spec => []TypeOK
<1>0. Spec => []Inv
  BY Invariance
<1>1. Inv => TypeOK
  BY DEF Inv
<1> QED  BY <1>0, <1>1, PTL

\* No start, stop, restart, removal, shutdown, crash or clean-up leaves a worker
\* that takes jobs and that the factory cannot stop, but one: the worker create()
\* gave up because Redis did not answer (deserted).
THEOREM NoneStrays == Spec => []NoStrayWorker
<1>0. Spec => []Inv
  BY Invariance
<1>1. Inv => NoStrayWorker
  BY DEF Inv, StrayInv, NoStrayWorker
<1> QED  BY <1>0, <1>1, PTL

\* The health monitor never watches a worker that was closed.
THEOREM MonitorsTheWorker == Spec => []WatchesTheWorker
<1>0. Spec => []Inv
  BY Invariance
<1>1. Inv => WatchesTheWorker
  BY DEF Inv, MonitorInv, WatchesTheWorker, Idle, NoOp
<1> QED  BY <1>0, <1>1, PTL

\* The clean-up timer is armed exactly for a stopped instance.
THEOREM TimerForStopped == Spec => []CleanupArmed
<1>0. Spec => []Inv
  BY Invariance
<1>1. Inv => CleanupArmed
  BY DEF Inv, RegistryInv, CleanupArmed
<1> QED  BY <1>0, <1>1, PTL

\* remove() leaves nothing of the worker that works or that no timer cleans, but
\* a worker deserted at its creation.
THEOREM RemoveIsComplete == Spec => []RemovedLeavesNothing
<1>0. Spec => []Inv
  BY Invariance
<1>1. Inv => RemovedLeavesNothing
  <2> SUFFICES ASSUME Inv, Idle, ~Exists
               PROVE  /\ ~Entered /\ mon.w = 0 /\ (live # NoLive => timer)
                      /\ \A w \in Ids \ deserted : ~Alive(w)
    BY DEF RemovedLeavesNothing
  <2>1. ~Entered
    BY DEF Inv, RowInv
  <2>2. mon.w = 0
    BY <2>1 DEF Inv, MonitorInv
  <2>3. live # NoLive => timer
    BY <2>1 DEF Inv, RegistryInv, TypeOK, Instances, Shapes, Idle, NoOp
  <2>4. \A w \in Ids \ deserted : ~Alive(w)
    BY <2>1, LifecycleAssumption DEF Inv, StrayInv, Idle, NoOp, Entered, NoEntry, Ids
  <2> QED  BY <2>1, <2>2, <2>3, <2>4
<1> QED  BY <1>0, <1>1, PTL

\* A worker that setWorkerActiveStatus() switched off takes no jobs until it is
\* switched on (one made inactive by POST or PUT is not stopped: untold).
THEOREM SwitchedOffIsIdle == Spec => []InactiveIsIdle
<1>0. Spec => []Inv
  BY Invariance
<1>1. Inv => InactiveIsIdle
  <2> SUFFICES ASSUME Inv, Idle, Exists, ~row.active, ~untold,
                      NEW w \in Ids \ deserted, Alive(w)
               PROVE  FALSE
    BY DEF InactiveIsIdle
  <2>1. entry.w = w
    BY DEF Inv, StrayInv, Idle, NoOp
  <2>2. Entered
    BY <2>1, LifecycleAssumption DEF Entered, NoEntry, Ids
  <2> QED  BY <2>1, <2>2 DEF Inv, RowInv
<1> QED  BY <1>0, <1>1, PTL
=============================================================================
