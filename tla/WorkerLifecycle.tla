--------------------------- MODULE WorkerLifecycle ---------------------------
(***************************************************************************)
(* The life of one named worker in one process: WorkerFactory.ts of         *)
(* packages/workers (create, start, stop, restart, pause, resume, remove,   *)
(* ...) behind the handlers of http/WorkerController.ts, the registry of    *)
(* WorkerRegistry.ts with its clean-up timer, the checks of HealthMonitor.ts *)
(* and the boot of WorkerInit.ts.                                           *)
(*                                                                         *)
(* Five records of the same worker have to agree: the row in the store, the *)
(* factory's entry, the registry's registration and instance, and the       *)
(* health monitor's state.  Operations are awaited one after another (op);  *)
(* health checks, the clean-up timer, closing workers and crashes interleave *)
(* with their steps.  A round trip to the store is part of the step that    *)
(* uses its answer.  BullMQ's Worker is modelled from its use.              *)
(***************************************************************************)
EXTENDS Naturals

CONSTANTS
    MaxWorkers,  \* bound: workers created
    MaxCrashes   \* bound: deaths of the process

ASSUME LifecycleAssumption == MaxWorkers \in Nat /\ MaxCrashes \in Nat

Ids == 1 .. MaxWorkers

VARIABLES
    up,       \* the process runs
    row,      \* the record in the store
    bull,     \* bull[w]: what BullMQ's worker w does
    entry,    \* WorkerFactory's entry
    reg,      \* WorkerRegistry's registration, whose factory() holds a worker
    live,     \* WorkerRegistry's instance
    timer,    \* the clean-up timer is armed
    mon,      \* HealthMonitor's state
    late,     \* states removed from the monitor while a check was in flight
    shut,     \* WorkerShutdown's isShuttingDown
    op,       \* the operation in progress
    deserted, \* history: consuming workers that create() gave up
    untold,   \* history: the row was made inactive over a consuming worker by
              \* POST or PUT, which stop nothing
    created, crashes

memory == <<entry, reg, live, timer, mon, late>>
notes == <<shut, deserted, untold>>
bounds == <<created, crashes>>
vars == <<up, row, bull, memory, op, notes, bounds>>

RowStatuses == {"absent", "creating", "starting", "running", "failed", "stopped"}

NoRow == [status |-> "absent", auto |-> FALSE, active |-> TRUE]
NoEntry == [w |-> 0, status |-> "none", auto |-> FALSE, active |-> TRUE]
NoReg == [w |-> 0, active |-> TRUE]
NoLive == [w |-> 0, status |-> "none"]
NoMon == [w |-> 0, status |-> "none", fails |-> 0, check |-> "none"]
Placeholder == [NoMon EXCEPT !.status = "starting"]
NoOp == [at |-> "idle", then |-> "return", auto |-> FALSE, active |-> TRUE]

Init ==
    /\ up = TRUE /\ row = NoRow
    /\ bull = [w \in Ids |-> "none"]
    /\ entry = NoEntry /\ reg = NoReg /\ live = NoLive /\ timer = FALSE
    /\ mon = NoMon /\ late = {} /\ op = NoOp
    /\ shut = FALSE /\ deserted = {} /\ untold = FALSE
    /\ created = 0 /\ crashes = 0

Exists == row.status # "absent"
Entered == entry # NoEntry
Registered == reg # NoReg

Goto(l) == op' = [op EXCEPT !.at = l]
BeginMaking(auto, active) ==
    op' = [at |-> "save", then |-> "return", auto |-> auto, active |-> active]
BeginClosing(then) ==
    op' = [at |-> "closing", then |-> then, auto |-> FALSE, active |-> TRUE]
Idle == up /\ op = NoOp
Persist(s) == row' = IF Exists THEN [row EXCEPT !.status = s] ELSE row

\* HealthMonitor.unregister(): a check in flight goes on
Unwatch ==
    /\ late' = IF mon.check = "none" THEN late ELSE late \union {mon}
    /\ mon' = NoMon

\* ensureActiveWorker() of the handlers
Active == (Entered => entry.active) /\ (Exists => row.active)

-----------------------------------------------------------------------------
(* Creating a worker *)

\* create() of a configuration: refused while the factory has an entry
Creating(auto, active) ==
    /\ ~Entered /\ created < MaxWorkers
    /\ BeginMaking(auto, active)

\* POST of a new worker: created, or only registered
RequestCreate ==
    /\ Idle /\ ~Exists
    /\ \E auto, active \in BOOLEAN :
          \/ /\ auto /\ Creating(TRUE, active)
             /\ untold' = ~active
             /\ UNCHANGED row
          \/ /\ ~Entered
             /\ row' = [status |-> "stopped", auto |-> auto, active |-> active]
             /\ UNCHANGED <<op, untold>>
    /\ UNCHANGED <<up, bull, memory, shut, deserted, bounds>>

\* startFromPersisted(): a manual start always starts, and so saves autoStart
FromPersisted == Exists /\ row.active /\ Creating(TRUE, TRUE)

Save ==
    /\ op.at = "save"
    /\ row' = [status |-> "creating", auto |-> op.auto, active |-> op.active]
    /\ Goto("make")
    /\ UNCHANGED <<up, bull, memory, notes, bounds>>

\* new Worker(): it consumes from now on, unless autorun is off
Make ==
    /\ op.at = "make"
    /\ created' = created + 1
    /\ bull' = [bull EXCEPT ![created + 1] = IF op.auto THEN "running" ELSE "idle"]
    /\ Persist("starting")
    /\ Goto("verify")
    /\ UNCHANGED <<up, memory, notes, crashes>>

\* waitForWorkerConnection() gives up, for a worker that does not run or whose
\* Redis does not answer: the worker is not closed
NotConnected ==
    /\ op.at = "verify"
    /\ deserted' = IF bull[created] = "running" THEN deserted \union {created}
                                               ELSE deserted
    /\ Persist("failed")
    /\ op' = NoOp
    /\ UNCHANGED <<up, bull, memory, shut, untold, bounds>>

\* Seeded fault: the clean-up timer is left armed
StartsOverTimer(r) ==
    /\ live' = IF live.status = "running" THEN live
                                          ELSE [w |-> r.w, status |-> "running"]
    /\ UNCHANGED timer

\* WorkerRegistry.start(): a new instance from the registration's factory
StartsInstance(r) ==
    IF live.status = "running"
    THEN UNCHANGED <<live, timer>>
    ELSE live' = [w |-> r.w, status |-> "running"] /\ timer' = FALSE

\* HealthMonitor.register(): startMonitoring() may have left a placeholder
Watch(w) ==
    IF mon # NoMon THEN [mon EXCEPT !.w = w] ELSE [Placeholder EXCEPT !.w = w]

\* the connection stands: the factory's entry, the registration (an earlier one
\* stays), the registry's instance and the health monitor
Connected ==
    /\ op.at = "verify"
    /\ bull[created] = "running"
    /\ LET r == IF Registered THEN reg ELSE [w |-> created, active |-> op.active]
       IN  /\ reg' = r
           /\ entry' = [w |-> created, status |-> "running",
                        auto |-> op.auto, active |-> op.active]
           /\ \/ /\ r.active
                 /\ StartsInstance(r)
                 /\ mon' = Watch(created)
                 /\ Persist("running")
              \/ /\ ~r.active
                 /\ Persist("failed")
                 /\ UNCHANGED <<live, timer, mon>>
    /\ op' = NoOp
    /\ UNCHANGED <<up, bull, late, notes, bounds>>

-----------------------------------------------------------------------------
(* Stopping a worker *)

Close(w) ==
    bull' = [bull EXCEPT ![w] = IF @ \in {"running", "paused", "idle"} THEN "closing"
                                                                       ELSE @]

\* stop(): the worker fetches no more jobs once close() is called
Stops(then) ==
    /\ Exists
    /\ \/ /\ Entered
          /\ Close(entry.w)
          /\ BeginClosing(then)
          /\ UNCHANGED row
       \/ /\ ~Entered
          /\ Persist("stopped")
          /\ UNCHANGED <<op, bull>>

\* Seeded fault: the health monitor is not told
StopMarksOnly ==
    /\ op.at = "closing"
    /\ entry' = [entry EXCEPT !.status = "stopped"]
    /\ IF op.then = "exit" THEN UNCHANGED row ELSE Persist("stopped")
    /\ Goto("registry")
    /\ UNCHANGED <<up, bull, reg, live, timer, mon, late, notes, bounds>>

\* close() returned, or its 5 s are over
StopMarks ==
    /\ op.at = "closing"
    /\ entry' = [entry EXCEPT !.status = "stopped"]
    /\ Unwatch
    /\ IF op.then = "exit" THEN UNCHANGED row ELSE Persist("stopped")
    /\ Goto("registry")
    /\ UNCHANGED <<up, bull, reg, live, timer, notes, bounds>>

\* Seeded fault: remove() stops the worker again
ProceedAgain ==
    \/ /\ op.then = "return"
       /\ op' = NoOp
       /\ UNCHANGED entry
    \/ /\ op.then = "remove"
       /\ Goto("closing")
       /\ UNCHANGED entry
    \/ /\ op.then = "restart"
       /\ entry' = NoEntry
       /\ BeginMaking(entry.auto, entry.active)
    \/ /\ op.then = "exit"
       /\ entry' = NoEntry
       /\ Goto("exit")

\* what remove() and restart() do next
Proceed ==
    \/ /\ op.then = "return"
       /\ op' = NoOp
       /\ UNCHANGED entry
    \/ /\ op.then = "remove"
       /\ Goto("remove")
       /\ UNCHANGED entry
    \/ /\ op.then = "restart"
       /\ entry' = NoEntry
       /\ BeginMaking(entry.auto, entry.active)
    \/ /\ op.then = "exit"
       /\ entry' = NoEntry
       /\ Goto("exit")

\* WorkerRegistry.stop() closes the worker of its instance
RegistryStops ==
    /\ op.at = "registry"
    /\ \/ /\ live.status = "running"
          /\ live' = [live EXCEPT !.status = "stopping"]
          /\ Close(live.w)
          /\ Goto("settle")
          /\ UNCHANGED entry
       \/ /\ live.status # "running"
          /\ Proceed
          /\ UNCHANGED <<live, bull>>
    /\ UNCHANGED <<up, row, reg, timer, mon, late, notes, bounds>>

\* ... and waits for it without a limit, then arms the clean-up timer
RegistryStopped ==
    /\ op.at = "settle"
    /\ bull[live.w] = "closed"
    /\ live' = [live EXCEPT !.status = "stopped"]
    /\ timer' = TRUE
    /\ Proceed
    /\ UNCHANGED <<up, row, bull, reg, mon, late, notes, bounds>>

\* Seeded fault: only the row is removed
RemovesRow ==
    /\ op.at = "remove"
    /\ row' = NoRow /\ op' = NoOp
    /\ UNCHANGED <<up, bull, memory, notes, bounds>>

\* the end of remove()
Removes ==
    /\ op.at = "remove"
    /\ reg' = NoReg /\ live' = NoLive /\ timer' = FALSE
    /\ Unwatch
    /\ entry' = NoEntry
    /\ row' = NoRow /\ op' = NoOp
    /\ UNCHANGED <<up, bull, notes, bounds>>

-----------------------------------------------------------------------------
(* The other requests *)

RequestStop ==
    /\ Idle /\ Active
    /\ Stops("return")
    /\ UNCHANGED <<up, memory, notes, bounds>>

\* start(): the registry starts an instance of its registration, whatever has
\* become of the worker it holds
Starts ==
    /\ Registered /\ reg.active /\ Exists /\ Entered
    /\ entry.active /\ row.active
    /\ StartsInstance(reg)
    /\ entry' = [entry EXCEPT !.status = "running"]
    /\ Persist("running")
    /\ UNCHANGED op

StartsFromPersisted ==
    /\ FromPersisted
    /\ UNCHANGED <<row, entry, live, timer>>

RequestStart ==
    /\ Idle /\ Active
    /\ IF Registered /\ reg.active THEN Starts ELSE StartsFromPersisted
    /\ UNCHANGED <<up, bull, reg, mon, late, notes, bounds>>

\* Seeded fault: the old worker is forgotten, not stopped
RestartsOver ==
    /\ Entered /\ created < MaxWorkers
    /\ entry' = NoEntry
    /\ BeginMaking(entry.auto, entry.active)
    /\ UNCHANGED <<row, bull>>

Restarts ==
    /\ created < MaxWorkers
    /\ IF Entered THEN Stops("restart")
                  ELSE FromPersisted /\ UNCHANGED <<row, bull>>
    /\ UNCHANGED entry

RequestRestart ==
    /\ Idle /\ Active
    /\ Restarts
    /\ UNCHANGED <<up, reg, live, timer, mon, late, notes, bounds>>

RequestPause ==
    /\ Idle /\ Active /\ Exists
    /\ \/ /\ Entered
          /\ bull' = [bull EXCEPT ![entry.w] = IF @ = "running" THEN "paused" ELSE @]
          /\ entry' = [entry EXCEPT !.status = "starting"]
       \/ /\ ~Entered
          /\ UNCHANGED <<bull, entry>>
    /\ Persist("starting")
    /\ UNCHANGED <<up, reg, live, timer, mon, late, op, notes, bounds>>

RequestResume ==
    /\ Idle /\ Active /\ Exists
    /\ \/ /\ Entered
          /\ bull' = [bull EXCEPT ![entry.w] = IF @ = "paused" THEN "running" ELSE @]
          /\ entry' = [entry EXCEPT !.status = "running"]
       \/ /\ ~Entered
          /\ UNCHANGED <<bull, entry>>
    /\ Persist("running")
    /\ UNCHANGED <<up, reg, live, timer, mon, late, op, notes, bounds>>

\* setAutoStart(); switching it on starts a worker that does not run
RequestAutoStart ==
    /\ Idle /\ Active /\ Exists
    /\ \E auto \in BOOLEAN :
          LET r == [row EXCEPT !.auto = auto]
              e == IF Entered THEN [entry EXCEPT !.auto = auto] ELSE entry
          IN  \/ /\ \/ ~auto
                    \/ Entered /\ (e.status = "running" \/ ~(Registered /\ reg.active))
                 /\ row' = r /\ entry' = e
                 /\ UNCHANGED <<live, timer, op>>
              \/ /\ auto /\ Entered /\ e.status # "running"
                 /\ Registered /\ reg.active
                 /\ StartsInstance(reg)
                 /\ entry' = [e EXCEPT !.status = "running"]
                 /\ row' = [r EXCEPT !.status = "running"]
                 /\ UNCHANGED op
              \/ /\ auto /\ ~Entered
                 /\ Creating(TRUE, TRUE)
                 /\ row' = r
                 /\ UNCHANGED <<entry, live, timer>>
    /\ UNCHANGED <<up, bull, reg, mon, late, notes, bounds>>

\* Seeded fault: the worker goes on
DeactivatesQuietly(active) ==
    /\ entry' = IF Entered THEN [entry EXCEPT !.active = active] ELSE entry
    /\ row' = [row EXCEPT !.active = active]
    /\ UNCHANGED <<bull, op>>

\* setWorkerActiveStatus()
Deactivates(active) ==
    /\ entry' = IF Entered THEN [entry EXCEPT !.active = active] ELSE entry
    /\ row' = [row EXCEPT !.active = active]
    /\ \/ /\ ~active /\ Entered
          /\ Close(entry.w)
          /\ BeginClosing("return")
       \/ /\ active \/ ~Entered
          /\ UNCHANGED <<bull, op>>

RequestActive ==
    /\ Idle /\ Exists
    /\ \E active \in BOOLEAN :
          /\ Deactivates(active)
          /\ reg' = IF Registered THEN [reg EXCEPT !.active = active] ELSE reg
    /\ untold' = FALSE
    /\ UNCHANGED <<up, live, timer, mon, late, shut, deserted, bounds>>

\* PUT of a configuration: a worker that runs is restarted with it, unless it
\* is, or was, inactive; the registration is not told
RequestUpdate ==
    /\ Idle /\ Exists
    /\ \E active \in BOOLEAN :
          /\ row' = [row EXCEPT !.active = active]
          /\ entry' = IF Entered THEN [entry EXCEPT !.active = active] ELSE entry
          /\ untold' = (~active /\ (untold \/ (Entered /\ row.active)))
          /\ \/ /\ Entered /\ entry.status = "running" /\ active /\ row.active
                /\ created < MaxWorkers
                /\ Close(entry.w)
                /\ BeginClosing("restart")
             \/ /\ ~(Entered /\ entry.status = "running" /\ active /\ row.active)
                /\ UNCHANGED <<bull, op>>
    /\ UNCHANGED <<up, reg, live, timer, mon, late, shut, deserted, bounds>>

RequestRemove ==
    /\ Idle /\ Exists
    /\ \/ Entered /\ Stops("remove")
       \/ ~Entered /\ row' = NoRow /\ UNCHANGED <<bull, op>>
    /\ UNCHANGED <<up, memory, notes, bounds>>

\* startMonitoring(): a state without a worker, unless there is one
RequestMonitoring ==
    /\ Idle /\ mon = NoMon
    /\ mon' = Placeholder
    /\ UNCHANGED <<up, row, bull, entry, reg, live, timer, late, op, notes, bounds>>

RequestNoMonitoring ==
    /\ Idle /\ mon # NoMon
    /\ Unwatch
    /\ UNCHANGED <<up, row, bull, entry, reg, live, timer, op, notes, bounds>>

-----------------------------------------------------------------------------
(* What happens beside the requests *)

\* the jobs in flight of a closing worker end
JobsEnd(w) ==
    /\ bull[w] = "closing"
    /\ bull' = [bull EXCEPT ![w] = "closed"]
    /\ UNCHANGED <<up, row, memory, op, notes, bounds>>

\* scheduleStoppedWorkerCleanup(): after five minutes
CleansUp ==
    /\ timer
    /\ timer' = FALSE
    /\ live' = IF live.status = "stopped" THEN NoLive ELSE live
    /\ reg' = IF live.status = "stopped" THEN NoReg ELSE reg
    /\ UNCHANGED <<up, row, bull, entry, mon, late, op, notes, bounds>>

CheckBegins ==
    /\ mon.w # 0 /\ mon.check = "none"
    /\ mon' = [mon EXCEPT !.check = IF bull[mon.w] = "running" THEN "well" ELSE "unwell"]
    /\ UNCHANGED <<up, row, bull, entry, reg, live, timer, late, op, notes, bounds>>

\* updateState(), and updateStatus() of the factory when the status changes
Judged(m, healthy) ==
    LET fails == IF healthy THEN 0 ELSE IF m.fails < 2 THEN m.fails + 1 ELSE 2
    IN  [m EXCEPT !.check = "none", !.fails = fails,
                  !.status = IF healthy THEN "running"
                             ELSE IF fails = 2 THEN "failed" ELSE @]

Reports(m, n) ==
    IF n.status = m.status THEN UNCHANGED <<row, entry>>
    ELSE /\ entry' = IF Entered THEN [entry EXCEPT !.status = n.status] ELSE entry
         /\ Persist(n.status)

\* a check that began on a running worker may succeed until it is closed
MayEnd(m, healthy) == healthy => m.check = "well" /\ bull[m.w] # "closed"

CheckEnds ==
    /\ mon.check # "none"
    /\ \E healthy \in BOOLEAN :
          /\ MayEnd(mon, healthy)
          /\ mon' = Judged(mon, healthy)
          /\ Reports(mon, Judged(mon, healthy))
    /\ UNCHANGED <<up, bull, reg, live, timer, late, op, notes, bounds>>

\* the check of a state that is no longer registered reports nevertheless
LateCheckEnds ==
    /\ \E m \in late, healthy \in BOOLEAN :
          /\ MayEnd(m, healthy)
          /\ late' = late \ {m}
          /\ Reports(m, Judged(m, healthy))
    /\ UNCHANGED <<up, bull, reg, live, timer, mon, op, notes, bounds>>

\* the process is gone with all it held in memory
Down ==
    /\ up' = FALSE /\ crashes' = crashes + 1
    /\ bull' = [w \in Ids |-> IF bull[w] = "none" THEN "none" ELSE "closed"]
    /\ entry' = NoEntry /\ reg' = NoReg /\ live' = NoLive /\ timer' = FALSE
    /\ mon' = NoMon /\ late' = {} /\ op' = NoOp
    /\ shut' = FALSE /\ deserted' = {} /\ untold' = FALSE
    /\ UNCHANGED created

Crash ==
    /\ up /\ crashes < MaxCrashes
    /\ Down
    /\ UNCHANGED row

\* WorkerShutdown.shutdown(), once in the life of a process: every worker of the
\* factory is stopped ...
RequestShutdown ==
    /\ Idle /\ ~shut /\ shut' = TRUE
    /\ \/ /\ Entered
          /\ Persist("stopped")
          /\ Close(entry.w)
          /\ BeginClosing("exit")
       \/ /\ ~Entered
          /\ Goto("exit")
          /\ UNCHANGED <<row, bull>>
    /\ UNCHANGED <<up, memory, deserted, untold, bounds>>

\* ... then a signal ends the process; asked for by request, the process goes on
\* with what its registry holds
Exit ==
    /\ op.at = "exit"
    /\ \/ crashes < MaxCrashes /\ Down
       \/ /\ Unwatch /\ entry' = NoEntry /\ op' = NoOp
          /\ UNCHANGED <<up, bull, reg, live, timer, notes, bounds>>
    /\ UNCHANGED row

\* Seeded fault: only workers that were running are brought back
BootsRunning == Exists /\ row.auto /\ row.active /\ row.status = "running"

\* autoStartPersistedWorkers(): the candidates
Boots == Exists /\ row.auto /\ row.active

Boot ==
    /\ ~up /\ up' = TRUE
    /\ IF Boots /\ created < MaxWorkers THEN FromPersisted ELSE UNCHANGED op
    /\ UNCHANGED <<row, bull, memory, notes, bounds>>

Steps ==
    \/ Save \/ Make \/ NotConnected \/ Connected
    \/ StopMarks \/ RegistryStops \/ RegistryStopped \/ Removes \/ Exit

Requests ==
    \/ RequestCreate \/ RequestStart \/ RequestStop \/ RequestRestart
    \/ RequestPause \/ RequestResume \/ RequestAutoStart \/ RequestActive
    \/ RequestUpdate \/ RequestRemove \/ RequestShutdown
    \/ RequestMonitoring \/ RequestNoMonitoring

Next ==
    \/ Requests \/ Steps \/ CleansUp \/ Crash \/ Boot
    \/ CheckBegins \/ CheckEnds \/ LateCheckEnds
    \/ \E w \in Ids : JobsEnd(w)

Spec == Init /\ [][Next]_vars

\* What has begun goes on, the process is started again, and the jobs in
\* flight end (no code sees to the last: see RegistryStopped).
Fairness ==
    /\ WF_vars(Steps) /\ WF_vars(Boot)
    /\ \A w \in Ids : WF_vars(JobsEnd(w))

FairSpec == Spec /\ Fairness

-----------------------------------------------------------------------------
(* Properties *)

Alive(w) == bull[w] \in {"running", "paused"}

Consuming == \E w \in Ids : bull[w] = "running"

\* the factory's worker takes jobs, or Redis did not answer its creation
Served == deserted # {} \/ (Entered /\ bull[entry.w] = "running")

BullStates == {"none", "idle", "running", "paused", "closing", "closed"}
Registrations == [w : 0 .. created, active : BOOLEAN]
Instances == [w : 0 .. created, status : {"none", "running", "stopping", "stopped"}]
Rows == [status : RowStatuses, auto : BOOLEAN, active : BOOLEAN]
Entries == [w : 0 .. created, status : RowStatuses \union {"none"},
            auto : BOOLEAN, active : BOOLEAN]
Monitors == [w : 0 .. created, status : {"none", "starting", "running", "failed"},
             fails : 0 .. 2, check : {"none", "well", "unwell"}]
Operations == [at : {"idle", "save", "make", "verify", "closing", "registry",
                     "settle", "remove", "exit"},
               then : {"return", "restart", "remove", "exit"},
               auto : BOOLEAN, active : BOOLEAN]

\* The types of the variables: every record names a worker that was created.
TypeOK ==
    /\ up \in BOOLEAN /\ timer \in BOOLEAN
    /\ row \in Rows /\ entry \in Entries /\ op \in Operations
    /\ created \in 0 .. MaxWorkers /\ crashes \in Nat
    /\ bull \in [Ids -> BullStates] /\ reg \in Registrations /\ live \in Instances
    /\ mon \in Monitors /\ late \subseteq Monitors
    /\ \A w \in Ids : bull[w] = "none" <=> w > created
    /\ shut \in BOOLEAN /\ deserted \subseteq Ids /\ untold \in BOOLEAN

\* A worker that takes jobs is the one the factory can stop, or the one being
\* created: none is left running beside it, whatever was started, restarted,
\* removed, shut down or cleaned up before.  Only the worker whose Redis did not
\* answer while it was created is forgotten (it is never closed).
NoStrayWorker ==
    \A w \in Ids \ deserted :
        Alive(w) => entry.w = w \/ (op.at = "verify" /\ w = created)

\* Between operations the health monitor watches the factory's worker, and
\* never one that was closed; only a placeholder watches none.
WatchesTheWorker ==
    (Idle /\ mon.w # 0) => entry.w = mon.w /\ Alive(mon.w)

\* The clean-up timer is armed exactly while the registry holds a stopped
\* instance (an unarmed one would stay for ever, and a timer that outlives a
\* start would take the instance of a later stop early); an instance always has
\* its registration.
CleanupArmed ==
    /\ timer <=> live.status = "stopped"
    /\ live # NoLive => Registered

\* When remove() is over nothing is left of the worker, in none of the five
\* places; the registry's instance that a failed restart or a shutdown left is
\* about to be cleaned.  (What may stay for ever: a registration whose worker was
\* created inactive, which has no instance; a placeholder of the health monitor; a
\* deserted worker.)
RemovedLeavesNothing ==
    (Idle /\ ~Exists) =>
        /\ ~Entered /\ mon.w = 0
        /\ live # NoLive => timer
        /\ \A w \in Ids \ deserted : ~Alive(w)

\* A worker that was switched off takes no jobs until it is switched on,
\* whatever is started, restarted, checked or booted meanwhile.  A POST or PUT
\* of activeStatus = false over a consuming worker stops nothing and is no
\* switching off in this sense (untold).
InactiveIsIdle ==
    (Idle /\ Exists /\ ~row.active /\ ~untold) => \A w \in Ids \ deserted : ~Alive(w)

\* "RUNNING: 'running', // Actually processing jobs" (WorkerFactory.ts:288), of
\* a worker that both its row and the factory call running.
RunningMeansProcessing ==
    (Idle /\ row.status = "running" /\ entry.status = "running") => Consuming

\* Every operation returns.
OperationsReturn == (op # NoOp) ~> (op = NoOp)

\* "Auto-start on application restart for workers with autoStart: true"
\* (worker-management.md:1175): whatever its row said when the process died.
BootRecovers ==
    (~up /\ Exists /\ row.auto /\ row.active /\ created < MaxWorkers) ~> Served
=============================================================================
