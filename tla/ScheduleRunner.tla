--------------------------- MODULE ScheduleRunner ---------------------------
(***************************************************************************)
(* The in-process schedule runner, src/scheduler/ScheduleRunner.ts: timers *)
(* armed with setTimeout, handlers that run asynchronously, manual         *)
(* invocations, replacement of a registered schedule, start and stop.      *)
(*                                                                         *)
(* Atomicity.  JavaScript runs each callback to completion and drains the  *)
(* microtasks it queued before the next timer or I/O callback.  An action  *)
(* here is one such turn: an API call, a timer callback, or the settling   *)
(* of a handler's promise with all the continuations chained to it (the    *)
(* bookkeeping, the finally block and, for a scheduled run, scheduleNext). *)
(* Delays are abstract: a timer that is armed may fire at any later time.  *)
(***************************************************************************)
EXTENDS Naturals

CONSTANTS
    Schedules,   \* names of schedules
    Configs,     \* schedule definitions a name may be registered with
    Manual,      \* names invoked by hand through runOnce()
    FailureCap,  \* cap of consecutiveFailures (1_000_000 in the code)
    MaxRegister, \* bound: calls of register()
    MaxStart     \* bound: calls of start() on a stopped runner

\* enabled # false; runOnStart = true; a cron expression or a positive
\* interval is set; a backoff policy with positive delays is set
Config == [enabled: BOOLEAN, runOnStart: BOOLEAN,
           repeats: BOOLEAN, backoff: BOOLEAN]

ASSUME RunnerAssumption ==
    /\ Configs \subseteq Config /\ Configs # {}
    /\ Manual \subseteq Schedules
    /\ FailureCap \in Nat \ {0}
    /\ MaxRegister \in Nat
    /\ MaxStart \in Nat

VARIABLES
    registered,  \* names with an entry in runner.schedules
    config,      \* state.schedule of a registered name (else arbitrary)
    started,     \* runner.started
    isRunning,   \* state.isRunning
    loopRuns,    \* handler executions in flight begun by a timer or a start
    manualRuns,  \* handler executions in flight begun by runOnce()
    armed,       \* number of live setTimeout timers of a schedule
    handle,      \* state.timeoutId names one of those live timers
    failures,    \* state.consecutiveFailures
    store,       \* what the state store says of a schedule
    awaited,     \* schedules whose run a stop() still awaits
    registers,   \* calls of register() so far
    starts       \* effective calls of start() so far

runs == <<isRunning, loopRuns, manualRuns>>
timers == <<armed, handle>>
counts == <<registers, starts>>
vars == <<registered, config, started, runs, timers, failures, store,
          awaited, counts>>

Outcome == {"success", "failure"}
StoreRow == [consecutiveFailures: 0..FailureCap, lastError: BOOLEAN]

-----------------------------------------------------------------------------
(* Timers.  [a |-> live timers, h |-> timeoutId is live] of one schedule.   *)

TimerOf(s) == [a |-> armed[s], h |-> handle[s]]

\* Seeded fault: the handle is forgotten without clearTimeout()
ForgetTimer(t) == [t EXCEPT !.h = FALSE]

ClearTimer(t) == IF t.h THEN [a |-> t.a - 1, h |-> FALSE] ELSE t

SetTimer(t) == [a |-> t.a + 1, h |-> TRUE]

\* computeNextDelayMs(...) # null
HasNextDelay(c, outcome) ==
    /\ c.enabled
    /\ (outcome = "failure" /\ c.backoff) \/ c.repeats

\* Seeded fault: only a successful run is followed by another
NextAfterSuccess(t, c, outcome) ==
    IF HasNextDelay(c, outcome) /\ outcome = "success"
    THEN SetTimer(ClearTimer(t)) ELSE ClearTimer(t)

ScheduleNext(t, c, outcome) ==
    IF HasNextDelay(c, outcome) THEN SetTimer(ClearTimer(t)) ELSE ClearTimer(t)

SetTimers(s, t) ==
    /\ armed' = [armed EXCEPT ![s] = t.a]
    /\ handle' = [handle EXCEPT ![s] = t.h]

\* scheduleNext() records the failure count together with nextRunAt
StoreNext(row, c, outcome, n) ==
    IF HasNextDelay(c, outcome) THEN [row EXCEPT !.consecutiveFailures = n]
                                ELSE row

-----------------------------------------------------------------------------
Init ==
    /\ registered = {}
    /\ config = [s \in Schedules |-> CHOOSE c \in Configs : TRUE]
    /\ started = FALSE
    /\ isRunning = [s \in Schedules |-> FALSE]
    /\ loopRuns = [s \in Schedules |-> 0]
    /\ manualRuns = [s \in Schedules |-> 0]
    /\ armed = [s \in Schedules |-> 0]
    /\ handle = [s \in Schedules |-> FALSE]
    /\ failures = [s \in Schedules |-> 0]
    /\ store = [s \in Schedules |->
                  [consecutiveFailures |-> 0, lastError |-> FALSE]]
    /\ awaited = {}
    /\ registers = 0
    /\ starts = 0

\* invokeHandler() on an idle schedule: the run is in flight
BeginLoopRun(s) ==
    /\ isRunning' = [isRunning EXCEPT ![s] = TRUE]
    /\ loopRuns' = [loopRuns EXCEPT ![s] = @ + 1]
    /\ UNCHANGED manualRuns

\* Seeded fault: every firing is taken for an overlap
SkipAndReschedule(s, t, c) ==
    /\ SetTimers(s, ScheduleNext(t, c, "failure"))
    /\ UNCHANGED <<runs, store>>

\* runOnceAndReschedule() with timers t and definition c: begin a run, or skip
\* it when one is in flight, which counts as a failure and reschedules at once
RunAndReschedule(s, t, c) ==
    \/ /\ ~isRunning[s]
       /\ BeginLoopRun(s)
       /\ SetTimers(s, t)
       /\ UNCHANGED store
    \/ /\ isRunning[s]
       /\ SetTimers(s, ScheduleNext(t, c, "failure"))
       /\ store' = [store EXCEPT ![s] = StoreNext(@, c, "failure", failures[s])]
       /\ UNCHANGED runs

\* Seeded fault: a stopped runner schedules what is registered
OnlyRunning(s) == s \in registered /\ isRunning[s]

\* register() only records the definition: the runner is not started, or "let
\* it finish and reschedule naturally"
OnlyRecords(s) == ~started \/ (s \in registered /\ isRunning[s])

\* register(): a new name, or the definition of a known one replaced
Register(s, c) ==
    /\ registers < MaxRegister
    /\ registers' = registers + 1
    /\ registered' = registered \union {s}
    /\ config' = [config EXCEPT ![s] = c]
    /\ \/ /\ ~c.enabled
          /\ SetTimers(s, ClearTimer(TimerOf(s)))
          /\ UNCHANGED <<runs, store>>
       \/ /\ c.enabled
          /\ OnlyRecords(s)
          /\ UNCHANGED <<runs, timers, store>>
       \/ /\ c.enabled /\ ~OnlyRecords(s)
          /\ c.runOnStart
          /\ RunAndReschedule(s, TimerOf(s), c)
       \/ /\ c.enabled /\ ~OnlyRecords(s)
          /\ ~c.runOnStart
          /\ SetTimers(s, ScheduleNext(TimerOf(s), c, "success"))
          /\ store' = [store EXCEPT ![s] =
                         StoreNext(@, c, "success", failures[s])]
          /\ UNCHANGED runs
    /\ UNCHANGED <<started, failures, awaited, starts>>

\* start(): every enabled schedule begins a run or gets its first timer
Start ==
    /\ ~started
    /\ starts < MaxStart
    /\ started' = TRUE
    /\ starts' = starts + 1
    /\ LET live == {s \in registered : config[s].enabled}
           begin == {s \in live : config[s].runOnStart /\ ~isRunning[s]}
           outcome(s) == IF config[s].runOnStart THEN "failure" ELSE "success"
           next(s) == ScheduleNext(TimerOf(s), config[s], outcome(s))
       IN  /\ isRunning' = [s \in Schedules |-> isRunning[s] \/ s \in begin]
           /\ loopRuns' = [s \in Schedules |->
                 IF s \in begin THEN loopRuns[s] + 1 ELSE loopRuns[s]]
           /\ armed' = [s \in Schedules |->
                 IF s \in live \ begin THEN next(s).a ELSE armed[s]]
           /\ handle' = [s \in Schedules |->
                 IF s \in live \ begin THEN next(s).h ELSE handle[s]]
           /\ store' = [s \in Schedules |->
                 IF s \in live \ begin
                 THEN StoreNext(store[s], config[s], outcome(s), failures[s])
                 ELSE store[s]]
    /\ UNCHANGED <<registered, config, manualRuns, failures, awaited, registers>>

\* stop(): timers are cleared, the runs in flight are awaited
Stop ==
    /\ started
    /\ started' = FALSE
    /\ armed' = [s \in Schedules |->
          IF s \in registered THEN ClearTimer(TimerOf(s)).a ELSE armed[s]]
    /\ handle' = [s \in Schedules |->
          IF s \in registered THEN FALSE ELSE handle[s]]
    /\ awaited' = awaited \union {s \in registered : isRunning[s]}
    /\ UNCHANGED <<registered, config, runs, failures, store, counts>>

\* what is left when a timer fires: the one timeoutId names, or a lost one
Fired(t) ==
    {u \in {ClearTimer(t), [a |-> t.a - 1, h |-> t.h]} :
        u.a < t.a /\ (u.h => u.a > 0)}

\* a setTimeout callback
TimerFires(s) ==
    /\ armed[s] > 0
    /\ \E t \in Fired(TimerOf(s)) : RunAndReschedule(s, t, config[s])
    /\ UNCHANGED <<registered, config, started, failures, awaited, counts>>

\* Seeded fault: a manual call does not look at isRunning
RunOnceAnyway(s) ==
    /\ s \in registered \intersect Manual
    /\ config[s].enabled
    /\ isRunning' = [isRunning EXCEPT ![s] = TRUE]
    /\ manualRuns' = [manualRuns EXCEPT ![s] = @ + 1]
    /\ UNCHANGED <<registered, config, started, loopRuns, timers, failures,
                   store, awaited, counts>>

\* runOnce(name): refused for a disabled schedule, skipped while a run is on
RunOnce(s) ==
    /\ s \in registered \intersect Manual
    /\ config[s].enabled
    /\ ~isRunning[s]
    /\ isRunning' = [isRunning EXCEPT ![s] = TRUE]
    /\ manualRuns' = [manualRuns EXCEPT ![s] = @ + 1]
    /\ UNCHANGED <<registered, config, started, loopRuns, timers, failures,
                   store, awaited, counts>>

FailuresAfter(s, outcome) ==
    IF outcome = "success" THEN 0
    ELSE IF failures[s] < FailureCap THEN failures[s] + 1
    ELSE FailureCap

\* Seeded fault: a failed run leaves its runningPromise pending
RecordWithoutResolving(s, outcome) ==
    /\ failures' = [failures EXCEPT ![s] = FailuresAfter(s, outcome)]
    /\ store' = [store EXCEPT ![s] =
          [consecutiveFailures |-> FailuresAfter(s, outcome),
           lastError |-> outcome = "failure"]]
    /\ isRunning' = [isRunning EXCEPT ![s] = FALSE]
    /\ awaited' = IF outcome = "failure" THEN awaited ELSE awaited \ {s}

\* the bookkeeping of a settled handler, in memory and in the state store
RecordOutcome(s, outcome) ==
    /\ failures' = [failures EXCEPT ![s] = FailuresAfter(s, outcome)]
    /\ store' = [store EXCEPT ![s] =
          [consecutiveFailures |-> FailuresAfter(s, outcome),
           lastError |-> outcome = "failure"]]
    /\ isRunning' = [isRunning EXCEPT ![s] = FALSE]
    /\ awaited' = awaited \ {s}

\* the handler of a scheduled run settles, and its schedule is rearmed
LoopRunSettles(s) ==
    /\ loopRuns[s] > 0
    /\ loopRuns' = [loopRuns EXCEPT ![s] = @ - 1]
    /\ \E outcome \in Outcome :
          /\ RecordOutcome(s, outcome)
          /\ SetTimers(s, ScheduleNext(TimerOf(s), config[s], outcome))
    /\ UNCHANGED <<registered, config, started, manualRuns, counts>>

\* the handler of a manual run settles; nothing is rescheduled
ManualRunSettles(s) ==
    /\ manualRuns[s] > 0
    /\ manualRuns' = [manualRuns EXCEPT ![s] = @ - 1]
    /\ \E outcome \in Outcome : RecordOutcome(s, outcome)
    /\ UNCHANGED <<registered, config, started, loopRuns, timers, counts>>

Next ==
    \/ \E s \in Schedules, c \in Configs : Register(s, c)
    \/ Start
    \/ Stop
    \/ \E s \in Schedules : TimerFires(s)
    \/ \E s \in Schedules : RunOnce(s)
    \/ \E s \in Schedules : LoopRunSettles(s)
    \/ \E s \in Schedules : ManualRunSettles(s)

Spec == Init /\ [][Next]_vars

\* An armed timer eventually fires and a handler eventually settles; nothing
\* obliges a caller to register, start, stop or run anything.
Fairness ==
    \A s \in Schedules : /\ WF_vars(TimerFires(s))
                         /\ WF_vars(LoopRunSettles(s))
                         /\ WF_vars(ManualRunSettles(s))

FairSpec == Spec /\ Fairness

-----------------------------------------------------------------------------
(* Properties *)

\* The types of the variables.
TypeOK ==
    /\ registered \in SUBSET Schedules
    /\ config \in [Schedules -> Configs]
    /\ started \in BOOLEAN
    /\ isRunning \in [Schedules -> BOOLEAN]
    /\ loopRuns \in [Schedules -> Nat]
    /\ manualRuns \in [Schedules -> Nat]
    /\ armed \in [Schedules -> Nat]
    /\ handle \in [Schedules -> BOOLEAN]
    /\ failures \in [Schedules -> 0..FailureCap]
    /\ store \in [Schedules -> StoreRow]
    /\ awaited \in SUBSET Schedules
    /\ registers \in Nat
    /\ starts \in Nat

\* In-process overlap prevention: whatever mixes of timers, starts,
\* replacements and manual calls occur, at most one execution of a schedule's
\* handler is in flight, and isRunning says exactly whether there is one.
NoOverlap ==
    \A s \in Schedules :
        loopRuns[s] + manualRuns[s] = IF isRunning[s] THEN 1 ELSE 0

\* No timer escapes: every live setTimeout timer of a schedule is the one its
\* timeoutId names, so that clearTimer() can always disarm the schedule.  A
\* reschedule that did not clear first would leave two reschedule loops.
NoOrphanTimer ==
    \A s \in Schedules : armed[s] = IF handle[s] THEN 1 ELSE 0

\* A schedule replaced by a disabled definition stays disarmed, even when the
\* replacement happens while one of its runs is in flight.
DisabledIsUnarmed ==
    \A s \in Schedules : armed[s] > 0 => config[s].enabled

\* What listStates() reports of a schedule agrees with the runner's own count
\* of consecutive failures: an error is reported iff the last run failed.
StoreAgrees ==
    \A s \in Schedules :
        /\ store[s].consecutiveFailures = failures[s]
        /\ store[s].lastError <=> failures[s] > 0

Recurring(s) ==
    /\ started
    /\ s \in registered
    /\ config[s].enabled
    /\ config[s].repeats

\* The loop of a recurring schedule nobody invokes by hand is never lost: a
\* started runner has a timer armed for it or a run in flight that will rearm
\* it.  It depends on "let it finish and reschedule naturally" in register().
\* (A run begun by runOnce() does not rearm: with one in flight, replacing a
\* schedule leaves it unarmed until the next start.)
LoopAlive ==
    \A s \in Schedules \ Manual :
        Recurring(s) => armed[s] > 0 \/ loopRuns[s] > 0

\* stop() ends every loop but those it comes too late for: on a stopped runner a
\* schedule has a timer or a scheduled run only if its scheduled run was in flight
\* at stop(), and has gone on ever since.  No timer that fires late, no manual run
\* that ends and no register(), runOnStart or not, begins a loop until start().
\* (A run in flight at stop() rearms its timer, and its loop then goes on by
\* itself: nothing ends it but a replacement by a disabled definition.)
Looping(s) == armed[s] > 0 \/ loopRuns[s] > 0

LoopsEndAtStop ==
    [][~started' => \A s \in registered' :
          Looping(s)' => IF started THEN loopRuns[s] > 0 ELSE Looping(s)]_vars

\* A recurring schedule that is not invoked by hand keeps running: unless the
\* runner is stopped or the schedule replaced or disabled, another execution
\* of its handler begins.
KeepsRunning ==
    \A s \in Schedules \ Manual :
        Recurring(s) ~> (isRunning[s] \/ ~Recurring(s))

\* stop() resolves: every run it awaits ends.
StopResolves == awaited # {} ~> awaited = {}
=============================================================================
