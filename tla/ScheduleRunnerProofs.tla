------------------------ MODULE ScheduleRunnerProofs ------------------------
(***************************************************************************)
(* Proofs about ScheduleRunner for any set of schedules, definitions and   *)
(* manual callers.  IInv is inductive: the timers of a schedule are either *)
(* Unarmed or Armed (one live timer, named by timeoutId), which every step *)
(* preserves because scheduleNext() clears before it arms.                 *)
(***************************************************************************)
EXTENDS ScheduleRunner, TLAPS

Unarmed == [a |-> 0, h |-> FALSE]
Armed   == [a |-> 1, h |-> TRUE]

IInv == /\ TypeOK
        /\ NoOverlap
        /\ NoOrphanTimer
        /\ DisabledIsUnarmed
        /\ StoreAgrees

-----------------------------------------------------------------------------
(* Timers *)

\* The two kinds of timers, and what clearTimer() and setTimeout() make of them.
LEMMA TimerKinds ==
    /\ Unarmed.a = 0 /\ Unarmed.h = FALSE
    /\ Armed.a = 1 /\ Armed.h = TRUE
    /\ Unarmed # Armed
    /\ ClearTimer(Armed) = Unarmed
    /\ ClearTimer(Unarmed) = Unarmed
    /\ SetTimer(Unarmed) = Armed
  <1>1. Unarmed.a = 0 /\ Unarmed.h = FALSE
    BY DEF Unarmed
  <1>2. Armed.a = 1 /\ Armed.h = TRUE
    BY DEF Armed
  <1>3. 1 - 1 = 0 /\ 0 + 1 = 1
    OBVIOUS
  <1>4. Unarmed # Armed
    BY <1>1, <1>2
  <1>5. ClearTimer(Armed) = Unarmed
    BY <1>2, <1>3 DEF ClearTimer, Unarmed
  <1>6. ClearTimer(Unarmed) = Unarmed
    BY <1>1 DEF ClearTimer
  <1>7. SetTimer(Unarmed) = Armed
    BY <1>1, <1>3 DEF SetTimer, Armed
  <1> QED
    BY <1>1, <1>2, <1>4, <1>5, <1>6, <1>7

\* A schedule without orphan timers is unarmed or armed once.
LEMMA TimerOfKind ==
    ASSUME TypeOK, NoOrphanTimer, NEW s \in Schedules
    PROVE  \/ armed[s] = 0 /\ handle[s] = FALSE /\ TimerOf(s) = Unarmed
           \/ armed[s] = 1 /\ handle[s] = TRUE /\ TimerOf(s) = Armed
  <1>1. armed[s] = (IF handle[s] THEN 1 ELSE 0) /\ handle[s] \in BOOLEAN
    BY DEF NoOrphanTimer, TypeOK
  <1>2. CASE handle[s]
    <2>1. armed[s] = 1 /\ handle[s] = TRUE
      BY <1>1, <1>2
    <2> QED
      BY <2>1 DEF TimerOf, Armed
  <1>3. CASE ~handle[s]
    <2>1. armed[s] = 0 /\ handle[s] = FALSE
      BY <1>1, <1>3
    <2> QED
      BY <2>1 DEF TimerOf, Unarmed
  <1> QED
    BY <1>2, <1>3

\* scheduleNext() leaves exactly one timer, or none when there is no delay.
LEMMA NextTimerKind ==
    ASSUME NEW t \in {Unarmed, Armed}, NEW c, NEW o
    PROVE  /\ ClearTimer(t) = Unarmed
           /\ ScheduleNext(t, c, o) =
                IF HasNextDelay(c, o) THEN Armed ELSE Unarmed
  <1>1. ClearTimer(t) = Unarmed
    BY TimerKinds
  <1> QED
    BY <1>1, TimerKinds DEF ScheduleNext

\* Setting the timers of a schedule to one of the two kinds keeps the timer
\* invariants, if an armed schedule is enabled.
LEMMA SetTimersKeeps ==
    ASSUME TypeOK, NoOrphanTimer, DisabledIsUnarmed,
           NEW s \in Schedules, NEW t \in {Unarmed, Armed},
           SetTimers(s, t),
           \A x \in Schedules \ {s} : config'[x] = config[x],
           t = Armed => config'[s].enabled
    PROVE  /\ armed' \in [Schedules -> Nat]
           /\ handle' \in [Schedules -> BOOLEAN]
           /\ NoOrphanTimer'
           /\ DisabledIsUnarmed'
  <1>1. /\ armed' = [armed EXCEPT ![s] = t.a]
        /\ handle' = [handle EXCEPT ![s] = t.h]
    BY DEF SetTimers
  <1>2. /\ t.a \in Nat /\ t.h \in BOOLEAN
        /\ t.a = (IF t.h THEN 1 ELSE 0)
        /\ t.a > 0 => t = Armed
    <2>1. CASE t = Unarmed
      <3>1. t.a = 0 /\ t.h = FALSE
        BY <2>1, TimerKinds
      <3>2. 0 \in Nat /\ ~(0 > 0)
        OBVIOUS
      <3> QED
        BY <3>1, <3>2, Zenon
    <2>2. CASE t = Armed
      <3>1. t.a = 1 /\ t.h = TRUE
        BY <2>2, TimerKinds
      <3>2. 1 \in Nat
        OBVIOUS
      <3> QED
        BY <2>2, <3>1, <3>2, Zenon
    <2> QED
      BY <2>1, <2>2
  <1>3. /\ armed' \in [Schedules -> Nat]
        /\ handle' \in [Schedules -> BOOLEAN]
    BY <1>1, <1>2 DEF TypeOK
  <1>4. NoOrphanTimer'
    BY <1>1, <1>2, <1>3 DEF NoOrphanTimer, TypeOK
  <1>5. DisabledIsUnarmed'
    <2> SUFFICES ASSUME NEW x \in Schedules, armed'[x] > 0
                 PROVE  config'[x].enabled
      BY DEF DisabledIsUnarmed
    <2>1. CASE x = s
      BY <1>1, <1>2, <2>1 DEF TypeOK
    <2>2. CASE x # s
      BY <1>1, <2>2 DEF DisabledIsUnarmed, TypeOK
    <2> QED
      BY <2>1, <2>2
  <1> QED
    BY <1>3, <1>4, <1>5

\* Whatever its timers were, scheduleNext() leaves a schedule of one of the two
\* kinds, and armed only if its definition is enabled.
LEMMA RescheduledKind ==
    ASSUME TypeOK, NoOrphanTimer, NEW s \in Schedules, NEW c, NEW o
    PROVE  /\ ScheduleNext(TimerOf(s), c, o) \in {Unarmed, Armed}
           /\ ScheduleNext(TimerOf(s), c, o) = Armed => c.enabled
  <1>1. TimerOf(s) \in {Unarmed, Armed}
    BY TimerOfKind
  <1>2. HasNextDelay(c, o) => c.enabled
    BY DEF HasNextDelay
  <1>3. ScheduleNext(TimerOf(s), c, o) =
          (IF HasNextDelay(c, o) THEN Armed ELSE Unarmed)
    BY <1>1, NextTimerKind
  <1>4. CASE HasNextDelay(c, o)
    BY <1>2, <1>3, <1>4
  <1>5. CASE ~HasNextDelay(c, o)
    BY <1>3, <1>5, TimerKinds
  <1> QED
    BY <1>4, <1>5

-----------------------------------------------------------------------------
(* The state store and the count of failures *)

\* In a state where the store agrees, scheduleNext() changes nothing in it.
LEMMA StoreNextIsIdle ==
    ASSUME TypeOK, StoreAgrees, NEW s \in Schedules, NEW c, NEW o
    PROVE  StoreNext(store[s], c, o, failures[s]) = store[s]
  <1>1. /\ store[s] \in StoreRow
        /\ store[s].consecutiveFailures = failures[s]
    BY DEF TypeOK, StoreAgrees
  <1>2. [store[s] EXCEPT !.consecutiveFailures = failures[s]] = store[s]
    BY <1>1 DEF StoreRow
  <1> QED
    BY <1>2 DEF StoreNext

\* Hence a skipped run or a replaced definition leaves the store as it was.
LEMMA SameStore ==
    ASSUME TypeOK, StoreAgrees, NEW s \in Schedules, NEW c, NEW o,
           store' = [store EXCEPT ![s] = StoreNext(@, c, o, failures[s])]
    PROVE  store' = store
  <1>1. store' = [store EXCEPT ![s] = store[s]]
    BY StoreNextIsIdle
  <1> QED
    BY <1>1 DEF TypeOK

\* The count is 0 after a success and positive, within the cap, after a failure.
LEMMA FailuresAfterRange ==
    ASSUME TypeOK, NEW s \in Schedules, NEW o \in Outcome
    PROVE  /\ FailuresAfter(s, o) \in 0..FailureCap
           /\ FailuresAfter(s, o) > 0 <=> o = "failure"
  <1>1. failures[s] \in 0..FailureCap /\ FailureCap \in Nat \ {0}
    BY RunnerAssumption DEF TypeOK
  <1>2. CASE o = "success"
    BY <1>1, <1>2 DEF FailuresAfter
  <1>3. CASE o = "failure"
    BY <1>1, <1>3 DEF FailuresAfter
  <1> QED
    BY <1>2, <1>3 DEF Outcome

\* The bookkeeping of a settled handler keeps store and failures in agreement.
LEMMA RecordOutcomeKeeps ==
    ASSUME TypeOK, StoreAgrees, NEW s \in Schedules, NEW o \in Outcome,
           RecordOutcome(s, o)
    PROVE  /\ failures' \in [Schedules -> 0..FailureCap]
           /\ store' \in [Schedules -> StoreRow]
           /\ isRunning' \in [Schedules -> BOOLEAN]
           /\ awaited' \in SUBSET Schedules
           /\ StoreAgrees'
  <1> DEFINE n == FailuresAfter(s, o)
             row == [consecutiveFailures |-> n, lastError |-> o = "failure"]
  <1>1. /\ failures' = [failures EXCEPT ![s] = n]
        /\ store' = [store EXCEPT ![s] = row]
        /\ isRunning' = [isRunning EXCEPT ![s] = FALSE]
        /\ awaited' = awaited \ {s}
    BY DEF RecordOutcome
  <1>2. n \in 0..FailureCap /\ (n > 0 <=> o = "failure")
    BY FailuresAfterRange
  <1> HIDE DEF n
  <1>3. row \in StoreRow
    BY <1>2 DEF StoreRow
  <1>4. /\ row.consecutiveFailures = n
        /\ row.lastError <=> n > 0
    BY <1>2
  <1> HIDE DEF row
  <1>5. /\ failures' \in [Schedules -> 0..FailureCap]
        /\ store' \in [Schedules -> StoreRow]
        /\ awaited' \in SUBSET Schedules
    BY <1>1, <1>2, <1>3 DEF TypeOK
  <1>6. isRunning' \in [Schedules -> BOOLEAN]
    BY <1>1 DEF TypeOK
  <1>7. StoreAgrees'
    <2> SUFFICES ASSUME NEW x \in Schedules
                 PROVE  /\ store'[x].consecutiveFailures = failures'[x]
                        /\ store'[x].lastError <=> failures'[x] > 0
      BY DEF StoreAgrees
    <2>1. CASE x = s
      BY <1>1, <1>4, <2>1 DEF TypeOK
    <2>2. CASE x # s
      BY <1>1, <2>2 DEF TypeOK, StoreAgrees
    <2> QED
      BY <2>1, <2>2
  <1> QED
    BY <1>5, <1>6, <1>7

-----------------------------------------------------------------------------
(* Runs *)

\* A run in flight is the only one of its schedule.
LEMMA SoleRun ==
    ASSUME TypeOK, NoOverlap, NEW s \in Schedules
    PROVE  /\ loopRuns[s] > 0 => loopRuns[s] = 1 /\ manualRuns[s] = 0
           /\ manualRuns[s] > 0 => manualRuns[s] = 1 /\ loopRuns[s] = 0
  <1>1. loopRuns[s] \in Nat /\ manualRuns[s] \in Nat
    BY DEF TypeOK
  <1>2. \/ loopRuns[s] + manualRuns[s] = 1
        \/ loopRuns[s] + manualRuns[s] = 0
    BY DEF NoOverlap
  <1> QED
    BY <1>1, <1>2

\* Beginning a run of an idle schedule, or skipping it, keeps every part of
\* the invariant that does not depend on the rest of the step.
LEMMA RunAndRescheduleKeeps ==
    ASSUME IInv, NEW s \in Schedules, NEW t \in {Unarmed, Armed}, NEW c,
           RunAndReschedule(s, t, c),
           \A x \in Schedules \ {s} : config'[x] = config[x],
           config'[s] = c,
           t = Armed => c.enabled,
           UNCHANGED failures
    PROVE  /\ isRunning' \in [Schedules -> BOOLEAN]
           /\ loopRuns' \in [Schedules -> Nat]
           /\ manualRuns' \in [Schedules -> Nat]
           /\ armed' \in [Schedules -> Nat]
           /\ handle' \in [Schedules -> BOOLEAN]
           /\ store' \in [Schedules -> StoreRow]
           /\ NoOverlap'
           /\ NoOrphanTimer'
           /\ DisabledIsUnarmed'
           /\ StoreAgrees'
  <1> USE DEF IInv
  <1>1. CASE /\ ~isRunning[s] /\ BeginLoopRun(s)
             /\ SetTimers(s, t) /\ UNCHANGED store
    <2>1. /\ isRunning' = [isRunning EXCEPT ![s] = TRUE]
          /\ loopRuns' = [loopRuns EXCEPT ![s] = @ + 1]
          /\ manualRuns' = manualRuns
      BY <1>1 DEF BeginLoopRun
    <2>2. /\ isRunning' \in [Schedules -> BOOLEAN]
          /\ loopRuns' \in [Schedules -> Nat]
          /\ manualRuns' \in [Schedules -> Nat]
      BY <2>1 DEF TypeOK
    <2>3. loopRuns[s] + manualRuns[s] = 0
      BY <1>1 DEF NoOverlap
    <2>4. NoOverlap'
      BY <2>1, <2>3 DEF NoOverlap, TypeOK
    <2>5. /\ armed' \in [Schedules -> Nat]
          /\ handle' \in [Schedules -> BOOLEAN]
          /\ NoOrphanTimer'
          /\ DisabledIsUnarmed'
      BY <1>1, SetTimersKeeps
    <2>6. store' \in [Schedules -> StoreRow] /\ StoreAgrees'
      BY <1>1 DEF TypeOK, StoreAgrees
    <2> QED
      BY <2>2, <2>4, <2>5, <2>6
  <1>2. CASE /\ isRunning[s]
             /\ SetTimers(s, ScheduleNext(t, c, "failure"))
             /\ store' = [store EXCEPT ![s] =
                             StoreNext(@, c, "failure", failures[s])]
             /\ UNCHANGED runs
    <2>1. /\ isRunning' \in [Schedules -> BOOLEAN]
          /\ loopRuns' \in [Schedules -> Nat]
          /\ manualRuns' \in [Schedules -> Nat]
          /\ NoOverlap'
      BY <1>2 DEF TypeOK, NoOverlap, runs
    <2>2. /\ ScheduleNext(t, c, "failure") \in {Unarmed, Armed}
          /\ ScheduleNext(t, c, "failure") = Armed => c.enabled
      BY NextTimerKind, TimerKinds DEF HasNextDelay
    <2>3. /\ armed' \in [Schedules -> Nat]
          /\ handle' \in [Schedules -> BOOLEAN]
          /\ NoOrphanTimer'
          /\ DisabledIsUnarmed'
      BY <1>2, <2>2, SetTimersKeeps
    <2>4. store' = store
      BY <1>2, SameStore
    <2>5. store' \in [Schedules -> StoreRow] /\ StoreAgrees'
      BY <2>4 DEF TypeOK, StoreAgrees
    <2> QED
      BY <2>1, <2>3, <2>5
  <1> QED
    BY <1>1, <1>2 DEF RunAndReschedule

\* register() keeps the invariant, whichever branch it takes.
LEMMA RegisterKeeps ==
    ASSUME IInv, NEW s \in Schedules, NEW c \in Configs, Register(s, c)
    PROVE  IInv'
  <1> USE DEF IInv
  <1>1. /\ registers' = registers + 1
        /\ registered' = registered \union {s}
        /\ config' = [config EXCEPT ![s] = c]
        /\ UNCHANGED <<started, failures, awaited, starts>>
    BY DEF Register
  <1>2. /\ registers' \in Nat /\ registered' \in SUBSET Schedules
        /\ config' \in [Schedules -> Configs]
        /\ started' \in BOOLEAN /\ failures' \in [Schedules -> 0..FailureCap]
        /\ awaited' \in SUBSET Schedules /\ starts' \in Nat
        /\ config'[s] = c
        /\ \A x \in Schedules \ {s} : config'[x] = config[x]
    BY <1>1 DEF TypeOK
  <1>3. TimerOf(s) \in {Unarmed, Armed}
    BY TimerOfKind
  <1>4. CASE /\ ~c.enabled
             /\ SetTimers(s, ClearTimer(TimerOf(s)))
             /\ UNCHANGED <<runs, store>>
    <2>1. ClearTimer(TimerOf(s)) \in {Unarmed, Armed} /\ ClearTimer(TimerOf(s)) # Armed
      BY <1>3, TimerKinds
    <2>2. /\ armed' \in [Schedules -> Nat] /\ handle' \in [Schedules -> BOOLEAN]
          /\ NoOrphanTimer' /\ DisabledIsUnarmed'
      BY <1>2, <1>4, <2>1, SetTimersKeeps
    <2> QED
      BY <1>1, <1>2, <1>4, <2>2 DEF TypeOK, NoOverlap, StoreAgrees, runs
  <1>5. CASE c.enabled /\ UNCHANGED <<runs, timers, store>>
    <2>1. DisabledIsUnarmed'
      BY <1>2, <1>5 DEF DisabledIsUnarmed, timers
    <2> QED
      BY <1>1, <1>2, <1>5, <2>1
         DEF TypeOK, NoOverlap, NoOrphanTimer, StoreAgrees, runs, timers
  <1>6. CASE c.enabled /\ RunAndReschedule(s, TimerOf(s), c)
    <2>1. /\ isRunning' \in [Schedules -> BOOLEAN]
          /\ loopRuns' \in [Schedules -> Nat]
          /\ manualRuns' \in [Schedules -> Nat]
          /\ armed' \in [Schedules -> Nat] /\ handle' \in [Schedules -> BOOLEAN]
          /\ store' \in [Schedules -> StoreRow]
          /\ NoOverlap' /\ NoOrphanTimer' /\ DisabledIsUnarmed' /\ StoreAgrees'
      BY <1>1, <1>2, <1>3, <1>6, RunAndRescheduleKeeps
    <2> QED
      BY <1>2, <2>1 DEF TypeOK
  <1>7. CASE /\ c.enabled
             /\ SetTimers(s, ScheduleNext(TimerOf(s), c, "success"))
             /\ store' = [store EXCEPT ![s] =
                             StoreNext(@, c, "success", failures[s])]
             /\ UNCHANGED runs
    <2>1. ScheduleNext(TimerOf(s), c, "success") \in {Unarmed, Armed}
      BY <1>3, NextTimerKind
    <2>2. /\ armed' \in [Schedules -> Nat] /\ handle' \in [Schedules -> BOOLEAN]
          /\ NoOrphanTimer' /\ DisabledIsUnarmed'
      BY <1>2, <1>7, <2>1, SetTimersKeeps
    <2>3. store' = store
      BY <1>7, SameStore
    <2> QED
      BY <1>1, <1>2, <1>7, <2>2, <2>3 DEF TypeOK, NoOverlap, StoreAgrees, runs
  <1> QED
    BY <1>4, <1>5, <1>6, <1>7 DEF Register

\* start() keeps it: each schedule begins a run, gets a timer, or is left alone.
LEMMA StartKeeps ==
    ASSUME IInv, Start
    PROVE  IInv'
  <1> USE DEF IInv
  <1> DEFINE live == {s \in registered : config[s].enabled}
             begin == {s \in live : config[s].runOnStart /\ ~isRunning[s]}
             outcome(s) == IF config[s].runOnStart THEN "failure" ELSE "success"
             next(s) == ScheduleNext(TimerOf(s), config[s], outcome(s))
  <1>1. /\ started' = TRUE /\ starts' = starts + 1
        /\ isRunning' = [s \in Schedules |-> isRunning[s] \/ s \in begin]
        /\ loopRuns' = [s \in Schedules |->
              IF s \in begin THEN loopRuns[s] + 1 ELSE loopRuns[s]]
        /\ armed' = [s \in Schedules |->
              IF s \in live \ begin THEN next(s).a ELSE armed[s]]
        /\ handle' = [s \in Schedules |->
              IF s \in live \ begin THEN next(s).h ELSE handle[s]]
        /\ store' = [s \in Schedules |->
              IF s \in live \ begin
              THEN StoreNext(store[s], config[s], outcome(s), failures[s])
              ELSE store[s]]
        /\ UNCHANGED <<registered, config, manualRuns, failures, awaited,
                       registers>>
    BY DEF Start
  <1>2. \A s \in Schedules : s \in begin => ~isRunning[s]
    OBVIOUS
  <1>3. ASSUME NEW s \in Schedules
        PROVE  /\ next(s) \in {Unarmed, Armed}
               /\ next(s) = Armed => config[s].enabled
    BY RescheduledKind
  <1>4. store' = store
    <2>1. \A s \in Schedules :
             StoreNext(store[s], config[s], outcome(s), failures[s]) = store[s]
      BY StoreNextIsIdle
    <2> QED
      BY <1>1, <2>1 DEF TypeOK
  <1> HIDE DEF begin, live, next
  <1>5. /\ isRunning' \in [Schedules -> BOOLEAN]
        /\ loopRuns' \in [Schedules -> Nat]
    BY <1>1 DEF TypeOK
  <1>6. NoOverlap'
    <2> SUFFICES ASSUME NEW s \in Schedules
                 PROVE  loopRuns'[s] + manualRuns'[s] =
                          IF isRunning'[s] THEN 1 ELSE 0
      BY DEF NoOverlap
    <2>1. loopRuns[s] + manualRuns[s] = IF isRunning[s] THEN 1 ELSE 0
      BY DEF NoOverlap
    <2>2. CASE s \in begin
      <3>1. loopRuns[s] + manualRuns[s] = 0
        BY <1>2, <2>1, <2>2
      <3>2. loopRuns'[s] = loopRuns[s] + 1 /\ manualRuns'[s] = manualRuns[s]
        BY <1>1, <2>2
      <3>3. isRunning'[s]
        BY <1>1, <2>2
      <3> QED
        BY <3>1, <3>2, <3>3 DEF TypeOK
    <2>3. CASE s \notin begin
      <3>1. loopRuns'[s] = loopRuns[s] /\ manualRuns'[s] = manualRuns[s]
        BY <1>1, <2>3
      <3>2. isRunning'[s] <=> isRunning[s]
        BY <1>1, <2>3
      <3> QED
        BY <2>1, <3>1, <3>2
    <2> QED
      BY <2>2, <2>3
  <1>7. ASSUME NEW s \in Schedules
        PROVE  /\ armed'[s] \in Nat /\ handle'[s] \in BOOLEAN
               /\ armed'[s] = (IF handle'[s] THEN 1 ELSE 0)
               /\ armed'[s] > 0 => config[s].enabled
    <2>1. CASE s \in live \ begin
      <3>1. armed'[s] = next(s).a /\ handle'[s] = next(s).h
        BY <1>1, <2>1
      <3>2. CASE next(s) = Unarmed
        <4>1. armed'[s] = 0 /\ handle'[s] = FALSE
          BY <3>1, <3>2, TimerKinds
        <4>2. 0 \in Nat /\ ~(0 > 0)
          OBVIOUS
        <4> QED
          BY <4>1, <4>2, Zenon
      <3>3. CASE next(s) = Armed
        <4>1. armed'[s] = 1 /\ handle'[s] = TRUE /\ config[s].enabled
          BY <1>3, <3>1, <3>3, TimerKinds
        <4>2. 1 \in Nat
          OBVIOUS
        <4> QED
          BY <4>1, <4>2, Zenon
      <3> QED
        BY <1>3, <3>2, <3>3
    <2>2. CASE s \notin live \ begin
      <3>1. armed'[s] = armed[s] /\ handle'[s] = handle[s]
        BY <1>1, <2>2
      <3> QED
        BY <3>1 DEF TypeOK, NoOrphanTimer, DisabledIsUnarmed
    <2> QED
      BY <2>1, <2>2
  <1>8. /\ armed' \in [Schedules -> Nat]
        /\ handle' \in [Schedules -> BOOLEAN]
    BY <1>1, <1>7
  <1>9. NoOrphanTimer' /\ DisabledIsUnarmed'
    BY <1>1, <1>7 DEF NoOrphanTimer, DisabledIsUnarmed
  <1>10. StoreAgrees'
    BY <1>1, <1>4 DEF StoreAgrees
  <1> QED
    BY <1>1, <1>4, <1>5, <1>6, <1>8, <1>9, <1>10 DEF TypeOK

\* stop() keeps it: it clears the timers and leaves the runs in flight.
LEMMA StopKeeps ==
    ASSUME IInv, Stop
    PROVE  IInv'
  <1> USE DEF IInv
  <1>1. /\ started' = FALSE
        /\ armed' = [s \in Schedules |->
              IF s \in registered THEN ClearTimer(TimerOf(s)).a ELSE armed[s]]
        /\ handle' = [s \in Schedules |->
              IF s \in registered THEN FALSE ELSE handle[s]]
        /\ awaited' = awaited \union {s \in registered : isRunning[s]}
        /\ UNCHANGED <<registered, config, runs, failures, store, counts>>
    BY DEF Stop
  <1>2. ASSUME NEW s \in Schedules
        PROVE  /\ armed'[s] \in Nat /\ handle'[s] \in BOOLEAN
               /\ armed'[s] = (IF handle'[s] THEN 1 ELSE 0)
               /\ armed'[s] > 0 => config[s].enabled
    <2>1. CASE s \in registered
      <3>1. ClearTimer(TimerOf(s)) = Unarmed
        BY TimerOfKind, TimerKinds
      <3>2. armed'[s] = 0 /\ handle'[s] = FALSE
        BY <1>1, <2>1, <3>1, TimerKinds
      <3>3. 0 \in Nat /\ ~(0 > 0)
        OBVIOUS
      <3> QED
        BY <3>2, <3>3, Zenon
    <2>2. CASE s \notin registered
      <3>1. armed'[s] = armed[s] /\ handle'[s] = handle[s]
        BY <1>1, <2>2
      <3> QED
        BY <3>1 DEF TypeOK, NoOrphanTimer, DisabledIsUnarmed
    <2> QED
      BY <2>1, <2>2
  <1>3. /\ armed' \in [Schedules -> Nat]
        /\ handle' \in [Schedules -> BOOLEAN]
    BY <1>1, <1>2
  <1>4. NoOrphanTimer' /\ DisabledIsUnarmed'
    BY <1>1, <1>2 DEF NoOrphanTimer, DisabledIsUnarmed
  <1>5. awaited' \in SUBSET Schedules
    BY <1>1 DEF TypeOK
  <1> QED
    BY <1>1, <1>3, <1>4, <1>5 DEF TypeOK, NoOverlap, StoreAgrees, runs, counts

\* A timer that fires is the one timeoutId names: there is no other.
LEMMA FiringTimer ==
    ASSUME IInv, NEW s \in Schedules, TimerFires(s)
    PROVE  /\ armed[s] = 1
           /\ RunAndReschedule(s, ClearTimer(TimerOf(s)), config[s])
           /\ UNCHANGED <<registered, config, started, failures, awaited, counts>>
  <1> USE DEF IInv
  <1>1. CASE armed[s] = 0 /\ handle[s] = FALSE
    BY <1>1 DEF TimerFires
  <1>2. CASE armed[s] = 1 /\ handle[s] = TRUE
    <2>1. Fired(TimerOf(s)) = {ClearTimer(TimerOf(s))}
      BY <1>2 DEF Fired, ClearTimer, TimerOf
    <2> QED
      BY <1>2, <2>1 DEF TimerFires
  <1> QED
    BY <1>1, <1>2, TimerOfKind

\* A timer callback keeps the invariant: it takes the only timer there is.
LEMMA TimerFiresKeeps ==
    ASSUME IInv, NEW s \in Schedules, TimerFires(s)
    PROVE  IInv'
  <1> USE DEF IInv
  <1>1. /\ RunAndReschedule(s, ClearTimer(TimerOf(s)), config[s])
        /\ UNCHANGED <<registered, config, started, failures, awaited, counts>>
    BY FiringTimer
  <1>2. ClearTimer(TimerOf(s)) = Unarmed
    BY TimerOfKind, TimerKinds
  <1>3. /\ isRunning' \in [Schedules -> BOOLEAN]
        /\ loopRuns' \in [Schedules -> Nat]
        /\ manualRuns' \in [Schedules -> Nat]
        /\ armed' \in [Schedules -> Nat] /\ handle' \in [Schedules -> BOOLEAN]
        /\ store' \in [Schedules -> StoreRow]
        /\ NoOverlap' /\ NoOrphanTimer' /\ DisabledIsUnarmed' /\ StoreAgrees'
    <2>1. RunAndReschedule(s, Unarmed, config[s])
      BY <1>1, <1>2
    <2> QED
      BY <1>1, <2>1, TimerKinds, RunAndRescheduleKeeps
  <1> QED
    BY <1>1, <1>3 DEF TypeOK, counts

\* A manual call keeps it: it begins a run only on an idle schedule.
LEMMA RunOnceKeeps ==
    ASSUME IInv, NEW s \in Schedules, RunOnce(s)
    PROVE  IInv'
  <1> USE DEF IInv
  <1>1. /\ ~isRunning[s]
        /\ isRunning' = [isRunning EXCEPT ![s] = TRUE]
        /\ manualRuns' = [manualRuns EXCEPT ![s] = @ + 1]
        /\ UNCHANGED <<registered, config, started, loopRuns, timers, failures,
                       store, awaited, counts>>
    BY DEF RunOnce
  <1>2. /\ isRunning' \in [Schedules -> BOOLEAN]
        /\ manualRuns' \in [Schedules -> Nat]
    BY <1>1 DEF TypeOK
  <1>3. NoOverlap'
    <2>1. loopRuns[s] + manualRuns[s] = 0
      BY <1>1 DEF NoOverlap
    <2> QED
      BY <1>1, <2>1 DEF NoOverlap, TypeOK
  <1> QED
    BY <1>1, <1>2, <1>3
       DEF TypeOK, NoOrphanTimer, DisabledIsUnarmed, StoreAgrees, timers, counts

\* The end of a scheduled run keeps it: recorded, then scheduleNext().
LEMMA LoopRunSettlesKeeps ==
    ASSUME IInv, NEW s \in Schedules, LoopRunSettles(s)
    PROVE  IInv'
  <1> USE DEF IInv
  <1>1. /\ loopRuns[s] > 0
        /\ loopRuns' = [loopRuns EXCEPT ![s] = @ - 1]
        /\ UNCHANGED <<registered, config, started, manualRuns, counts>>
    BY DEF LoopRunSettles
  <1>2. PICK o \in Outcome :
          /\ RecordOutcome(s, o)
          /\ SetTimers(s, ScheduleNext(TimerOf(s), config[s], o))
    BY DEF LoopRunSettles
  <1>3. /\ failures' \in [Schedules -> 0..FailureCap]
        /\ store' \in [Schedules -> StoreRow]
        /\ isRunning' \in [Schedules -> BOOLEAN]
        /\ awaited' \in SUBSET Schedules
        /\ StoreAgrees'
    BY <1>2, RecordOutcomeKeeps
  <1>4. /\ ScheduleNext(TimerOf(s), config[s], o) \in {Unarmed, Armed}
        /\ ScheduleNext(TimerOf(s), config[s], o) = Armed => config[s].enabled
    BY RescheduledKind
  <1>5. /\ armed' \in [Schedules -> Nat] /\ handle' \in [Schedules -> BOOLEAN]
        /\ NoOrphanTimer' /\ DisabledIsUnarmed'
    BY <1>1, <1>2, <1>4, SetTimersKeeps
  <1>6. loopRuns[s] = 1 /\ manualRuns[s] = 0
    BY <1>1, SoleRun
  <1>7. loopRuns' \in [Schedules -> Nat]
    BY <1>1, <1>6 DEF TypeOK
  <1>8. isRunning' = [isRunning EXCEPT ![s] = FALSE]
    BY <1>2 DEF RecordOutcome
  <1>9. NoOverlap'
    BY <1>1, <1>6, <1>8 DEF NoOverlap, TypeOK
  <1> QED
    BY <1>1, <1>3, <1>5, <1>7, <1>9 DEF TypeOK, counts

\* The end of a manual run keeps it: recorded, the timers untouched.
LEMMA ManualRunSettlesKeeps ==
    ASSUME IInv, NEW s \in Schedules, ManualRunSettles(s)
    PROVE  IInv'
  <1> USE DEF IInv
  <1>1. /\ manualRuns[s] > 0
        /\ manualRuns' = [manualRuns EXCEPT ![s] = @ - 1]
        /\ UNCHANGED <<registered, config, started, loopRuns, timers, counts>>
    BY DEF ManualRunSettles
  <1>2. PICK o \in Outcome : RecordOutcome(s, o)
    BY DEF ManualRunSettles
  <1>3. /\ failures' \in [Schedules -> 0..FailureCap]
        /\ store' \in [Schedules -> StoreRow]
        /\ isRunning' \in [Schedules -> BOOLEAN]
        /\ awaited' \in SUBSET Schedules
        /\ StoreAgrees'
    BY <1>2, RecordOutcomeKeeps
  <1>4. manualRuns[s] = 1 /\ loopRuns[s] = 0
    BY <1>1, SoleRun
  <1>5. manualRuns' \in [Schedules -> Nat]
    BY <1>1, <1>4 DEF TypeOK
  <1>6. isRunning' = [isRunning EXCEPT ![s] = FALSE]
    BY <1>2 DEF RecordOutcome
  <1>7. NoOverlap'
    BY <1>1, <1>4, <1>6 DEF NoOverlap, TypeOK
  <1> QED
    BY <1>1, <1>3, <1>5, <1>7
       DEF TypeOK, NoOrphanTimer, DisabledIsUnarmed, timers, counts

-----------------------------------------------------------------------------
(* The theorems *)

\* create(): the runner starts empty, stopped and without timers.
LEMMA InitKeeps == Init => IInv
  <1> SUFFICES ASSUME Init PROVE IInv
    OBVIOUS
  <1>1. (CHOOSE c \in Configs : TRUE) \in Configs
    BY RunnerAssumption
  <1>2. 0 \in 0..FailureCap
    BY RunnerAssumption
  <1>3. TypeOK
    BY <1>1, <1>2 DEF Init, TypeOK, StoreRow
  <1>4. NoOverlap
    <2>1. \A s \in Schedules :
             /\ loopRuns[s] = 0 /\ manualRuns[s] = 0 /\ isRunning[s] = FALSE
      BY DEF Init
    <2>2. 0 + 0 = 0
      OBVIOUS
    <2> QED
      BY <2>1, <2>2, Zenon DEF NoOverlap
  <1>5. NoOrphanTimer /\ DisabledIsUnarmed
    BY DEF Init, NoOrphanTimer, DisabledIsUnarmed
  <1>6. StoreAgrees
    <2>1. \A s \in Schedules :
             /\ store[s] = [consecutiveFailures |-> 0, lastError |-> FALSE]
             /\ failures[s] = 0
      BY DEF Init
    <2>2. ASSUME NEW s \in Schedules
          PROVE  /\ store[s].consecutiveFailures = 0
                 /\ store[s].lastError = FALSE
                 /\ failures[s] = 0
      BY <2>1
    <2>3. ~(0 > 0)
      OBVIOUS
    <2> QED
      BY <2>2, <2>3, Zenon DEF StoreAgrees
  <1> QED
    BY <1>3, <1>4, <1>5, <1>6 DEF IInv

\* Every step of the runner keeps the invariant.
LEMMA NextKeeps == IInv /\ [Next]_vars => IInv'
  <1> SUFFICES ASSUME IInv, [Next]_vars PROVE IInv'
    OBVIOUS
  <1>1. ASSUME NEW s \in Schedules, NEW c \in Configs, Register(s, c)
        PROVE  IInv'
    BY <1>1, RegisterKeeps
  <1>2. CASE Start
    BY <1>2, StartKeeps
  <1>3. CASE Stop
    BY <1>3, StopKeeps
  <1>4. ASSUME NEW s \in Schedules, TimerFires(s) PROVE IInv'
    BY <1>4, TimerFiresKeeps
  <1>5. ASSUME NEW s \in Schedules, RunOnce(s) PROVE IInv'
    BY <1>5, RunOnceKeeps
  <1>6. ASSUME NEW s \in Schedules, LoopRunSettles(s) PROVE IInv'
    BY <1>6, LoopRunSettlesKeeps
  <1>7. ASSUME NEW s \in Schedules, ManualRunSettles(s) PROVE IInv'
    BY <1>7, ManualRunSettlesKeeps
  <1>8. CASE UNCHANGED vars
    BY <1>8 DEF vars, runs, timers, counts, IInv, TypeOK, NoOverlap,
                NoOrphanTimer, DisabledIsUnarmed, StoreAgrees
  <1> QED
    BY <1>1, <1>2, <1>3, <1>4, <1>5, <1>6, <1>7, <1>8 DEF Next

\* The invariant holds in every state of every execution of the runner.
THEOREM Invariance == Spec => []IInv
  <1> QED
    BY InitKeeps, NextKeeps, PTL DEF Spec

\* The runner's variables always have their types: in particular the count of
\* consecutive failures never leaves 0..FailureCap.
THEOREM TypeCorrect == Spec => []TypeOK
  <1>1. IInv => TypeOK
    BY DEF IInv
  <1> QED
    BY <1>1, Invariance, PTL

\* In-process overlap prevention (the isRunning check of runOnceAndReschedule()
\* and of runOnce()): no schedule ever has two handler executions in flight.
THEOREM OverlapPrevention == Spec => []NoOverlap
  <1>1. IInv => NoOverlap
    BY DEF IInv
  <1> QED
    BY <1>1, Invariance, PTL

\* scheduleNext() clears before it arms, so timeoutId always names the one live
\* timer of a schedule and stop() can always clear it.
THEOREM TimersNeverEscape == Spec => []NoOrphanTimer
  <1>1. IInv => NoOrphanTimer
    BY DEF IInv
  <1> QED
    BY <1>1, Invariance, PTL

\* A schedule whose definition was replaced by a disabled one has no timer, even
\* when the run it had in flight settles after the replacement.
THEOREM DisabledStaysUnarmed == Spec => []DisabledIsUnarmed
  <1>1. IInv => DisabledIsUnarmed
    BY DEF IInv
  <1> QED
    BY <1>1, Invariance, PTL

\* The state store reports the runner's own failure count, and an error exactly
\* when that count is positive.
THEOREM StoreStaysInAgreement == Spec => []StoreAgrees
  <1>1. IInv => StoreAgrees
    BY DEF IInv
  <1> QED
    BY <1>1, Invariance, PTL

\* stop() ends the loop of every schedule whose scheduled run it does not find in
\* flight, and nothing but start() begins one again.
THEOREM StopEndsLoops == Spec => LoopsEndAtStop
  <1> DEFINE Survives(x) == Looping(x)' => IF started THEN loopRuns[x] > 0 ELSE Looping(x)
  <1>1. ASSUME IInv, [Next]_vars, ~started', NEW x \in registered'
        PROVE  Survives(x)
    <2>1. /\ armed \in [Schedules -> Nat] /\ loopRuns \in [Schedules -> Nat]
          /\ registered \subseteq Schedules
      BY <1>1 DEF IInv, TypeOK
    <2>2. \/ armed'[x] = armed[x] /\ loopRuns'[x] = loopRuns[x] /\ started' = started
          \/ armed'[x] = 0 /\ loopRuns'[x] = loopRuns[x]
          \/ ~started /\ Looping(x)
      <3>1. ASSUME NEW s \in Schedules, NEW c \in Configs, Register(s, c)
            PROVE  \/ armed'[x] = armed[x] /\ loopRuns'[x] = loopRuns[x]
                                          /\ started' = started
                   \/ armed'[x] = 0 /\ loopRuns'[x] = loopRuns[x]
        <4>1. started' = started /\ ~started
          BY <1>1, <3>1 DEF Register
        <4>2. CASE c.enabled
          BY <4>1, <3>1, <4>2 DEF Register, OnlyRecords, timers, runs
        <4>3. CASE ~c.enabled
          <5>1. SetTimers(s, ClearTimer(TimerOf(s))) /\ loopRuns' = loopRuns
            BY <3>1, <4>3 DEF Register, runs
          <5>2. ClearTimer(TimerOf(s)) = Unarmed
            BY <1>1, TimerOfKind, TimerKinds DEF IInv
          <5>3. armed' = [armed EXCEPT ![s] = 0]
            BY <5>1, <5>2, TimerKinds DEF SetTimers
          <5>4. armed'[x] = 0 \/ armed'[x] = armed[x]
            BY <2>1, <5>3
          <5> QED
            BY <4>1, <5>1, <5>4
        <4> QED
          BY <4>2, <4>3
      <3>2. ~Start
        BY <1>1 DEF Start
      <3>3. CASE Stop
        <4>1. x \in registered /\ x \in Schedules /\ loopRuns' = loopRuns
          BY <1>1, <2>1, <3>3 DEF Stop, runs
        <4>2. ClearTimer(TimerOf(x)) = Unarmed
          BY <1>1, <4>1, TimerOfKind, TimerKinds DEF IInv
        <4>3. armed'[x] = ClearTimer(TimerOf(x)).a
          BY <3>3, <4>1 DEF Stop
        <4> QED
          BY <4>1, <4>2, <4>3, TimerKinds
      <3>4. ASSUME NEW s \in Schedules, TimerFires(s)
            PROVE  \/ armed'[x] = armed[x] /\ loopRuns'[x] = loopRuns[x]
                                          /\ started' = started
                   \/ ~started /\ Looping(x)
        <4>1. armed[s] > 0 /\ started' = started /\ x \in Schedules
          BY <1>1, <2>1, <3>4 DEF TimerFires
        <4>2. /\ \E n : armed' = [armed EXCEPT ![s] = n]
              /\ \/ loopRuns' = loopRuns
                 \/ \E n : loopRuns' = [loopRuns EXCEPT ![s] = n]
          BY <3>4 DEF TimerFires, RunAndReschedule, SetTimers, BeginLoopRun, runs
        <4>3. CASE x = s
          BY <1>1, <4>1, <4>3 DEF Looping
        <4>4. CASE x # s
          <5>1. armed'[x] = armed[x]
            BY <2>1, <4>1, <4>2, <4>4
          <5>2. loopRuns'[x] = loopRuns[x]
            BY <2>1, <4>1, <4>2, <4>4
          <5> QED
            BY <4>1, <5>1, <5>2
        <4> QED
          BY <4>3, <4>4
      <3>5. ASSUME NEW s \in Schedules, RunOnce(s) \/ ManualRunSettles(s)
            PROVE  armed' = armed /\ loopRuns' = loopRuns /\ started' = started
        BY <3>5 DEF RunOnce, ManualRunSettles, timers
      <3>6. ASSUME NEW s \in Schedules, LoopRunSettles(s)
            PROVE  \/ armed'[x] = armed[x] /\ loopRuns'[x] = loopRuns[x]
                                          /\ started' = started
                   \/ ~started /\ Looping(x)
        <4>1. loopRuns[s] > 0 /\ started' = started
          BY <3>6 DEF LoopRunSettles
        <4>2. /\ \E n : armed' = [armed EXCEPT ![s] = n]
              /\ \E n : loopRuns' = [loopRuns EXCEPT ![s] = n]
          BY <3>6 DEF LoopRunSettles, SetTimers
        <4>3. CASE x = s
          BY <1>1, <4>1, <4>3 DEF Looping
        <4>4. CASE x # s
          BY <2>1, <4>1, <4>2, <4>4
        <4> QED
          BY <4>3, <4>4
      <3>7. CASE UNCHANGED vars
        BY <3>7 DEF vars, timers, runs
      <3> QED
        BY <1>1, <3>1, <3>2, <3>3, <3>4, <3>5, <3>6, <3>7 DEF Next
    <2>3. CASE ~started /\ Looping(x)
      BY <2>3
    <2>4. CASE armed'[x] = armed[x] /\ loopRuns'[x] = loopRuns[x] /\ started' = started
      BY <1>1, <2>4 DEF Looping
    <2>5. CASE armed'[x] = 0 /\ loopRuns'[x] = loopRuns[x]
      BY <2>5 DEF Looping
    <2> QED
      BY <2>2, <2>3, <2>4, <2>5
  <1>2. IInv /\ [Next]_vars =>
          [~started' => \A s \in registered' :
              Looping(s)' => IF started THEN loopRuns[s] > 0 ELSE Looping(s)]_vars
    BY <1>1
  <1> QED
    BY <1>2, Invariance, PTL DEF Spec, LoopsEndAtStop

-----------------------------------------------------------------------------
(* The loop of a recurring schedule that nobody invokes by hand.             *)

LoopInv == /\ IInv
           /\ LoopAlive
           /\ \A s \in Schedules \ Manual : manualRuns[s] = 0

\* scheduleNext() of an enabled, recurring definition arms a timer.
LEMMA RecurringIsArmed ==
    ASSUME IInv, NEW s \in Schedules, NEW c, NEW o, c.enabled, c.repeats,
           NEW t, t = ScheduleNext(TimerOf(s), c, o)
    PROVE  t.a > 0
  <1> USE DEF IInv
  <1>1. HasNextDelay(c, o)
    BY DEF HasNextDelay
  <1>2. TimerOf(s) \in {Unarmed, Armed}
    BY TimerOfKind
  <1>3. t = Armed
    BY <1>1, <1>2, NextTimerKind
  <1>4. t.a = 1
    BY <1>3, TimerKinds
  <1> QED
    BY <1>4

\* Begun or skipped, a scheduled run leaves a scheduled run in flight: where
\* nobody calls by hand the run that makes it skip is a scheduled one.
LEMMA LoopRunInFlight ==
    ASSUME LoopInv, NEW s \in Schedules, NEW t, NEW c, RunAndReschedule(s, t, c)
    PROVE  /\ s \notin Manual => loopRuns'[s] > 0
           /\ manualRuns' = manualRuns
           /\ \A x \in Schedules \ {s} :
                 loopRuns'[x] = loopRuns[x] /\ armed'[x] = armed[x]
  <1> USE DEF LoopInv, IInv
  <1>1. \A x \in Schedules \ {s} : armed'[x] = armed[x]
    BY DEF RunAndReschedule, SetTimers, TypeOK
  <1>2. CASE ~isRunning[s] /\ BeginLoopRun(s)
    BY <1>1, <1>2 DEF BeginLoopRun, TypeOK
  <1>3. CASE isRunning[s] /\ UNCHANGED runs
    <2>1. /\ loopRuns[s] + manualRuns[s] = 1
          /\ s \notin Manual => manualRuns[s] = 0
      BY <1>3 DEF NoOverlap
    <2> QED
      BY <1>1, <1>3, <2>1 DEF runs, TypeOK
  <1> QED
    BY <1>2, <1>3 DEF RunAndReschedule

\* register() keeps the loop: a replaced definition is run, rescheduled, or
\* left to the scheduled run in flight.
LEMMA RegisterKeepsLoop ==
    ASSUME LoopInv, NEW s \in Schedules, NEW c \in Configs, Register(s, c)
    PROVE  LoopAlive' /\ manualRuns' = manualRuns
  <1> USE DEF LoopInv, IInv
  <1>1. /\ config' = [config EXCEPT ![s] = c]
        /\ registered' = registered \union {s}
        /\ started' = started
    BY DEF Register
  <1>2. /\ config'[s] = c
        /\ \A x \in Schedules \ {s} : Recurring(x)' => Recurring(x)
    BY <1>1 DEF Recurring, TypeOK
  <1>3. ASSUME manualRuns' = manualRuns,
               s \notin Manual /\ Recurring(s)' => armed'[s] > 0 \/ loopRuns'[s] > 0,
               \A x \in Schedules \ {s} :
                  loopRuns'[x] = loopRuns[x] /\ armed'[x] = armed[x]
        PROVE  LoopAlive' /\ manualRuns' = manualRuns
    BY <1>2, <1>3 DEF LoopAlive
  <1>4. CASE /\ ~c.enabled
             /\ SetTimers(s, ClearTimer(TimerOf(s)))
             /\ UNCHANGED <<runs, store>>
    <2>1. ~Recurring(s)'
      BY <1>2, <1>4 DEF Recurring
    <2> QED
      BY <1>3, <1>4, <2>1 DEF SetTimers, TypeOK, runs
  <1>5. CASE OnlyRecords(s) /\ UNCHANGED <<runs, timers, store>>
    <2>1. CASE ~started
      <3>1. ~Recurring(s)'
        BY <1>1, <2>1 DEF Recurring
      <3> QED
        BY <1>3, <1>5, <3>1 DEF runs, timers
    <2>2. CASE isRunning[s]
      <3>1. /\ loopRuns[s] + manualRuns[s] = 1
            /\ s \notin Manual => manualRuns[s] = 0
        BY <2>2 DEF NoOverlap
      <3>2. s \notin Manual => loopRuns[s] > 0
        BY <3>1 DEF TypeOK
      <3> QED
        BY <1>3, <1>5, <3>2 DEF runs, timers
    <2> QED
      BY <1>5, <2>1, <2>2 DEF OnlyRecords
  <1>6. CASE RunAndReschedule(s, TimerOf(s), c)
    BY <1>3, <1>6, LoopRunInFlight
  <1>7. CASE /\ c.enabled
             /\ SetTimers(s, ScheduleNext(TimerOf(s), c, "success"))
             /\ UNCHANGED runs
    <2> DEFINE t == ScheduleNext(TimerOf(s), c, "success")
    <2>1. armed' = [armed EXCEPT ![s] = t.a]
      BY <1>7 DEF SetTimers
    <2>2. Recurring(s)' => t.a > 0
      BY <1>2, <1>7, RecurringIsArmed DEF Recurring
    <2> HIDE DEF t
    <2>3. armed'[s] = t.a
      BY <2>1 DEF TypeOK
    <2> QED
      BY <1>3, <1>7, <2>1, <2>2, <2>3 DEF runs, TypeOK
  <1> QED
    BY <1>4, <1>5, <1>6, <1>7 DEF Register

\* start() gives every recurring schedule a run or a timer.
LEMMA StartKeepsLoop ==
    ASSUME LoopInv, Start
    PROVE  LoopAlive' /\ manualRuns' = manualRuns
  <1> USE DEF LoopInv, IInv
  <1> DEFINE live == {s \in registered : config[s].enabled}
             begin == {s \in live : config[s].runOnStart /\ ~isRunning[s]}
             outcome(s) == IF config[s].runOnStart THEN "failure" ELSE "success"
             next(s) == ScheduleNext(TimerOf(s), config[s], outcome(s))
  <1>1. /\ loopRuns' = [s \in Schedules |->
              IF s \in begin THEN loopRuns[s] + 1 ELSE loopRuns[s]]
        /\ armed' = [s \in Schedules |->
              IF s \in live \ begin THEN next(s).a ELSE armed[s]]
        /\ UNCHANGED <<registered, config, manualRuns>>
    BY DEF Start
  <1>2. ASSUME NEW s \in Schedules, Recurring(s)'
        PROVE  armed'[s] > 0 \/ loopRuns'[s] > 0
    <2>1. s \in live /\ config[s].enabled /\ config[s].repeats
      BY <1>1, <1>2 DEF Recurring
    <2>2. CASE s \in begin
      <3>1. loopRuns'[s] = loopRuns[s] + 1
        BY <1>1, <2>2
      <3> QED
        BY <3>1 DEF TypeOK
    <2>3. CASE s \notin begin
      <3>1. armed'[s] = next(s).a
        BY <1>1, <2>1, <2>3
      <3> QED
        BY <2>1, <3>1, RecurringIsArmed
    <2> QED
      BY <2>2, <2>3
  <1> QED
    BY <1>1, <1>2 DEF LoopAlive

\* A timer callback and the end of a scheduled run keep the loop: the one leaves
\* a run in flight, the other rearms the schedule.
LEMMA FiringKeepsLoop ==
    ASSUME LoopInv, NEW s \in Schedules, TimerFires(s) \/ LoopRunSettles(s)
    PROVE  LoopAlive' /\ manualRuns' = manualRuns
  <1> USE DEF LoopInv, IInv
  <1>1. CASE TimerFires(s)
    <2>1. /\ RunAndReschedule(s, ClearTimer(TimerOf(s)), config[s])
          /\ UNCHANGED <<registered, config, started>>
      BY <1>1, FiringTimer
    <2>2. /\ s \notin Manual => loopRuns'[s] > 0
          /\ manualRuns' = manualRuns
          /\ \A x \in Schedules \ {s} :
                loopRuns'[x] = loopRuns[x] /\ armed'[x] = armed[x]
      BY <2>1, LoopRunInFlight
    <2> QED
      BY <2>1, <2>2 DEF LoopAlive, Recurring
  <1>2. CASE LoopRunSettles(s)
    <2>1. /\ loopRuns' = [loopRuns EXCEPT ![s] = @ - 1]
          /\ UNCHANGED <<registered, config, started, manualRuns>>
      BY <1>2 DEF LoopRunSettles
    <2>2. PICK o \in Outcome : SetTimers(s, ScheduleNext(TimerOf(s), config[s], o))
      BY <1>2 DEF LoopRunSettles
    <2> DEFINE t == ScheduleNext(TimerOf(s), config[s], o)
    <2>3. armed' = [armed EXCEPT ![s] = t.a]
      BY <2>2 DEF SetTimers
    <2>4. Recurring(s) => t.a > 0
      BY RecurringIsArmed DEF Recurring
    <2> HIDE DEF t
    <2>5. /\ armed'[s] = t.a
          /\ \A x \in Schedules \ {s} :
                loopRuns'[x] = loopRuns[x] /\ armed'[x] = armed[x]
      BY <2>1, <2>3 DEF TypeOK
    <2> QED
      BY <2>1, <2>4, <2>5 DEF LoopAlive, Recurring
  <1> QED
    BY <1>1, <1>2

\* runOnce() and the end of its run touch neither the loop's runs nor its timer.
LEMMA ManualKeepsLoop ==
    ASSUME LoopInv, NEW s \in Schedules, RunOnce(s) \/ ManualRunSettles(s)
    PROVE  LoopAlive' /\ \A x \in Schedules \ Manual : manualRuns'[x] = 0
  <1> USE DEF LoopInv, IInv
  <1>1. CASE RunOnce(s)
    <2>1. /\ s \in Manual
          /\ \A x \in Schedules \ {s} : manualRuns'[x] = manualRuns[x]
          /\ UNCHANGED <<registered, config, started, loopRuns, armed>>
      BY <1>1 DEF RunOnce, timers, runs, TypeOK
    <2> QED
      BY <2>1 DEF LoopAlive, Recurring
  <1>2. CASE ManualRunSettles(s)
    <2>1. /\ manualRuns[s] > 0
          /\ \A x \in Schedules \ {s} : manualRuns'[x] = manualRuns[x]
          /\ UNCHANGED <<registered, config, started, loopRuns, armed>>
      BY <1>2 DEF ManualRunSettles, timers, TypeOK
    <2>2. s \in Manual
      BY <2>1
    <2> QED
      BY <2>1, <2>2 DEF LoopAlive, Recurring
  <1> QED
    BY <1>1, <1>2

\* Whatever is invoked by hand, a started runner never loses the loop of a
\* recurring schedule that is not: register() may rely on the run in flight to
\* reschedule.
THEOREM LoopNeverLost == Spec => []LoopAlive
  <1>1. Init => LoopInv
    <2> SUFFICES ASSUME Init
                 PROVE  LoopAlive /\ \A s \in Schedules : manualRuns[s] = 0
      BY InitKeeps DEF LoopInv
    <2> QED
      BY DEF Init, LoopAlive, Recurring
  <1>2. LoopInv /\ [Next]_vars => LoopInv'
    <2> SUFFICES ASSUME LoopInv, [Next]_vars PROVE LoopInv'
      OBVIOUS
    <2>1. IInv'
      BY NextKeeps DEF LoopInv
    <2> DEFINE Keeps == LoopAlive' /\ \A x \in Schedules \ Manual : manualRuns'[x] = 0
    <2>2. ASSUME LoopAlive' /\ manualRuns' = manualRuns PROVE Keeps
      BY <2>2 DEF LoopInv
    <2>3. Keeps
      <3>1. ASSUME NEW s \in Schedules, NEW c \in Configs, Register(s, c)
            PROVE  Keeps
        BY <2>2, <3>1, RegisterKeepsLoop
      <3>2. CASE Start
        BY <2>2, <3>2, StartKeepsLoop
      <3>3. CASE Stop
        BY <2>2, <3>3 DEF Stop, LoopAlive, Recurring, runs
      <3>4. ASSUME NEW s \in Schedules, TimerFires(s) \/ LoopRunSettles(s)
            PROVE  Keeps
        BY <2>2, <3>4, FiringKeepsLoop
      <3>5. ASSUME NEW s \in Schedules, RunOnce(s) \/ ManualRunSettles(s)
            PROVE  Keeps
        BY <3>5, ManualKeepsLoop
      <3>6. CASE UNCHANGED vars
        BY <2>2, <3>6 DEF vars, runs, timers, LoopInv, LoopAlive, Recurring
      <3> QED
        BY <3>1, <3>2, <3>3, <3>4, <3>5, <3>6 DEF Next
    <2> QED
      BY <2>1, <2>3 DEF LoopInv
  <1>3. LoopInv => LoopAlive
    BY DEF LoopInv
  <1> QED
    BY <1>1, <1>2, <1>3, PTL DEF Spec
=============================================================================
