----------------------- MODULE CanaryControllerProofs -----------------------
(* Theorems about CircuitBreaker and CanaryController, for any versions,      *)
(* thresholds, traffic steps and numbers of jobs in flight.                   *)
EXTENDS CanaryController, TLAPS

\* What holds of every circuit, and of a half-open one with a streak of n.
Sound(k) == k.failures <= k.total /\ (k.state = "open" <=> k.retry # "none")

Earned(k, n) == k.state = "half-open" => k.successes <= n

BreakerInv ==
    /\ BreakerTypeOK
    /\ \A v \in Versions : Sound(circuit[v]) /\ Earned(circuit[v], streak[v])

CanaryInv ==
    /\ deployment \in Deployment
    /\ rampTimer \in BOOLEAN /\ doneTimer \in BOOLEAN /\ experiment \in BOOLEAN
    /\ paused \in BOOLEAN
    /\ ops \in Nat
    /\ NeverStranded

IInv == BreakerInv /\ CanaryInv

-----------------------------------------------------------------------------
(* Circuits *)

\* Counting saturates at MaxCount and never goes down.
LEMMA Plus1Bounds ==
    ASSUME NEW n \in Count
    PROVE  /\ Plus1(n) \in Count
           /\ n <= Plus1(n)
           /\ \A m \in Count : m <= n => Plus1(m) <= Plus1(n)
  BY BreakerAssumption DEF Plus1, Count

LEMMA FreshIsSound ==
    /\ Fresh \in Circuit /\ Absent \in Circuit
    /\ Sound(Fresh) /\ Sound(Absent)
    /\ \A n \in Count : Earned(Fresh, n) /\ Earned(Absent, n)
  BY BreakerAssumption DEF Fresh, Absent, Circuit, Count, Sound, Earned

\* The three transitions give a sound circuit, whatever its counters said.
LEMMA TransitionsAreSound ==
    ASSUME NEW k \in Circuit, k.failures <= k.total
    PROVE  /\ Opened(k) \in Circuit /\ Sound(Opened(k))
           /\ Closed(k) \in Circuit /\ Sound(Closed(k))
           /\ HalfOpened(k) \in Circuit /\ Sound(HalfOpened(k))
           /\ \A n \in Count : /\ Earned(Opened(k), n)
                               /\ Earned(Closed(k), n)
                               /\ Earned(HalfOpened(k), n)
  <1>1. k.failures \in Nat /\ k.total \in Nat /\ 0 \in Count
    BY BreakerAssumption DEF Circuit, Count
  <1>2. /\ Opened(k) \in Circuit
        /\ Opened(k).state = "open" /\ Opened(k).retry = "waiting"
        /\ Opened(k).failures = k.failures /\ Opened(k).total = k.total
    BY DEF Opened, Circuit
  <1>3. /\ Closed(k) \in Circuit
        /\ Closed(k).state = "closed" /\ Closed(k).retry = "none"
        /\ Closed(k).failures = 0 /\ Closed(k).total = k.total
    BY <1>1 DEF Closed, Circuit
  <1>4. /\ HalfOpened(k) \in Circuit
        /\ HalfOpened(k).state = "half-open" /\ HalfOpened(k).retry = "none"
        /\ HalfOpened(k).failures = k.failures /\ HalfOpened(k).total = k.total
        /\ HalfOpened(k).successes = 0
    BY <1>1 DEF HalfOpened, Circuit
  <1>5. \A n \in Count : 0 <= n
    BY DEF Count
  <1> QED
    BY <1>1, <1>2, <1>3, <1>4, <1>5 DEF Sound, Earned

\* canExecute() leaves a sound circuit.
LEMMA AdmittedIsSound ==
    ASSUME NEW k \in Circuit, Sound(k), NEW n \in Count, Earned(k, n)
    PROVE  Admitted(k) \in Circuit /\ Sound(Admitted(k)) /\ Earned(Admitted(k), n)
  <1>1. k.failures <= k.total
    BY DEF Sound
  <1>2. CASE k.state = "absent"
    BY <1>2, FreshIsSound DEF Admitted
  <1>3. CASE k.state = "open"
    BY <1>1, <1>3, TransitionsAreSound DEF Admitted
  <1>4. CASE k.state = "half-open"
    BY <1>4 DEF Admitted
  <1>5. CASE k.state = "closed"
    <2>1. 0 \in Count
      BY BreakerAssumption DEF Count
    <2>2. /\ ForgetFailures(k) \in Circuit
          /\ ForgetFailures(k).state = "closed"
          /\ ForgetFailures(k).retry = k.retry
          /\ ForgetFailures(k).failures = 0 /\ ForgetFailures(k).total = 0
      BY <1>5, <2>1 DEF ForgetFailures, Circuit
    <2>3. Admitted(k) \in {ForgetFailures(k), k}
      BY <1>5 DEF Admitted
    <2> QED
      BY <1>5, <2>2, <2>3 DEF Sound, Earned
  <1> QED
    BY <1>2, <1>3, <1>4, <1>5 DEF Circuit

\* recordSuccess() leaves a sound circuit, and the streak grows with it.
LEMMA SuccessIsSound ==
    ASSUME NEW k \in Circuit, Sound(k), NEW n \in Count, Earned(k, n)
    PROVE  /\ AfterSuccess(k) \in Circuit
           /\ Sound(AfterSuccess(k))
           /\ Earned(AfterSuccess(k), IF Exists(k) THEN Plus1(n) ELSE 0)
           /\ k.state = "half-open" /\ AfterSuccess(k).state = "closed"
                => Plus1(n) >= SuccessThreshold
  <1> DEFINE s == CountSuccess(k)
  <1>1. k.successes \in Count /\ k.total \in Count /\ k.failures \in Count
    BY DEF Circuit
  <1>2. /\ s \in Circuit
        /\ s.successes = Plus1(k.successes)
        /\ s.failures = k.failures
        /\ s.total = Plus1(k.total)
        /\ s.state = k.state /\ s.retry = k.retry
    BY <1>1, Plus1Bounds DEF CountSuccess, Circuit
  <1>3. s.failures <= s.total
    BY <1>1, <1>2, Plus1Bounds DEF Sound, Count
  <1>4. Plus1(n) \in Count
    BY Plus1Bounds
  <1> HIDE DEF s
  <1>5. CASE ~Exists(k)
    <2>1. AfterSuccess(k) = Fresh
      BY <1>5 DEF AfterSuccess
    <2> QED
      BY <1>5, <2>1, FreshIsSound, BreakerAssumption DEF Exists, Earned, Fresh
  <1>6. CASE Exists(k) /\ k.state = "half-open" /\ s.successes >= SuccessThreshold
    <2>1. AfterSuccess(k) = Closed(s)
      BY <1>2, <1>6 DEF AfterSuccess, s
    <2>2. s.successes <= Plus1(n)
      BY <1>1, <1>2, <1>6, Plus1Bounds DEF Earned
    <2>3. Plus1(n) >= SuccessThreshold
      BY <1>1, <1>2, <1>4, <1>6, <2>2, Plus1Bounds, BreakerAssumption DEF Count
    <2> QED
      BY <1>2, <1>3, <1>4, <1>6, <2>1, <2>3, TransitionsAreSound
  <1>7. CASE Exists(k) /\ ~(k.state = "half-open" /\ s.successes >= SuccessThreshold)
    <2>1. AfterSuccess(k) = s
      BY <1>2, <1>7 DEF AfterSuccess, s
    <2>2. k.state = "half-open" => s.successes <= Plus1(n)
      BY <1>1, <1>2, Plus1Bounds DEF Earned
    <2> QED
      BY <1>2, <1>3, <1>7, <2>1, <2>2 DEF Sound, Earned
  <1> QED
    BY <1>5, <1>6, <1>7

\* recordFailure() leaves a sound circuit that is not half-open.
LEMMA FailureIsSound ==
    ASSUME NEW k \in Circuit, Sound(k)
    PROVE  /\ AfterFailure(k) \in Circuit
           /\ Sound(AfterFailure(k))
           /\ AfterFailure(k).state # "half-open"
           /\ k.state = "half-open" => AfterFailure(k).state = "open"
  <1> DEFINE s == CountFailure(k)
  <1>1. k.total \in Count /\ k.failures \in Count
    BY DEF Circuit
  <1>2. /\ s \in Circuit
        /\ s.failures = Plus1(k.failures)
        /\ s.total = Plus1(k.total)
        /\ s.state = k.state /\ s.retry = k.retry
    BY <1>1, Plus1Bounds DEF CountFailure, Circuit
  <1>3. s.failures <= s.total
    BY <1>1, <1>2, Plus1Bounds DEF Sound
  <1> HIDE DEF s
  <1>4. CASE ~Exists(k)
    <2>1. AfterFailure(k) = Fresh
      BY <1>4 DEF AfterFailure
    <2> QED
      BY <1>4, <2>1, FreshIsSound DEF Exists, Fresh
  <1>5. CASE Exists(k) /\ TripsOn(s)
    <2>1. AfterFailure(k) = Opened(s)
      BY <1>5 DEF AfterFailure, s
    <2>2. Opened(s).state = "open"
      BY <1>2 DEF Opened, Circuit
    <2> QED
      BY <1>2, <1>3, <2>1, <2>2, TransitionsAreSound
  <1>6. CASE Exists(k) /\ ~TripsOn(s)
    <2>1. AfterFailure(k) = s
      BY <1>6 DEF AfterFailure, s
    <2>2. s.state # "half-open"
      BY <1>6 DEF TripsOn
    <2> QED
      BY <1>2, <1>3, <2>1, <2>2 DEF Sound
  <1> QED
    BY <1>4, <1>5, <1>6

\* forceOpen() and reset() leave a sound circuit that is not half-open.
LEMMA OperatorsAreSound ==
    ASSUME NEW k \in Circuit, Sound(k), NEW n \in Count, Earned(k, n)
    PROVE  /\ ForcedOpen(k) \in Circuit /\ Sound(ForcedOpen(k)) /\ Earned(ForcedOpen(k), n)
           /\ ResetOf(k) \in Circuit /\ Sound(ResetOf(k)) /\ Earned(ResetOf(k), n)
  <1>1. k.failures <= k.total
    BY DEF Sound
  <1>2. Fresh \in Circuit /\ Fresh.failures <= Fresh.total
    BY FreshIsSound DEF Sound
  <1>3. ForcedOpen(k) \in Circuit /\ Sound(ForcedOpen(k)) /\ Earned(ForcedOpen(k), n)
    BY <1>1, <1>2, TransitionsAreSound DEF ForcedOpen
  <1>4. ResetOf(k) \in Circuit /\ Sound(ResetOf(k)) /\ Earned(ResetOf(k), n)
    <2>1. 0 \in Count
      BY BreakerAssumption DEF Count
    <2> DEFINE r == [Closed(k) EXCEPT !.total = 0]
    <2>2. /\ r \in Circuit
          /\ r.state = "closed" /\ r.retry = "none"
          /\ r.failures = 0 /\ r.total = 0
      BY <2>1 DEF Closed, Circuit
    <2>3. ResetOf(k) \in {r, k}
      BY DEF ResetOf
    <2> HIDE DEF r
    <2>4. r \in Circuit /\ Sound(r) /\ Earned(r, n)
      BY <2>2 DEF Sound, Earned
    <2> QED
      BY <2>3, <2>4
  <1> QED
    BY <1>3, <1>4

-----------------------------------------------------------------------------
(* Steps of the breaker *)

\* One circuit is replaced by a sound one.
LEMMA CircuitReplaced ==
    ASSUME BreakerInv, NEW v \in Versions, NEW k \in Circuit, NEW n \in Count,
           Sound(k), Earned(k, n), calls' \in [Calls -> [pc : CallState, version : Versions]],
           circuit' = [circuit EXCEPT ![v] = k], streak' = [streak EXCEPT ![v] = n]
    PROVE  BreakerInv'
  <1>1. /\ circuit' \in [Versions -> Circuit]
        /\ streak' \in [Versions -> Count]
        /\ circuit'[v] = k /\ streak'[v] = n
        /\ \A w \in Versions \ {v} : circuit'[w] = circuit[w] /\ streak'[w] = streak[w]
    BY DEF BreakerInv, BreakerTypeOK
  <1>2. \A w \in Versions : Sound(circuit'[w]) /\ Earned(circuit'[w], streak'[w])
    BY <1>1 DEF BreakerInv
  <1> QED
    BY <1>1, <1>2 DEF BreakerInv, BreakerTypeOK, Sound, Earned

\* The same when the streak stays.
LEMMA CircuitReplacedOnly ==
    ASSUME BreakerInv, NEW v \in Versions, NEW k \in Circuit,
           Sound(k), Earned(k, streak[v]),
           calls' \in [Calls -> [pc : CallState, version : Versions]],
           circuit' = [circuit EXCEPT ![v] = k], streak' = streak
    PROVE  BreakerInv'
  <1>1. streak[v] \in Count /\ streak' = [streak EXCEPT ![v] = streak[v]]
    BY DEF BreakerInv, BreakerTypeOK
  <1> QED
    BY <1>1, CircuitReplaced

\* A step of a job keeps the types of calls.
LEMMA MovesType ==
    ASSUME BreakerInv, NEW c \in Calls, NEW f, NEW t \in CallState, Moves(c, f, t)
    PROVE  /\ calls' \in [Calls -> [pc : CallState, version : Versions]]
           /\ calls[c].version \in Versions
  BY DEF BreakerInv, BreakerTypeOK, Moves

\* Nothing but the place of a job changes.
LEMMA OnlyCallsMove ==
    ASSUME BreakerInv, UNCHANGED <<circuit, streak>>,
           calls' \in [Calls -> [pc : CallState, version : Versions]]
    PROVE  BreakerInv'
  BY DEF BreakerInv, BreakerTypeOK, Sound, Earned

\* The circuit of a version, and 0, as the invariant types them.
LEMMA CircuitOf ==
    ASSUME BreakerInv, NEW v \in Versions
    PROVE  /\ circuit[v] \in Circuit /\ Sound(circuit[v])
           /\ streak[v] \in Count /\ Earned(circuit[v], streak[v])
           /\ 0 \in Count
  BY BreakerAssumption DEF BreakerInv, BreakerTypeOK, Count

LEMMA CallStepsKeep ==
    ASSUME BreakerInv, NEW c \in Calls, CallSteps(c)
    PROVE  BreakerInv'
  <1>1. ASSUME NEW v \in Versions, Execute(c, v) PROVE BreakerInv'
    <2>1. calls' \in [Calls -> [pc : CallState, version : Versions]]
      BY <1>1 DEF Execute, BreakerInv, BreakerTypeOK, CallState
    <2>2. circuit' = [circuit EXCEPT ![v] = Admitted(circuit[v])] /\ streak' = streak
      BY <1>1 DEF Execute
    <2> QED
      BY <2>1, <2>2, CircuitOf, AdmittedIsSound, CircuitReplacedOnly
  <1>2. CASE Succeeds(c)
    <2> DEFINE v == calls[c].version
               n == IF Exists(circuit[v]) THEN Plus1(streak[v]) ELSE 0
    <2>1. v \in Versions /\ calls' \in [Calls -> [pc : CallState, version : Versions]]
      BY <1>2, MovesType DEF Succeeds, CallState
    <2>2. /\ circuit' = [circuit EXCEPT ![v] = AfterSuccess(circuit[v])]
          /\ streak' = [streak EXCEPT ![v] = n]
      BY <1>2 DEF Succeeds
    <2>3. n \in Count
      BY <2>1, CircuitOf, Plus1Bounds
    <2>4. /\ AfterSuccess(circuit[v]) \in Circuit
          /\ Sound(AfterSuccess(circuit[v])) /\ Earned(AfterSuccess(circuit[v]), n)
      BY <2>1, CircuitOf, SuccessIsSound
    <2> HIDE DEF v, n
    <2> QED
      BY <2>1, <2>2, <2>3, <2>4, CircuitReplaced
  <1>3. CASE ReportsFailure(c)
    <2> DEFINE v == calls[c].version
    <2>1. v \in Versions /\ calls' \in [Calls -> [pc : CallState, version : Versions]]
      BY <1>3, MovesType DEF ReportsFailure, CallState
    <2>2. /\ circuit' = [circuit EXCEPT ![v] = AfterFailure(circuit[v])]
          /\ streak' = [streak EXCEPT ![v] = 0]
      BY <1>3 DEF ReportsFailure
    <2>3. /\ AfterFailure(circuit[v]) \in Circuit
          /\ Sound(AfterFailure(circuit[v])) /\ Earned(AfterFailure(circuit[v]), 0)
      BY <2>1, CircuitOf, FailureIsSound DEF Earned
    <2> HIDE DEF v
    <2> QED
      BY <2>1, <2>2, <2>3, CircuitOf, CircuitReplaced
  <1>4. CASE Skipped(c) \/ Returns(c) \/ Throws(c) \/ TrackingThrows(c)
    <2>1. calls' \in [Calls -> [pc : CallState, version : Versions]]
      BY <1>4, MovesType DEF Skipped, Returns, Throws, TrackingThrows, CallState
    <2> QED
      BY <1>4, <2>1, OnlyCallsMove DEF Skipped, Returns, Throws, TrackingThrows
  <1> QED
    BY <1>1, <1>2, <1>3, <1>4 DEF CallSteps

LEMMA BreakerNextKeeps ==
    ASSUME BreakerInv, BreakerNext
    PROVE  BreakerInv'
  <1>1. calls \in [Calls -> [pc : CallState, version : Versions]]
    BY DEF BreakerInv, BreakerTypeOK
  <1>2. ASSUME NEW v \in Versions, Initialize(v) PROVE BreakerInv'
    BY <1>1, <1>2, CircuitOf, FreshIsSound, CircuitReplacedOnly DEF Initialize
  <1>3. ASSUME NEW v \in Versions, RetryTimePasses(v) PROVE BreakerInv'
    <2> DEFINE k == [circuit[v] EXCEPT !.retry = "due"]
    <2>1. k \in Circuit /\ Sound(k) /\ Earned(k, streak[v])
      BY <1>3, CircuitOf DEF RetryTimePasses, Circuit, Sound, Earned
    <2>2. circuit' = [circuit EXCEPT ![v] = k] /\ streak' = streak /\ calls' = calls
      BY <1>3 DEF RetryTimePasses
    <2> HIDE DEF k
    <2> QED
      BY <1>1, <2>1, <2>2, CircuitReplacedOnly
  <1>4. ASSUME NEW v \in Versions, LastFailureAges(v) PROVE BreakerInv'
    <2> DEFINE k == [circuit[v] EXCEPT !.lastFailure = "old"]
    <2>1. k \in Circuit /\ Sound(k) /\ Earned(k, streak[v])
      BY <1>4, CircuitOf DEF LastFailureAges, Circuit, Sound, Earned
    <2>2. circuit' = [circuit EXCEPT ![v] = k] /\ streak' = streak /\ calls' = calls
      BY <1>4 DEF LastFailureAges
    <2> HIDE DEF k
    <2> QED
      BY <1>1, <2>1, <2>2, CircuitReplacedOnly
  <1> QED
    BY <1>2, <1>3, <1>4, CallStepsKeep DEF BreakerNext

\* The operators: forceOpen(), reset() and deleteWorker().
LEMMA ForcedKeeps ==
    ASSUME BreakerInv, NEW v \in Versions, ForceOpen(v) \/ ResetCircuit(v),
           UNCHANGED <<calls, streak>>
    PROVE  BreakerInv'
  <1>1. calls' \in [Calls -> [pc : CallState, version : Versions]]
    BY DEF BreakerInv, BreakerTypeOK
  <1> QED
    BY <1>1, CircuitOf, OperatorsAreSound, CircuitReplacedOnly DEF ForceOpen, ResetCircuit

LEMMA DeletedKeeps ==
    ASSUME BreakerInv, DeleteCircuits, UNCHANGED calls
    PROVE  BreakerInv'
  <1>1. 0 \in Count
    BY BreakerAssumption DEF Count
  <1> QED
    BY <1>1, FreshIsSound DEF DeleteCircuits, BreakerInv, BreakerTypeOK, Sound, Earned

-----------------------------------------------------------------------------
(* Steps of the rollout *)

LEMMA RaisedStaysWithin ==
    ASSUME NEW t \in 0..Target
    PROVE  Raised(t) \in 0..Target /\ Raised(t) >= t
  BY CanaryAssumption DEF Raised

\* What the updates of a deployment leave.
LEMMA NewStage ==
    ASSUME NEW d \in Deployment, NEW s \in Stage
    PROVE  [d EXCEPT !.stage = s] \in Deployment /\ [d EXCEPT !.stage = s].stage = s
  BY DEF Deployment

LEMMA NewTraffic ==
    ASSUME NEW d \in Deployment, NEW s \in Stage, NEW t \in 0..Target
    PROVE  /\ [d EXCEPT !.traffic = t, !.stage = s] \in Deployment
           /\ [d EXCEPT !.traffic = t, !.stage = s].stage = s
  BY DEF Deployment

LEMMA FailedType ==
    ASSUME NEW d \in Deployment, NEW e, e = [d EXCEPT !.stage = "failed", !.traffic = 0]
    PROVE  e \in Deployment /\ e.stage = "failed"
  <1>1. \A s \in Stage, t \in 0..Target :
           /\ [d EXCEPT !.stage = s, !.traffic = t] \in Deployment
           /\ [d EXCEPT !.stage = s, !.traffic = t].stage = s
    BY DEF Deployment
  <1>2. "failed" \in Stage /\ 0 \in 0..Target
    BY CanaryAssumption DEF Stage
  <1> QED
    BY <1>1, <1>2, Zenon

LEMMA NewMetrics ==
    ASSUME NEW d \in Deployment, NEW h \in BOOLEAN
    PROVE  /\ [d EXCEPT !.healthy = h] \in Deployment
           /\ [d EXCEPT !.healthy = h].stage = d.stage
           /\ [d EXCEPT !.healthy = h].traffic = d.traffic
  BY DEF Deployment

LEMMA NoDeploymentType == NoDeployment \in Deployment /\ NoDeployment.stage = "none"
  BY CanaryAssumption DEF NoDeployment, Deployment, Stage

LEMMA StartedType ==
    ASSUME NEW auto \in BOOLEAN, NEW d,
           d = [NoDeployment EXCEPT !.stage = "ramping", !.traffic = Initial, !.auto = auto]
    PROVE  d \in Deployment /\ d.stage = "ramping"
  <1>1. Initial \in 0..Target /\ "ramping" \in Stage
    BY CanaryAssumption DEF Stage
  <1> QED
    BY <1>1, NoDeploymentType DEF Deployment

LEMMA RollsBackKeeps ==
    ASSUME IInv, RollsBack, ops' \in Nat
    PROVE  IInv'
  <1>1. BreakerInv'
    BY CanaryAssumption, ForcedKeeps DEF RollsBack, IInv
  <1>2. /\ deployment' \in Deployment
        /\ deployment'.stage = "failed"
    <2>1. deployment \in Deployment
      BY DEF IInv, CanaryInv
    <2> QED
      BY <2>1, FailedType DEF RollsBack
  <1> QED
    BY <1>1, <1>2 DEF RollsBack, IInv, CanaryInv, NeverStranded

LEMMA RaiseTrafficKeeps ==
    ASSUME IInv, RaiseTraffic, Deployed, UNCHANGED ops
    PROVE  IInv'
  <1>1. BreakerInv'
    BY DEF RaiseTraffic, IInv, BreakerInv, BreakerTypeOK, breakerVars, Sound, Earned
  <1> DEFINE t == Raised(deployment.traffic)
  <1>2. t \in 0..Target
    BY RaisedStaysWithin DEF IInv, CanaryInv, Deployment
  <1>3. /\ deployment' \in Deployment
        /\ t >= Target => deployment'.stage = "monitoring"
        /\ ~(t >= Target) => deployment'.stage = deployment.stage
    BY <1>2 DEF RaiseTraffic, IInv, CanaryInv, Deployment, Stage
  <1>4. rampTimer' = (t < Target) /\ doneTimer' = (doneTimer \/ t >= Target)
    BY DEF RaiseTraffic
  <1>5. t < Target \/ t >= Target
    BY <1>2, CanaryAssumption
  <1> HIDE DEF t
  <1>6. NeverStranded'
    BY <1>2, <1>3, <1>4, <1>5, CanaryAssumption DEF NeverStranded, IInv, CanaryInv
  <1> QED
    BY <1>1, <1>3, <1>4, <1>6 DEF RaiseTraffic, IInv, CanaryInv

\* start(), pause(), resume(), complete(), remove() and updateMetrics().
LEMMA CanaryStepKeeps ==
    ASSUME CanaryInv, ops' \in Nat, UNCHANGED <<breakerVars, experiment>>,
           \/ \E auto \in BOOLEAN : StartCanary(auto)
           \/ Pause \/ Resume \/ Completes \/ Remove \/ UpdateMetrics
    PROVE  CanaryInv'
  <1> USE DEF CanaryInv
  <1>1. ASSUME NEW auto \in BOOLEAN, StartCanary(auto) PROVE CanaryInv'
    <2>1. deployment' \in Deployment /\ deployment'.stage = "ramping"
      BY <1>1, StartedType DEF StartCanary
    <2> QED
      BY <1>1, <2>1 DEF StartCanary, NeverStranded
  <1>2. CASE Pause
    BY <1>2 DEF Pause, NeverStranded
  <1>3. CASE Resume
    BY <1>3 DEF Resume, NeverStranded
  <1>4. CASE Completes
    <2>1. "completed" \in Stage
      BY DEF Stage
    <2>2. deployment' \in Deployment /\ deployment'.stage = "completed"
      BY <1>4, <2>1, NewStage DEF Completes
    <2> QED
      BY <1>4, <2>2 DEF Completes, NeverStranded
  <1>5. CASE Remove
    BY <1>5, NoDeploymentType DEF Remove, NeverStranded
  <1>6. CASE UpdateMetrics
    <2>1. PICK h \in BOOLEAN : deployment' = [deployment EXCEPT !.healthy = h]
      BY <1>6 DEF UpdateMetrics
    <2>2. deployment' \in Deployment /\ deployment'.stage = deployment.stage
      BY <2>1, NewMetrics
    <2> QED
      BY <1>6, <2>2 DEF UpdateMetrics, NeverStranded
  <1> QED
    BY <1>1, <1>2, <1>3, <1>4, <1>5, <1>6

LEMMA BreakerUntouched ==
    ASSUME BreakerInv, UNCHANGED breakerVars
    PROVE  BreakerInv'
  BY DEF BreakerInv, BreakerTypeOK, breakerVars, Sound, Earned

\* Steps that leave the rollout alone.
LEMMA CanaryUntouched ==
    ASSUME IInv, BreakerInv', UNCHANGED canaryVars, experiment' \in BOOLEAN, ops' \in Nat
    PROVE  IInv'
  BY DEF IInv, CanaryInv, NeverStranded, canaryVars

LEMMA InitHolds == Init => IInv
  <1> SUFFICES ASSUME Init PROVE IInv
    OBVIOUS
  <1>1. 0 \in Count
    BY BreakerAssumption DEF Count
  <1>2. Canary \in Versions
    BY CanaryAssumption
  <1>3. (CHOOSE v \in Versions : TRUE) \in Versions
    BY <1>2
  <1>4. BreakerInv
    BY <1>1, <1>3, FreshIsSound
       DEF Init, BreakerInit, BreakerInv, BreakerTypeOK, CallState
  <1>5. NoDeployment \in Deployment /\ NoDeployment.stage = "none"
    BY NoDeploymentType
  <1> QED
    BY <1>4, <1>5 DEF Init, IInv, CanaryInv, NeverStranded

LEMMA OperatorStepKeeps ==
    ASSUME IInv, OperatorStep
    PROVE  IInv'
  <1>0. BreakerInv /\ CanaryInv
    BY DEF IInv
  <1>1. ops \in Nat /\ (Operates => ops' \in Nat)
    BY DEF IInv, CanaryInv, Operates
  <1>2. ASSUME NEW auto \in BOOLEAN, StartCanary(auto) PROVE IInv'
    BY <1>0, <1>1, <1>2, CanaryStepKeeps, BreakerUntouched DEF StartCanary, IInv
  <1>3. CASE Pause \/ Resume
    BY <1>0, <1>1, <1>3, CanaryStepKeeps, BreakerUntouched DEF Pause, Resume, IInv
  <1>4. CASE Rollback
    BY <1>1, <1>4, RollsBackKeeps DEF Rollback
  <1>5. CASE Complete
    BY <1>0, <1>1, <1>5, CanaryStepKeeps, BreakerUntouched DEF Complete, Completes, IInv
  <1>6. CASE Remove \/ UpdateMetrics
    BY <1>0, <1>1, <1>6, CanaryStepKeeps, BreakerUntouched DEF Remove, UpdateMetrics, IInv
  <1>7. CASE RemoveWorker
    <2>1. BreakerInv'
      BY <1>7, DeletedKeeps DEF RemoveWorker, IInv
    <2> QED
      BY <1>1, <1>7, <2>1, NoDeploymentType DEF RemoveWorker, IInv, CanaryInv, NeverStranded
  <1>8. ASSUME NEW v \in Versions, Manual(v) PROVE IInv'
    <2>1. BreakerInv'
      BY <1>8, ForcedKeeps DEF Manual, IInv
    <2> QED
      BY <1>1, <1>8, <2>1, CanaryUntouched DEF Manual, IInv, CanaryInv
  <1>9. CASE ExperimentStarts
    <2>1. BreakerInv'
      BY <1>9, CanaryAssumption, ForcedKeeps DEF ExperimentStarts, IInv
    <2> QED
      BY <1>1, <1>9, <2>1, CanaryUntouched DEF ExperimentStarts
  <1>10. CASE ExperimentStops
    <2>1. CASE ResetCircuit(Canary)
      <3>1. BreakerInv'
        BY <1>10, <2>1, CanaryAssumption, ForcedKeeps DEF ExperimentStops, IInv
      <3> QED
        BY <1>1, <1>10, <3>1, CanaryUntouched DEF ExperimentStops
    <2>2. CASE UNCHANGED circuit
      <3>1. BreakerInv'
        BY <1>10, <2>2
           DEF ExperimentStops, IInv, BreakerInv, BreakerTypeOK, Sound, Earned
      <3> QED
        BY <1>1, <1>10, <3>1, CanaryUntouched DEF ExperimentStops
    <2> QED
      BY <1>10, <2>1, <2>2 DEF ExperimentStops
  <1> QED
    BY <1>2, <1>3, <1>4, <1>5, <1>6, <1>7, <1>8, <1>9, <1>10 DEF OperatorStep

LEMMA NextKeeps == IInv /\ [Next]_vars => IInv'
  <1> SUFFICES ASSUME IInv, [Next]_vars PROVE IInv'
    OBVIOUS
  <1>0. ops \in Nat /\ experiment \in BOOLEAN
    BY DEF IInv, CanaryInv
  <1>1. CASE BreakerStep
    <2>1. BreakerInv'
      BY <1>1, BreakerNextKeeps DEF BreakerStep, IInv
    <2> QED
      BY <1>0, <1>1, <2>1, CanaryUntouched DEF BreakerStep
  <1>2. CASE OperatorStep
    BY <1>2, OperatorStepKeeps
  <1>3. CASE RampTimerFires
    <2>1. CASE ~Deployed /\ rampTimer' = FALSE
                 /\ UNCHANGED <<breakerVars, deployment, doneTimer, paused, experiment>>
      <3>1. BreakerInv'
        BY <2>1 DEF IInv, BreakerInv, BreakerTypeOK, breakerVars, Sound, Earned
      <3> QED
        BY <1>3, <2>1, <3>1 DEF RampTimerFires, IInv, CanaryInv, NeverStranded, Deployed
    <2>2. CASE RollsBack
      BY <1>0, <1>3, <2>2, RollsBackKeeps DEF RampTimerFires
    <2>3. CASE Deployed /\ RaiseTraffic
      BY <1>3, <2>3, RaiseTrafficKeeps DEF RampTimerFires
    <2> QED
      BY <1>3, <2>1, <2>2, <2>3 DEF RampTimerFires
  <1>4. CASE DoneTimerFires
    <2>1. CASE Completes
      BY <1>0, <1>4, <2>1, CanaryStepKeeps, BreakerUntouched DEF DoneTimerFires, Completes, IInv
    <2>2. CASE ~Deployed /\ doneTimer' = FALSE
                 /\ UNCHANGED <<breakerVars, deployment, rampTimer, paused, experiment>>
      <3>1. BreakerInv'
        BY <2>2 DEF IInv, BreakerInv, BreakerTypeOK, breakerVars, Sound, Earned
      <3> QED
        BY <1>4, <2>2, <3>1 DEF DoneTimerFires, IInv, CanaryInv, NeverStranded, Deployed
    <2> QED
      BY <1>4, <2>1, <2>2 DEF DoneTimerFires
  <1>5. CASE UNCHANGED vars
    <2>1. BreakerInv'
      BY <1>5 DEF vars, IInv, BreakerInv, BreakerTypeOK, breakerVars, Sound, Earned
    <2> QED
      BY <1>0, <1>5, <2>1, CanaryUntouched DEF vars
  <1> QED
    BY <1>1, <1>2, <1>3, <1>4, <1>5 DEF Next

LEMMA Invariance == Spec => []IInv
  BY InitHolds, NextKeeps, PTL DEF Spec

-----------------------------------------------------------------------------
(* Theorems *)

\* Circuits, jobs, rollout and timers keep their types; in particular the share
\* of traffic never exceeds the target.
THEOREM TypeCorrect == Spec => []TypeOK
  <1>1. IInv => TypeOK
    BY DEF IInv, BreakerInv, CanaryInv, TypeOK
  <1> QED
    BY <1>1, Invariance, PTL

\* No circuit counts more failures than requests.
THEOREM ErrorRateIsARate == Spec => []FailuresWithinTotal
  <1>1. IInv => FailuresWithinTotal
    BY DEF IInv, BreakerInv, FailuresWithinTotal, Sound
  <1> QED
    BY <1>1, Invariance, PTL

\* An open circuit, and only an open one, has a time to retry.
THEOREM NoCircuitStaysShut == Spec => []OpenWillRetry
  <1>1. IInv => OpenWillRetry
    BY DEF IInv, BreakerInv, OpenWillRetry, Sound
  <1> QED
    BY <1>1, Invariance, PTL

\* No rollout waits for a timer that is not armed.
THEOREM RolloutNeverStranded == Spec => []NeverStranded
  <1>1. IInv => NeverStranded
    BY DEF IInv, CanaryInv
  <1> QED
    BY <1>1, Invariance, PTL

\* While jobs go to the canary version their share never drops.
THEOREM ShareOnlyRises == Spec => TrafficOnlyRises
  <1> DEFINE A == Routed => deployment'.traffic >= deployment.traffic \/ ~Routed'
  <1>1. IInv /\ [Next]_vars => [A]_vars
    <2> SUFFICES ASSUME IInv, Next, Routed PROVE A
      OBVIOUS
    <2>1. deployment \in Deployment /\ deployment.traffic \in Nat
      BY CanaryAssumption DEF IInv, CanaryInv, Deployment
    <2>2. deployment' = deployment => A
      BY <2>1
    <2>3. CASE BreakerStep
      BY <2>2, <2>3 DEF BreakerStep, canaryVars
    <2>4. CASE RollsBack
      BY <2>1, <2>4 DEF RollsBack, Routed, Deployment
    <2>5. CASE Completes
      BY <2>1, <2>5 DEF Completes, Routed, Deployment
    <2>6. CASE RaiseTraffic
      <3>1. deployment'.traffic = Raised(deployment.traffic)
        BY <2>1, <2>6 DEF RaiseTraffic, Deployment
      <3>2. Raised(deployment.traffic) >= deployment.traffic
        BY <2>1, RaisedStaysWithin DEF Deployment
      <3> QED
        BY <3>1, <3>2
    <2>7. CASE OperatorStep
      <3>1. ASSUME NEW auto \in BOOLEAN, StartCanary(auto) PROVE A
        BY <3>1 DEF StartCanary, Deployed, Routed
      <3>2. CASE Pause \/ Resume \/ UpdateMetrics
        <4>1. deployment'.traffic = deployment.traffic
          BY <2>1, <3>2 DEF Pause, Resume, UpdateMetrics, Deployment
        <4> QED
          BY <2>1, <4>1
      <3>3. CASE Remove \/ RemoveWorker
        BY <3>3 DEF Remove, RemoveWorker, NoDeployment, Routed
      <3>4. ASSUME NEW v \in Versions, Manual(v) PROVE A
        BY <2>2, <3>4 DEF Manual, canaryVars
      <3>5. CASE ExperimentStarts \/ ExperimentStops
        BY <2>2, <3>5 DEF ExperimentStarts, ExperimentStops, canaryVars
      <3> QED
        BY <2>4, <2>5, <2>7, <3>1, <3>2, <3>3, <3>4, <3>5
           DEF OperatorStep, Rollback, Complete
    <2>8. CASE RampTimerFires
      BY <2>2, <2>4, <2>6, <2>8 DEF RampTimerFires
    <2>9. CASE DoneTimerFires
      BY <2>2, <2>5, <2>9 DEF DoneTimerFires
    <2> QED
      BY <2>3, <2>7, <2>8, <2>9 DEF Next
  <1> QED
    BY <1>1, Invariance, PTL DEF Spec, TrafficOnlyRises

\* A step of a job closes a circuit only on a streak of successes.
LEMMA CallClosesOnStreak ==
    ASSUME BreakerInv, NEW c \in Calls, CallSteps(c), NEW v \in Versions,
           circuit[v].state = "half-open", circuit'[v].state = "closed"
    PROVE  streak'[v] >= SuccessThreshold
  <1>1. circuit[v] \in Circuit /\ Sound(circuit[v]) /\ streak[v] \in Count
        /\ Earned(circuit[v], streak[v])
    BY CircuitOf
  <1>2. \A w \in Versions : \A k : circuit' = [circuit EXCEPT ![w] = k] =>
          /\ w = v => circuit'[v] = k
          /\ w # v => circuit'[v] = circuit[v]
    BY DEF BreakerInv, BreakerTypeOK
  <1>3. circuit'[v] # circuit[v]
    OBVIOUS
  <1>4. CASE Succeeds(c)
    <2>1. calls[c].version = v /\ circuit'[v] = AfterSuccess(circuit[v])
      BY <1>2, <1>3, <1>4 DEF Succeeds, BreakerInv, BreakerTypeOK
    <2>2. streak'[v] = Plus1(streak[v])
      BY <1>4, <2>1 DEF Succeeds, Exists, BreakerInv, BreakerTypeOK
    <2> QED
      BY <1>1, <2>1, <2>2, SuccessIsSound
  <1>5. CASE ReportsFailure(c)
    <2>1. circuit'[v] = AfterFailure(circuit[v])
      BY <1>2, <1>3, <1>5 DEF ReportsFailure, BreakerInv, BreakerTypeOK
    <2> QED
      BY <1>1, <2>1, FailureIsSound
  <1>6. ASSUME NEW w \in Versions, Execute(c, w) PROVE FALSE
    <2>1. circuit'[v] = Admitted(circuit[v])
      BY <1>2, <1>3, <1>6 DEF Execute
    <2> QED
      BY <1>3, <2>1 DEF Admitted
  <1>7. CASE Skipped(c) \/ Returns(c) \/ Throws(c) \/ TrackingThrows(c)
    BY <1>3, <1>7 DEF Skipped, Returns, Throws, TrackingThrows
  <1> QED
    BY <1>4, <1>5, <1>6, <1>7 DEF CallSteps

\* A half-open circuit is closed by jobs only after SuccessThreshold successes in
\* a row, whenever those jobs were admitted.
THEOREM ClosedOnStreak == Spec => ClosesOnStreak
  <1> DEFINE A == \A v \in Versions :
                     /\ circuit[v].state = "half-open"
                     /\ circuit'[v].state = "closed"
                     /\ calls' # calls
                     => streak'[v] >= SuccessThreshold
  <1>1. IInv /\ [Next]_vars => [A]_breakerVars
    <2> SUFFICES ASSUME IInv, Next, NEW v \in Versions, calls' # calls,
                        circuit[v].state = "half-open", circuit'[v].state = "closed"
                 PROVE  streak'[v] >= SuccessThreshold
      BY DEF vars
    <2>1. CASE BreakerStep
      <3>1. ~(\E w \in Versions :
                Initialize(w) \/ RetryTimePasses(w) \/ LastFailureAges(w))
        BY DEF Initialize, RetryTimePasses, LastFailureAges
      <3> QED
        BY <2>1, <3>1, CallClosesOnStreak DEF BreakerStep, BreakerNext, IInv
    <2>2. ~OperatorStep
      <3>1. \A auto : ~StartCanary(auto)
        BY DEF StartCanary, breakerVars
      <3>2. \A w : ~Manual(w)
        BY DEF Manual
      <3>3. ~Pause /\ ~Resume /\ ~Remove /\ ~UpdateMetrics
        BY DEF Pause, Resume, Remove, UpdateMetrics, breakerVars
      <3>4. ~Rollback /\ ~Complete /\ ~RemoveWorker
        BY DEF Rollback, RollsBack, Complete, Completes, RemoveWorker, breakerVars
      <3>5. ~ExperimentStarts /\ ~ExperimentStops
        BY DEF ExperimentStarts, ExperimentStops
      <3> QED
        BY <3>1, <3>2, <3>3, <3>4, <3>5 DEF OperatorStep
    <2>3. ~RampTimerFires /\ ~DoneTimerFires
      BY DEF RampTimerFires, DoneTimerFires, RollsBack, RaiseTraffic, Completes, breakerVars
    <2> QED
      BY <2>1, <2>2, <2>3 DEF Next
  <1> QED
    BY <1>1, Invariance, PTL DEF Spec, ClosesOnStreak
=============================================================================
