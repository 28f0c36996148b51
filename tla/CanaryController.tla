-------------------------- MODULE CanaryController --------------------------
(* The canary deployment of one worker, CanaryController.ts, over the circuit *)
(* of its versions: ramping on timers, automatic and manual rollback, which   *)
(* forces the canary's circuit open, and a chaos experiment that does too.    *)
(* Timer callbacks and calls are synchronous, so each is one step.            *)
EXTENDS CircuitBreaker

CONSTANTS
    Canary,       \* config.canaryVersion
    Initial,      \* config.initialTrafficPercent
    Target,       \* config.targetTrafficPercent
    Increment,    \* config.incrementPercent
    MaxOps        \* bound on the calls of operators

ASSUME CanaryAssumption ==
    /\ Canary \in Versions
    /\ Initial \in Nat
    /\ Target \in Nat
    /\ Initial <= Target
    /\ Increment \in Nat \ {0}
    /\ MaxOps \in Nat

VARIABLES
    deployment,   \* the entry of canaryDeployments
    rampTimer,    \* the timer under the worker's name is armed
    doneTimer,    \* the timer under "name:complete" is armed
    paused,       \* ghost: pause() was called, and resume() was not
    experiment,   \* a chaos experiment that injects errors is running
    ops           \* calls of operators so far

canaryVars == <<deployment, rampTimer, doneTimer, paused>>
vars == <<breakerVars, canaryVars, experiment, ops>>

Stage == {"none", "ramping", "monitoring", "completed", "failed"}

\* healthy: what shouldRollback() makes of the last metrics; auto: autoRollback
Deployment ==
    [stage : Stage, traffic : 0..Target, auto : BOOLEAN, healthy : BOOLEAN]

NoDeployment ==
    [stage |-> "none", traffic |-> 0, auto |-> FALSE, healthy |-> TRUE]

Deployed == deployment.stage # "none"

Operates == ops < MaxOps /\ ops' = ops + 1

Init ==
    /\ BreakerInit
    /\ deployment = NoDeployment
    /\ rampTimer = FALSE
    /\ doneTimer = FALSE
    /\ paused = FALSE
    /\ experiment = FALSE
    /\ ops = 0

-----------------------------------------------------------------------------
(* Operations *)

\* start(): refused while there is an entry.  The timer of an earlier deployment
\* is cleared, its completion timer is not.
StartCanary(auto) ==
    /\ Operates
    /\ ~Deployed
    /\ deployment' = [NoDeployment EXCEPT !.stage = "ramping", !.traffic = Initial,
                                          !.auto = auto]
    /\ rampTimer' = TRUE
    /\ paused' = FALSE
    /\ UNCHANGED <<breakerVars, doneTimer, experiment>>

Pause ==
    /\ Operates
    /\ Deployed
    /\ paused' = TRUE
    /\ rampTimer' = FALSE
    /\ UNCHANGED <<breakerVars, deployment, doneTimer, experiment>>

\* Seeded fault: resuming starts the ramp again
ResumeAfresh ==
    /\ Operates
    /\ Deployed
    /\ deployment' = [deployment EXCEPT !.traffic = Increment]
    /\ paused' = FALSE
    /\ rampTimer' = TRUE
    /\ UNCHANGED <<breakerVars, doneTimer, experiment>>

\* resume(), in whatever stage
Resume ==
    /\ Operates
    /\ Deployed
    /\ paused' = FALSE
    /\ rampTimer' = TRUE
    /\ UNCHANGED <<breakerVars, deployment, doneTimer, experiment>>

\* rollback(): the completion timer stays armed
RollsBack ==
    /\ deployment' = [deployment EXCEPT !.stage = "failed", !.traffic = 0]
    /\ rampTimer' = FALSE
    /\ ForceOpen(Canary)
    /\ UNCHANGED <<calls, streak, doneTimer, paused, experiment>>

Rollback == Operates /\ Deployed /\ RollsBack

\* complete(), in whatever stage
Completes ==
    /\ Deployed
    /\ deployment' = [deployment EXCEPT !.stage = "completed"]
    /\ rampTimer' = FALSE
    /\ doneTimer' = FALSE
    /\ UNCHANGED <<breakerVars, paused, experiment>>

Complete == Operates /\ Completes

\* remove(): only a finished deployment; no timer is cleared
Remove ==
    /\ deployment.stage \in {"completed", "failed"}
    /\ deployment' = NoDeployment
    /\ paused' = FALSE
    /\ UNCHANGED <<breakerVars, rampTimer, doneTimer, experiment, ops>>

\* updateMetrics() of the canary version; only autoRollback looks at them
UpdateMetrics ==
    /\ Deployed
    /\ deployment.auto
    /\ \E h \in BOOLEAN : deployment' = [deployment EXCEPT !.healthy = h]
    /\ UNCHANGED <<breakerVars, rampTimer, doneTimer, paused, experiment, ops>>

\* WorkerFactory.remove() and shutdown(): deleteWorker() and purge()
RemoveWorker ==
    /\ Operates
    /\ DeleteCircuits
    /\ deployment' = NoDeployment
    /\ rampTimer' = FALSE
    /\ doneTimer' = FALSE
    /\ paused' = FALSE
    /\ UNCHANGED <<calls, experiment>>

\* routeJob() can choose the canary version
Routed == deployment.stage \in {"ramping", "monitoring"} /\ deployment.traffic > 0

-----------------------------------------------------------------------------
(* Timers *)

\* Seeded fault: a step that would reach the target is not taken
RaisedBelow(t) == IF t + Increment < Target THEN t + Increment ELSE t

Raised(t) == IF t + Increment < Target THEN t + Increment ELSE Target

\* Seeded fault: at the target no completion timer is armed
RaiseTrafficOnly ==
    /\ deployment' = [deployment EXCEPT
          !.traffic = Raised(@),
          !.stage = IF Raised(deployment.traffic) >= Target THEN "monitoring" ELSE @]
    /\ rampTimer' = (Raised(deployment.traffic) < Target)
    /\ UNCHANGED <<breakerVars, doneTimer, paused, experiment>>

\* the next step up: at the target the stage is monitoring and the completion
\* timer is armed, below it the next increment is
RaiseTraffic ==
    /\ deployment' = [deployment EXCEPT
          !.traffic = Raised(@),
          !.stage = IF Raised(deployment.traffic) >= Target THEN "monitoring" ELSE @]
    /\ rampTimer' = (Raised(deployment.traffic) < Target)
    /\ doneTimer' = (doneTimer \/ Raised(deployment.traffic) >= Target)
    /\ UNCHANGED <<breakerVars, paused, experiment>>

\* incrementTraffic() in the callback of the timer; without a deployment it only
\* logs, and the callback forgets its timer
RampTimerFires ==
    /\ rampTimer
    /\ \/ ~Deployed /\ rampTimer' = FALSE
                    /\ UNCHANGED <<breakerVars, deployment, doneTimer, paused, experiment>>
       \/ Deployed /\ deployment.auto /\ ~deployment.healthy /\ RollsBack
       \/ Deployed /\ ~(deployment.auto /\ ~deployment.healthy) /\ RaiseTraffic
    /\ UNCHANGED ops

\* complete() in the callback of the completion timer, whoever armed it; it
\* throws when there is no deployment, and the callback forgets its timer
DoneTimerFires ==
    /\ doneTimer
    /\ \/ Completes
       \/ ~Deployed /\ doneTimer' = FALSE
                    /\ UNCHANGED <<breakerVars, deployment, rampTimer, paused, experiment>>
    /\ UNCHANGED ops

-----------------------------------------------------------------------------
(* Circuit operators and chaos experiments *)

Manual(v) ==
    /\ Operates
    /\ ForceOpen(v) \/ ResetCircuit(v)
    /\ UNCHANGED <<calls, streak, canaryVars, experiment>>

\* startExperiment() with failure type "error"
ExperimentStarts ==
    /\ Operates
    /\ ~experiment
    /\ experiment' = TRUE
    /\ ForceOpen(Canary)
    /\ UNCHANGED <<calls, streak, canaryVars>>

\* stopExperiment(), by its timer: with safetyLimits.circuitBreaker it resets
\* the circuit, whoever opened it since
ExperimentStops ==
    /\ experiment
    /\ experiment' = FALSE
    /\ ResetCircuit(Canary) \/ UNCHANGED circuit
    /\ UNCHANGED <<calls, streak, canaryVars, ops>>

-----------------------------------------------------------------------------
BreakerStep == BreakerNext /\ UNCHANGED <<canaryVars, experiment, ops>>

OperatorStep ==
    \/ \E auto \in BOOLEAN : StartCanary(auto)
    \/ Pause \/ Resume \/ Rollback \/ Complete \/ Remove \/ RemoveWorker
    \/ UpdateMetrics
    \/ \E v \in Versions : Manual(v)
    \/ ExperimentStarts \/ ExperimentStops

Next == BreakerStep \/ OperatorStep \/ RampTimerFires \/ DoneTimerFires

Spec == Init /\ [][Next]_vars

\* Timers fire, retry times pass, processors settle, and jobs keep coming; no
\* operator is obliged to anything.
Fairness ==
    /\ WF_vars(RampTimerFires)
    /\ WF_vars(DoneTimerFires)
    /\ \A v \in Versions :
          /\ WF_vars(RetryTimePasses(v) /\ UNCHANGED <<canaryVars, experiment, ops>>)
          /\ WF_vars(\E c \in Calls : Execute(c, v) /\ UNCHANGED <<canaryVars, experiment, ops>>)
    /\ \A c \in Calls :
          WF_vars(/\ Skipped(c) \/ Succeeds(c) \/ Returns(c) \/ ReportsFailure(c)
                  /\ UNCHANGED <<canaryVars, experiment, ops>>)

FairSpec == Spec /\ Fairness

-----------------------------------------------------------------------------
(* Properties *)

\* The types of all variables.
TypeOK ==
    /\ BreakerTypeOK
    /\ deployment \in Deployment
    /\ rampTimer \in BOOLEAN
    /\ doneTimer \in BOOLEAN
    /\ paused \in BOOLEAN
    /\ experiment \in BOOLEAN
    /\ ops \in Nat

\* A rollout is never stranded: a ramping deployment that is not paused has its
\* next increment armed and a monitored one its completion, through every
\* pause, resume, removal, restart and stale timer of an earlier deployment.
NeverStranded ==
    /\ deployment.stage = "ramping" /\ ~paused => rampTimer
    /\ deployment.stage = "monitoring" => doneTimer

\* While jobs are routed to the canary version its share of them never drops:
\* it is taken away as a whole, by the end of the rollout or its removal.
TrafficOnlyRises ==
    [][Routed => deployment'.traffic >= deployment.traffic \/ ~Routed']_vars

\* Every rollout that is not paused ends: completed, rolled back or removed.
RolloutEnds ==
    deployment.stage \in {"ramping", "monitoring"} /\ ~paused
        ~> \/ deployment.stage \notin {"ramping", "monitoring"}
           \/ paused

\* "Complete or abort deployment": one that was rolled back is not completed nor
\* monitored afterwards, it can only be removed.
RollbackIsFinal ==
    [][deployment.stage = "failed" => deployment'.stage \in {"failed", "none"}]_vars
=============================================================================
