--------------------------- MODULE CircuitBreaker ---------------------------
(* The circuit breaker of packages/workers/src/CircuitBreaker.ts, one circuit *)
(* per worker version, and the jobs that ask it for admission and report to   *)
(* it: createEnhancedProcessor() of WorkerFactory.ts.  A job that was         *)
(* admitted before a transition reports after it.                             *)
EXTENDS Naturals

CONSTANTS
    Versions,          \* circuit keys: a worker and a version
    Calls,             \* executions that can be in flight
    FailureThreshold,  \* failures that open a closed circuit
    SuccessThreshold,  \* successes that close a half-open circuit
    VolumeThreshold,   \* requests before failures are looked at
    MaxCount           \* bound: the three counters saturate here

ASSUME BreakerAssumption ==
    /\ FailureThreshold \in Nat \ {0}
    /\ SuccessThreshold \in Nat \ {0}
    /\ VolumeThreshold \in Nat \ {0}
    /\ MaxCount \in Nat
    /\ MaxCount >= FailureThreshold
    /\ MaxCount >= SuccessThreshold
    /\ MaxCount >= VolumeThreshold

VARIABLES
    circuit,   \* the circuits map; "absent" has no entry
    calls,     \* where each execution is, and on which version
    streak     \* ghost: successes reported since the last failure

breakerVars == <<circuit, calls, streak>>

Count == 0..MaxCount

Circuit ==
    [state       : {"absent", "closed", "open", "half-open"},
     failures    : Count,
     successes   : Count,
     total       : Count,
     retry       : {"none", "waiting", "due"},  \* nextRetryTime: null, ahead, past
     lastFailure : {"none", "recent", "old"}]   \* within resetTimeout or not

\* idle; processing; success recorded, hooks and tracking to go; failed, to record
CallState == {"idle", "running", "counted", "failing"}

Plus1(n) == IF n < MaxCount THEN n + 1 ELSE n

Fresh ==
    [state |-> "closed", failures |-> 0, successes |-> 0, total |-> 0,
     retry |-> "none", lastFailure |-> "none"]

Absent == [Fresh EXCEPT !.state = "absent"]

Exists(k) == k.state # "absent"

-----------------------------------------------------------------------------
(* Transitions of one circuit *)

Opened(k) == [k EXCEPT !.state = "open", !.retry = "waiting"]

Closed(k) ==
    [k EXCEPT !.state = "closed", !.failures = 0, !.successes = 0, !.retry = "none"]

\* Seeded fault: the successes of earlier states count towards closing
HalfOpenedKeeping(k) == [k EXCEPT !.state = "half-open", !.retry = "none"]

HalfOpened(k) ==
    [k EXCEPT !.state = "half-open", !.successes = 0, !.retry = "none"]

\* Seeded fault: an open circuit is never tried again
RejectsAll(k) == k.state = "open"

\* canExecute() says no
Rejects(k) == k.state = "open" /\ k.retry # "due"

\* the last failure is older than resetTimeout
ForgetFailures(k) == [k EXCEPT !.failures = 0, !.total = 0]

\* the circuit after canExecute() said yes
Admitted(k) ==
    CASE k.state = "absent"    -> Fresh
      [] k.state = "open"      -> HalfOpened(k)
      [] k.state = "half-open" -> k
      [] k.state = "closed"    ->
            IF k.lastFailure = "old" THEN ForgetFailures(k) ELSE k

CountSuccess(k) == [k EXCEPT !.successes = Plus1(@), !.total = Plus1(@)]

\* recordSuccess(): a circuit that does not exist is only created
AfterSuccess(k) ==
    LET n == CountSuccess(k) IN
    IF ~Exists(k) THEN Fresh
    ELSE IF k.state = "half-open" /\ n.successes >= SuccessThreshold THEN Closed(n)
    ELSE n

CountFailure(k) ==
    [k EXCEPT !.failures = Plus1(@), !.total = Plus1(@), !.lastFailure = "recent"]

TripsOn(n) ==
    \/ n.state = "half-open"
    \/ /\ n.state = "closed"
       /\ n.total >= VolumeThreshold
       /\ n.failures >= FailureThreshold

\* recordFailure()
AfterFailure(k) ==
    LET n == CountFailure(k) IN
    IF ~Exists(k) THEN Fresh ELSE IF TripsOn(n) THEN Opened(n) ELSE n

\* reset() by an operator: ignored when there is no circuit
ResetOf(k) == IF Exists(k) THEN [Closed(k) EXCEPT !.total = 0] ELSE k

\* forceOpen(): creates the circuit when there is none
ForcedOpen(k) == Opened(IF Exists(k) THEN k ELSE Fresh)

-----------------------------------------------------------------------------
(* Jobs *)

BreakerInit ==
    /\ circuit = [v \in Versions |-> Absent]
    /\ calls = [c \in Calls |-> [pc |-> "idle", version |-> CHOOSE v \in Versions : TRUE]]
    /\ streak = [v \in Versions |-> 0]

Moves(c, from, to) ==
    /\ calls[c].pc = from
    /\ calls' = [calls EXCEPT ![c].pc = to]

\* initialize(), when a worker with the breaker is created
Initialize(v) ==
    /\ ~Exists(circuit[v])
    /\ circuit' = [circuit EXCEPT ![v] = Fresh]
    /\ UNCHANGED <<calls, streak>>

\* a job starts if the circuit admits it; a rejected one leaves no trace here
Execute(c, v) ==
    /\ calls[c].pc = "idle"
    /\ ~Rejects(circuit[v])
    /\ circuit' = [circuit EXCEPT ![v] = Admitted(@)]
    /\ calls' = [calls EXCEPT ![c] = [pc |-> "running", version |-> v]]
    /\ UNCHANGED streak

\* a beforeProcess hook stops the job: it never reports
Skipped(c) ==
    /\ Moves(c, "running", "idle")
    /\ UNCHANGED <<circuit, streak>>

\* the processor returns: recordSuccess(), then hooks and trackJobCompleted()
Succeeds(c) ==
    LET v == calls[c].version IN
    /\ Moves(c, "running", "counted")
    /\ circuit' = [circuit EXCEPT ![v] = AfterSuccess(@)]
    /\ streak' = [streak EXCEPT ![v] = IF Exists(circuit[v]) THEN Plus1(@) ELSE 0]

Returns(c) ==
    /\ Moves(c, "counted", "idle")
    /\ UNCHANGED <<circuit, streak>>

\* the processor throws, or what follows a recorded success does
Throws(c) ==
    /\ Moves(c, "running", "failing") \/ Moves(c, "counted", "failing")
    /\ UNCHANGED <<circuit, streak>>

\* trackJobFailed() done: recordFailure(), and the job is over
ReportsFailure(c) ==
    LET v == calls[c].version IN
    /\ Moves(c, "failing", "idle")
    /\ circuit' = [circuit EXCEPT ![v] = AfterFailure(@)]
    /\ streak' = [streak EXCEPT ![v] = 0]

\* trackJobFailed() throws: the failure is never reported
TrackingThrows(c) ==
    /\ Moves(c, "failing", "idle")
    /\ UNCHANGED <<circuit, streak>>

-----------------------------------------------------------------------------
(* Time *)

RetryTimePasses(v) ==
    /\ circuit[v].retry = "waiting"
    /\ circuit' = [circuit EXCEPT ![v].retry = "due"]
    /\ UNCHANGED <<calls, streak>>

LastFailureAges(v) ==
    /\ circuit[v].lastFailure = "recent"
    /\ circuit' = [circuit EXCEPT ![v].lastFailure = "old"]
    /\ UNCHANGED <<calls, streak>>

-----------------------------------------------------------------------------
(* Operators *)

ForceOpen(v) == circuit' = [circuit EXCEPT ![v] = ForcedOpen(@)]

ResetCircuit(v) == circuit' = [circuit EXCEPT ![v] = ResetOf(@)]

\* deleteWorker(), shutdown()
DeleteCircuits ==
    /\ circuit' = [v \in Versions |-> Absent]
    /\ streak' = [v \in Versions |-> 0]

CallSteps(c) ==
    \/ \E v \in Versions : Execute(c, v)
    \/ Skipped(c) \/ Succeeds(c) \/ Returns(c)
    \/ Throws(c) \/ ReportsFailure(c) \/ TrackingThrows(c)

BreakerNext ==
    \/ \E c \in Calls : CallSteps(c)
    \/ \E v \in Versions : Initialize(v) \/ RetryTimePasses(v) \/ LastFailureAges(v)

-----------------------------------------------------------------------------
(* Properties *)

\* The types of the breaker's variables.
BreakerTypeOK ==
    /\ circuit \in [Versions -> Circuit]
    /\ calls \in [Calls -> [pc : CallState, version : Versions]]
    /\ streak \in [Versions -> Count]

\* errorRate is a rate: a circuit never counts more failures than requests,
\* although the two counters are reset by different transitions (closing keeps
\* totalRequests) and jobs report after the circuit was deleted or reset.
FailuresWithinTotal ==
    \A v \in Versions : circuit[v].failures <= circuit[v].total

\* An open circuit always has a time to retry: canExecute() never lets one
\* without nextRetryTime through, so it would reject for ever.
OpenWillRetry ==
    \A v \in Versions : circuit[v].state = "open" <=> circuit[v].retry # "none"

\* A job closes a circuit only as the last of SuccessThreshold successes with no
\* failure between them ("consecutive successes"), however late the jobs
\* admitted before the circuit opened report.
ClosesOnStreak ==
    [][\A v \in Versions :
          /\ circuit[v].state = "half-open"
          /\ circuit'[v].state = "closed"
          /\ calls' # calls
          => streak'[v] >= SuccessThreshold]_breakerVars

\* An open circuit is tried again while jobs keep coming for its version.
Recovers ==
    \A v \in Versions :
        circuit[v].state = "open" ~> circuit[v].state # "open"
=============================================================================
