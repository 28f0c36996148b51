----------------------------- MODULE QueueWorker -----------------------------
(***************************************************************************)
(* Job processing: the worker loop of packages/workers/src/                *)
(* createQueueWorker.ts over the queue facade src/tools/queue/Queue.ts, a   *)
(* driver, and the records JobStateTracker.ts keeps of the messages.       *)
(*                                                                         *)
(* driver = "memory" is src/tools/queue/drivers/InMemory.ts: dequeue       *)
(* removes the message, ack does nothing, every enqueue makes a new id.    *)
(* driver = "redis" is packages/queue-redis/src/BullMQRedisQueue.ts with   *)
(* BullMQ behind it as that file uses it: a dequeued message is hidden for *)
(* a while and comes back unless it is acked, and adding a job whose       *)
(* requested id exists succeeds without adding one.                        *)
(*                                                                         *)
(* A step is the code between two awaits that matter: dequeue, the settling *)
(* of the handler, an enqueue, an ack.  Times are abstract: a message that *)
(* is not due becomes due later, a hidden one comes back later.            *)
(***************************************************************************)
EXTENDS Naturals, Sequences, FiniteSets

CONSTANTS
    Jobs,            \* what producers enqueue
    Workers,         \* concurrent loops of the worker
    NoMessage,       \* what an idle worker holds
    Drivers,         \* the drivers a deployment may be configured with
    JobsOf,          \* JobsOf[d]: bound: the jobs produced with driver d
    MaxAttempts,     \* options.maxAttempts of the worker
    InitialAttempts, \* the attempts field of a producer's payload
    UniqueJobs,      \* jobs whose payload carries a uniqueId
    Reconciled,      \* drivers with which JobReconciliationRunner runs; it writes records only
    MaxEarly,        \* bound: deliveries of a job before it is due
    Faults,          \* which of "crash", "enqueue", "start" may fail
    MaxFaults        \* bound: faults

ASSUME WorkerAssumption ==
    /\ Drivers \subseteq {"memory", "redis"} /\ Reconciled \subseteq Drivers
    /\ JobsOf \in [Drivers -> SUBSET Jobs]
    /\ MaxAttempts \in Nat \ {0}
    /\ InitialAttempts \in Nat
    /\ UniqueJobs \subseteq Jobs
    /\ Faults \subseteq {"crash", "enqueue", "start"}
    /\ MaxEarly \in Nat /\ MaxFaults \in Nat

VARIABLES
    driver,   \* the driver configured (queueConfig.default): it never changes
    waiting,  \* the queue, oldest message first
    hidden,   \* messages dequeued from redis and not acked
    ids,      \* ids[j]: message ids made for a job so far
    pc, held, \* where a worker is, the message it holds
    tries,    \* tries[j]: processing attempts made
    accepted, \* history: jobs whose producer got them into the queue
    closed,   \* jobs with a delivery that succeeded or failed for good
    failed,   \* jobs with a delivery that failed for good
    parked,   \* messages recorded as pending_recovery, not in the queue
    tracker,  \* tracker[<<j, n>>]: status of a message's record
    early,    \* early[j]: deliveries before it is due
    faults

broker == <<waiting, hidden, ids>>
worker == <<pc, held>>
jobs == <<tries, accepted, closed, failed>>
bounds == <<early, faults>>
vars == <<broker, worker, jobs, parked, tracker, bounds>>

Ids == Jobs \X (0..(2 * (MaxAttempts + MaxEarly + MaxFaults) + 2))

\* attempts and due: the payload's attempts and timestamp fields;
\* unique: the payload has a uniqueId, which is then the message's id
Message == [id : Jobs \X Nat, attempts : Nat, due : BOOLEAN, unique : BOOLEAN]

Job(m) == m.id[1]
InQueue(id) == (\E k \in DOMAIN waiting : waiting[k].id = id)
                  \/ \E m \in hidden : m.id = id

Init ==
    /\ driver \in Drivers
    /\ waiting = <<>> /\ hidden = {}
    /\ ids = [j \in Jobs |-> 0]
    /\ pc = [w \in Workers |-> "idle"]
    /\ held = [w \in Workers |-> NoMessage]
    /\ tries = [j \in Jobs |-> 0]
    /\ accepted = {} /\ closed = {} /\ failed = {} /\ parked = {}
    /\ tracker = [i \in Ids |-> "none"]
    /\ early = [j \in Jobs |-> 0] /\ faults = 0

-----------------------------------------------------------------------------
(* The queue facade *)

Fault(kind) == /\ kind \in Faults
               /\ faults < MaxFaults
               /\ faults' = faults + 1

Track(id, status) == tracker' = [tracker EXCEPT ![id] = status]

\* the id the driver gives to m: its own if it asked for one, else a new one
NewId(m) == IF m.unique /\ driver = "redis" THEN m.id
            ELSE <<Job(m), ids[Job(m)] + 1>>

\* Queue.enqueue() succeeds: the driver adds the message (or, for an id that
\* exists, does not), and its record becomes pending unless it awaits recovery
Enqueue(m) ==
    LET id == NewId(m)
        known == id = m.id /\ InQueue(id)
    IN  /\ waiting' = IF known THEN waiting
                      ELSE Append(waiting, [m EXCEPT !.id = id])
        /\ ids' = IF id = m.id THEN ids ELSE [ids EXCEPT ![Job(m)] = @ + 1]
        /\ IF tracker[id] = "pending_recovery" THEN UNCHANGED tracker
                                               ELSE Track(id, "pending")
        /\ UNCHANGED hidden

\* Queue.enqueue() fails: the payload is recorded for recovery, under the id
\* it asked for or a fallback id
EnqueueFails(m) ==
    LET id == IF m.unique THEN m.id ELSE <<Job(m), ids[Job(m)] + 1>>
    IN  /\ driver = "redis"
        /\ Fault("enqueue")
        /\ ids' = IF m.unique THEN ids ELSE [ids EXCEPT ![Job(m)] = @ + 1]
        /\ parked' = parked \union {[m EXCEPT !.id = id]}
        /\ Track(id, "pending_recovery")
        /\ UNCHANGED <<waiting, hidden, early>>

\* BullMQ's getJob(id) and remove(): the job of that id, wherever it is
Without(id) ==
    /\ IF \E k \in DOMAIN waiting : waiting[k].id = id
       THEN \E k \in DOMAIN waiting :
               /\ waiting[k].id = id
               /\ waiting' = SubSeq(waiting, 1, k - 1)
                               \o SubSeq(waiting, k + 1, Len(waiting))
       ELSE UNCHANGED waiting
    /\ hidden' = {m \in hidden : m.id # id}

\* Queue.ack()
Ack(m) == IF driver = "redis" THEN Without(m.id) ELSE UNCHANGED <<waiting, hidden>>

-----------------------------------------------------------------------------
(* Producers, recovery and time *)

New(j) == [id |-> <<j, 0>>, attempts |-> InitialAttempts, due |-> TRUE,
           unique |-> j \in UniqueJobs]

Produced(j) == ids[j] > 0 \/ InQueue(<<j, 0>>) \/ tracker[<<j, 0>>] # "none"

Produce(j) ==
    /\ j \in JobsOf[driver]
    /\ ~Produced(j)
    /\ \/ /\ Enqueue(New(j))
          /\ accepted' = accepted \union {j}
          /\ UNCHANGED <<parked, bounds>>
       \/ EnqueueFails(New(j)) /\ UNCHANGED accepted
    /\ UNCHANGED <<worker, tries, closed, failed>>

\* JobRecoveryDaemon.recoverOne() hands a parked job to the queue: its record
\* id as uniqueId, attempts set to the maximum, due after a backoff.  (The
\* failures of the daemon itself are in JobRecovery.)
Recover(m) ==
    /\ m \in parked
    /\ LET r == [m EXCEPT !.attempts = IF m.attempts > 0 THEN m.attempts ELSE 3,
                          !.due = FALSE, !.unique = TRUE]
       IN  /\ waiting' = IF InQueue(m.id) THEN waiting ELSE Append(waiting, r)
           /\ Track(m.id, "enqueued")
    /\ parked' = parked \ {m}
    /\ UNCHANGED <<hidden, ids, worker, jobs, bounds>>

\* Seeded fault: a retried message never becomes due
FirstBecomesDue ==
    /\ \E k \in DOMAIN waiting :
          /\ ~waiting[k].due /\ waiting[k].attempts = InitialAttempts
          /\ waiting' = [waiting EXCEPT ![k].due = TRUE]
    /\ UNCHANGED <<hidden, ids, worker, jobs, parked, tracker, bounds>>

BecomesDue ==
    /\ \E k \in DOMAIN waiting :
          /\ ~waiting[k].due
          /\ waiting' = [waiting EXCEPT ![k].due = TRUE]
    /\ UNCHANGED <<hidden, ids, worker, jobs, parked, tracker, bounds>>

\* the visibility timeout of an unacked message
Reappears(m) ==
    /\ m \in hidden
    /\ waiting' = Append(waiting, m)
    /\ hidden' = hidden \ {m}
    /\ UNCHANGED <<ids, worker, jobs, parked, tracker, bounds>>

\* Seeded fault: reconciliation does not look at the status
ReconcileAny(id, status) ==
    /\ driver \in Reconciled
    /\ tracker[id] # "none"
    /\ Track(id, status)
    /\ UNCHANGED <<broker, worker, jobs, parked, bounds>>

\* JobReconciliationRunner: an active record whose heartbeat or start is old
Reconcile(id, status) ==
    /\ driver \in Reconciled
    /\ tracker[id] = "active"
    /\ Track(id, status)
    /\ UNCHANGED <<broker, worker, jobs, parked, bounds>>

-----------------------------------------------------------------------------
(* processQueueMessage() *)

Goto(w, l) == pc' = [pc EXCEPT ![w] = l]

BackToIdle(w) == /\ Goto(w, "idle")
                 /\ held' = [held EXCEPT ![w] = NoMessage]

Dequeue(w) ==
    /\ pc[w] = "idle"
    /\ waiting # <<>>
    /\ LET m == Head(waiting)
       IN  /\ waiting' = Tail(waiting)
           /\ hidden' = IF driver = "redis" THEN hidden \union {m} ELSE hidden
           /\ held' = [held EXCEPT ![w] = m]
           /\ \/ /\ m.due
                 /\ Goto(w, "running")
                 /\ tries' = [tries EXCEPT ![Job(m)] = @ + 1]
                 /\ Track(m.id, "active")
                 /\ UNCHANGED early
              \/ /\ ~m.due
                 /\ early[Job(m)] < MaxEarly
                 /\ early' = [early EXCEPT ![Job(m)] = @ + 1]
                 /\ Goto(w, "early")
                 /\ UNCHANGED <<tries, tracker>>
    /\ UNCHANGED <<ids, accepted, closed, failed, parked, faults>>

\* Seeded fault: a message that was put back is processed all the same
RequeueAndRun(w) ==
    /\ pc[w] = "early"
    /\ Enqueue(held[w])
    /\ Goto(w, "running")
    /\ UNCHANGED <<held, parked, bounds, jobs>>

\* checkAndRequeueIfNotDue(): enqueue the same payload, then ack
RequeueEarly(w) ==
    /\ pc[w] = "early"
    /\ \/ /\ Enqueue(held[w])
          /\ Goto(w, "ackEarly")
          /\ UNCHANGED <<held, parked, bounds>>
       \/ /\ EnqueueFails(held[w])
          /\ BackToIdle(w)
    /\ UNCHANGED jobs

AckEarly(w) ==
    /\ pc[w] = "ackEarly"
    /\ Ack(held[w])
    /\ BackToIdle(w)
    /\ UNCHANGED <<ids, jobs, parked, tracker, bounds>>

\* tracking or the heartbeat store fails before the handler is called
StartFails(w) ==
    /\ pc[w] = "running"
    /\ Fault("start")
    /\ Goto(w, "failing")
    /\ UNCHANGED <<broker, held, jobs, parked, tracker, early>>

\* the heartbeat interval of a running handler
Heartbeat(w) ==
    /\ pc[w] = "running"
    /\ tracker[held[w].id] # "active"
    /\ Track(held[w].id, "active")
    /\ UNCHANGED <<broker, worker, jobs, parked, bounds>>

HandlerSucceeds(w) ==
    /\ pc[w] = "running"
    /\ Goto(w, "acking")
    /\ closed' = closed \union {Job(held[w])}
    /\ UNCHANGED <<broker, held, tries, accepted, failed, parked, tracker, bounds>>

HandlerFails(w) ==
    /\ pc[w] = "running"
    /\ Goto(w, "failing")
    /\ UNCHANGED <<broker, held, jobs, parked, tracker, bounds>>

\* TimeoutManager.withTimeout() rejects; the handler goes on, and its late
\* result is dropped
HandlerTimesOut(w) ==
    /\ pc[w] = "running"
    /\ Goto(w, "failing")
    /\ Track(held[w].id, "timeout")
    /\ UNCHANGED <<broker, held, jobs, parked, bounds>>

\* onProcessSuccess()
Complete(w) ==
    /\ pc[w] = "acking"
    /\ Ack(held[w])
    /\ Track(held[w].id, "completed")
    /\ BackToIdle(w)
    /\ UNCHANGED <<ids, jobs, parked, bounds>>

\* Seeded fault: the attempt that failed is not counted
AttemptsSoFar(m) == m.attempts

\* onProcessFailure(): retry while attempts are left, or give up
NextAttempts(m) == m.attempts + 1

\* Seeded fault: attempts is taken for the number of attempts left
RetryCountdown(m) == [m EXCEPT !.attempts = @ - 1, !.due = FALSE]

RetryMessage(m) == [m EXCEPT !.attempts = NextAttempts(m), !.due = FALSE]

\* Seeded fault: a message is acked although its retry could not be added
RetryAndAck(w) ==
    /\ pc[w] = "failing"
    /\ NextAttempts(held[w]) < MaxAttempts
    /\ \/ Enqueue(RetryMessage(held[w])) /\ UNCHANGED <<parked, bounds>>
       \/ EnqueueFails(RetryMessage(held[w]))
    /\ Goto(w, "ackRetry")
    /\ UNCHANGED <<held, jobs>>

Retry(w) ==
    /\ pc[w] = "failing"
    /\ NextAttempts(held[w]) < MaxAttempts
    /\ \/ /\ Enqueue(RetryMessage(held[w]))
          /\ Goto(w, "ackRetry")
          /\ UNCHANGED <<held, parked, bounds>>
       \/ /\ EnqueueFails(RetryMessage(held[w]))
          /\ BackToIdle(w)
    /\ UNCHANGED jobs

GiveUp(w) ==
    /\ pc[w] = "failing"
    /\ NextAttempts(held[w]) >= MaxAttempts
    /\ closed' = closed \union {Job(held[w])}
    /\ failed' = failed \union {Job(held[w])}
    /\ Goto(w, "ackFinal")
    /\ UNCHANGED <<broker, held, tries, accepted, parked, tracker, bounds>>

\* the ack that follows, and the tracker's failed()
AckFailed(w) ==
    /\ pc[w] \in {"ackRetry", "ackFinal"}
    /\ Ack(held[w])
    /\ Track(held[w].id, IF pc[w] = "ackFinal" THEN "failed" ELSE "pending")
    /\ BackToIdle(w)
    /\ UNCHANGED <<ids, jobs, parked, bounds>>

\* the worker's process dies (a memory queue would die with it, and the
\* records of a process are its own: with redis no property is about them)
Crash(w) ==
    /\ driver = "redis"
    /\ pc[w] # "idle"
    /\ Fault("crash")
    /\ BackToIdle(w)
    /\ UNCHANGED <<broker, jobs, parked, tracker, early>>

WorkerStep(w) ==
    \/ Dequeue(w) \/ RequeueEarly(w) \/ AckEarly(w)
    \/ HandlerSucceeds(w) \/ HandlerFails(w) \/ HandlerTimesOut(w)
    \/ Complete(w) \/ Retry(w) \/ GiveUp(w) \/ AckFailed(w)

Next ==
    /\ \/ \E j \in Jobs : Produce(j)
       \/ \E m \in parked : Recover(m)
       \/ BecomesDue
       \/ \E m \in hidden : Reappears(m)
       \/ \E id \in Ids, s \in {"stalled", "timeout"} : Reconcile(id, s)
       \/ \E w \in Workers : \/ WorkerStep(w) \/ Heartbeat(w)
                             \/ StartFails(w) \/ Crash(w)
    /\ UNCHANGED driver

Spec == Init /\ [][Next]_<<driver, vars>>

\* Workers are invoked again and again and handlers settle or time out; time
\* passes; the recovery daemon runs.
Fairness ==
    /\ \A w \in Workers : WF_vars(WorkerStep(w))
    /\ WF_vars(BecomesDue)
    /\ WF_vars(\E m \in hidden : Reappears(m))
    /\ WF_vars(\E m \in parked : Recover(m))

FairSpec == Spec /\ Fairness

-----------------------------------------------------------------------------
(* Properties *)

Statuses == {"none", "pending", "enqueued", "active", "completed", "failed",
             "stalled", "timeout", "pending_recovery"}

\* The types of the variables.
TypeOK ==
    /\ driver \in Drivers
    /\ waiting \in Seq(Message) /\ hidden \subseteq Message
    /\ ids \in [Jobs -> Nat]
    /\ pc \in [Workers -> {"idle", "early", "ackEarly", "running", "acking",
                           "failing", "ackRetry", "ackFinal"}]
    /\ held \in [Workers -> Message \union {NoMessage}]
    /\ tries \in [Jobs -> Nat]
    /\ failed \subseteq closed /\ closed \subseteq Jobs /\ accepted \subseteq Jobs
    /\ parked \subseteq Message
    /\ tracker \in [Ids -> Statuses]
    /\ early \in [Jobs -> Nat] /\ faults \in Nat

\* A worker that still answers for the only copy of its job
Answers(w, j) == pc[w] \in {"early", "running", "failing"} /\ Job(held[w]) = j

Copies(j) == Cardinality({k \in DOMAIN waiting : Job(waiting[k]) = j})
             + Cardinality({w \in Workers : Answers(w, j)})

\* With the in-memory driver a job is neither lost nor duplicated: until a
\* delivery of it succeeds or fails for good, exactly one message or worker
\* answers for it, through every retry and early delivery, and none does
\* afterwards.  It is why retry enqueues the copy before it acks.
Conserved ==
    driver = "memory" =>
        \A j \in Jobs :
            Copies(j) = IF Produced(j) /\ j \notin closed THEN 1 ELSE 0

\* With Redis a job that reached the queue under an id the driver made, and is
\* still open, is in the queue itself, whatever worker crashes, answers late or
\* cannot add the retry: the message is acked only after its successor was added.
\* A message that names its id has no such successor: see NothingLost.
Durable ==
    \A j \in accepted \ (closed \union UniqueJobs) : driver = "redis" =>
        (\E k \in DOMAIN waiting : Job(waiting[k]) = j) \/ \E m \in hidden : Job(m) = j

\* "without losing data on crash": every open job is in the queue, or recorded for
\* recovery.
NothingLost ==
    \A j \in Jobs : driver = "redis" /\ Produced(j) /\ j \notin closed =>
        \/ \E k \in DOMAIN waiting : Job(waiting[k]) = j
        \/ \E m \in hidden \union parked : Job(m) = j

\* "Maximum retry attempts before job is marked as failed": a job gets as many
\* attempts as the worker allows before it fails for good, and never more.
\* (A message of Redis that reappears after a crash is one attempt more.)
AttemptBudget ==
    driver = "memory" =>
        \A j \in Jobs : /\ tries[j] <= MaxAttempts
                        /\ j \in failed => tries[j] = MaxAttempts

\* A record that says completed or failed for good is final: no heartbeat,
\* reconciliation, retry or late result of the process that keeps it reopens it.
FinalStatus ==
    [][driver = "memory" =>
         \A id \in Ids : tracker[id] \in {"completed", "failed"}
                            => tracker'[id] = tracker[id]]_vars

\* Every job that reached the queue under an id the driver made is settled, with
\* either driver: a delivery succeeds or fails for good.
Settles == \A j \in Jobs \ UniqueJobs : j \in accepted ~> j \in closed
=============================================================================
