----------------------------- MODULE JobRecovery -----------------------------
(***************************************************************************)
(* What becomes of a job whose enqueue failed: src/tools/queue/Queue.ts     *)
(* (enqueue), JobRecoveryDaemon.ts (runOnce, recoverOne, replayDeadLetter), *)
(* the records of JobStateTracker.ts and the enqueue path, deduplication    *)
(* included, of packages/queue-redis/src/BullMQRedisQueue.ts.               *)
(*                                                                         *)
(* Jobs carry a uniqueId, so job, message id and record coincide.          *)
(* frame[c][j] is a call of Queue.enqueue() for job j by caller c: the     *)
(* application, an operator's replay, or a run of the recovery daemon.     *)
(* A step ends where the code awaits the lock provider or BullMQ; tracking *)
(* is in memory (JOB_TRACKING_PERSISTENCE_ENABLED off), so the bookkeeping *)
(* after a reply belongs to that reply's turn.  Workers are other processes *)
(* with trackers of their own.  runOnce() handles its candidates           *)
(* concurrently and they share nothing: a run is modelled job by job.      *)
(***************************************************************************)
EXTENDS Naturals, FiniteSets

CONSTANTS
    Jobs,
    Runs,        \* runs of the daemon that may be in flight at once
    Dedup,       \* jobs whose payload has a deduplication id
    Attempts,    \* payload.attempts of the application (0: not set)
    MaxJobs,     \* bound: jobs that are submitted (they share nothing)
    MaxSubmits,  \* bound: enqueue calls by the application, per job
    MaxReplays   \* bound: replays, per job

ASSUME RecoveryAssumption ==
    /\ Dedup \subseteq Jobs
    /\ Runs \intersect {"submit", "replay"} = {}
    /\ Attempts \in Nat /\ MaxSubmits \in Nat /\ MaxReplays \in Nat /\ MaxJobs \in Nat

Callers == Runs \union {"submit", "replay"}

VARIABLES
    record,   \* record[j]: the tracker's record of j
    frame,    \* frame[c][j]: where a call is, and the record it works from
    queued,   \* jobs in the queue
    lock,     \* jobs whose deduplication lock is held
    added,    \* added[j]: times j was put in the queue
    executed, \* executed[j]: times a worker took j and acked it
    submits, replays,
    unanswered, \* history: jobs BullMQ added although the call was told otherwise
    doubled     \* history: jobs enqueued again, or listed while a run is at work on them

brk == <<queued, added>>
bounds == <<submits, replays>>
vars == <<record, frame, brk, lock, executed, bounds, unanswered, doubled>>

Statuses == {"none", "pending", "pending_recovery", "enqueued", "dead_letter",
             "manual_review"}

\* max = 0: maxAttempts is undefined; fatal: lastError looks fatal or corrupt
Record == [status : Statuses, attempts : Nat, max : Nat, fatal : BOOLEAN]

NoRecord == [status |-> "none", attempts |-> 0, max |-> 0, fatal |-> FALSE]

Idle == [at |-> "idle", rec |-> NoRecord]

MaxOf(rec) == IF rec.max > 0 THEN rec.max ELSE 3

Init ==
    /\ record = [j \in Jobs |-> NoRecord]
    /\ frame = [c \in Callers |-> [j \in Jobs |-> Idle]]
    /\ queued = {} /\ lock = {}
    /\ added = [j \in Jobs |-> 0] /\ executed = [j \in Jobs |-> 0]
    /\ submits = [j \in Jobs |-> 0] /\ replays = [j \in Jobs |-> 0]
    /\ unanswered = {} /\ doubled = {}

At(c, j) == frame[c][j].at

Goto(c, j, l) == frame' = [frame EXCEPT ![c][j].at = l]

Return(c, j) == frame' = [frame EXCEPT ![c][j] = Idle]

Write(j, rec) == record' = [record EXCEPT ![j] = rec]

\* where BullMQRedisQueue.enqueue() begins
Entry(j) == IF j \in Dedup THEN "status" ELSE "add"

-----------------------------------------------------------------------------
(* Callers *)

\* the application calls Queue.enqueue(), again if the last call failed
Submit(j) ==
    /\ At("submit", j) = "idle"
    /\ submits[j] < MaxSubmits
    /\ Cardinality({i \in Jobs : submits[i] > 0} \union {j}) <= MaxJobs
    /\ record[j].status \in {"none", "pending_recovery"}
    /\ submits' = [submits EXCEPT ![j] = @ + 1]
    /\ Goto("submit", j, Entry(j))
    /\ doubled' = IF submits[j] > 0 THEN doubled \union {j} ELSE doubled
    /\ UNCHANGED <<record, brk, lock, executed, replays, unanswered>>

\* replayDeadLetter(): the payload of a dead letter is enqueued as it is
Replay(j) ==
    /\ At("replay", j) = "idle"
    /\ replays[j] < MaxReplays
    /\ record[j].status = "dead_letter"
    /\ replays' = [replays EXCEPT ![j] = @ + 1]
    /\ frame' = [frame EXCEPT !["replay"][j] =
                   [at |-> Entry(j), rec |-> record[j]]]
    /\ UNCHANGED <<record, brk, lock, executed, submits, unanswered, doubled>>

\* listRecoverable()
Recoverable(j) == record[j].status = "pending_recovery"

\* runOnce() lists a recoverable record, then awaits the persisted ones.  The
\* interval that calls it does not wait for the previous run.
Scan(r, j) ==
    /\ At(r, j) = "idle"
    /\ Recoverable(j)
    /\ doubled' = IF \E q \in Runs : At(q, j) # "idle" THEN doubled \union {j}
                                                     ELSE doubled
    /\ frame' = [frame EXCEPT ![r][j] = [at |-> "decide", rec |-> record[j]]]
    /\ UNCHANGED <<record, brk, lock, executed, bounds, unanswered>>

Exhausted(rec) == rec.attempts >= MaxOf(rec)

\* Seeded fault: a job sent to review is enqueued nevertheless
DecideWithoutReturn(r, j) ==
    LET rec == frame[r][j].rec
    IN  /\ At(r, j) = "decide"
        /\ \/ /\ Exhausted(rec)
              /\ Write(j, [record[j] EXCEPT !.status = "dead_letter"])
              /\ Return(r, j)
           \/ /\ ~Exhausted(rec)
              /\ Write(j, IF rec.fatal
                          THEN [record[j] EXCEPT !.status = "manual_review"]
                          ELSE record[j])
              /\ Goto(r, j, Entry(j))
        /\ UNCHANGED <<brk, lock, executed, bounds, unanswered, doubled>>

\* recoverOne(), on the record as it was listed
Decide(r, j) ==
    LET rec == frame[r][j].rec
    IN  /\ At(r, j) = "decide"
        /\ \/ /\ Exhausted(rec)
              /\ Write(j, [record[j] EXCEPT !.status = "dead_letter"])
              /\ Return(r, j)
           \/ /\ ~Exhausted(rec) /\ rec.fatal
              /\ Write(j, [record[j] EXCEPT !.status = "manual_review"])
              /\ Return(r, j)
           \/ /\ ~Exhausted(rec) /\ ~rec.fatal
              /\ Goto(r, j, Entry(j))
              /\ UNCHANGED record
        /\ UNCHANGED <<brk, lock, executed, bounds, unanswered, doubled>>

-----------------------------------------------------------------------------
(* Queue.enqueue(): its record keeping *)

\* payload.attempts of the call
PayloadAttempts(c, j) == IF c \in Runs THEN MaxOf(frame[c][j].rec) ELSE Attempts

\* JobStateTracker.enqueued()
Tracked(c, j) ==
    [record[j] EXCEPT
        !.status = "pending", !.attempts = 0,
        !.max = IF PayloadAttempts(c, j) > 0 THEN PayloadAttempts(c, j) ELSE @]

\* Seeded fault: the daemon does not record the hand-off
NotHandedOff(c, j) ==
    IF record[j].status = "pending_recovery" THEN record[j]
    ELSE IF c = "replay" THEN [Tracked(c, j) EXCEPT !.status = "dead_letter"]
    ELSE Tracked(c, j)

\* markEnqueued() unless the record awaits recovery, then what the caller adds
AfterSuccess(c, j) ==
    LET rec == IF record[j].status = "pending_recovery" THEN record[j]
                                                        ELSE Tracked(c, j)
    IN  CASE c = "submit" -> rec
          [] c = "replay" -> [rec EXCEPT !.status = "dead_letter"]
          [] OTHER        -> [rec EXCEPT !.status = "enqueued"]

\* a lock collision returns the deduplication id: the record under the job's
\* own id is left to the caller
AfterDuplicate(c, j) ==
    IF c \in Runs THEN [record[j] EXCEPT !.status = "enqueued"]
    ELSE IF c = "replay" THEN [record[j] EXCEPT !.status = "dead_letter"]
    ELSE record[j]

\* Seeded fault: markFailedEnqueue() only tracks the payload
FailsUnmarked(c, j, fatal) == Tracked(c, j)

\* Seeded fault: the daemon keeps the count that enqueued() reset
ForgetsAttempts(c, j, fatal) ==
    [Tracked(c, j) EXCEPT !.status = "pending_recovery", !.fatal = fatal]

\* markFailedEnqueue(); the daemon then writes its own count of attempts
AfterFailure(c, j, fatal) ==
    [Tracked(c, j) EXCEPT
        !.status = "pending_recovery", !.fatal = fatal,
        !.attempts = IF c \in Runs THEN frame[c][j].rec.attempts + 1 ELSE 0]

Fails(c, j) ==
    /\ \E fatal \in BOOLEAN : Write(j, AfterFailure(c, j, fatal))
    /\ Return(c, j)

-----------------------------------------------------------------------------
(* BullMQRedisQueue.enqueue() *)

\* checkExistingLock()
CheckLock(c, j) ==
    /\ At(c, j) = "status"
    /\ \/ /\ j \in lock
          /\ Write(j, AfterDuplicate(c, j))
          /\ Return(c, j)
       \/ /\ j \notin lock
          /\ Goto(c, j, "acquire")
          /\ UNCHANGED record
    /\ UNCHANGED <<brk, lock, executed, bounds, unanswered, doubled>>

\* acquireDeduplicationLock()
AcquireLock(c, j) ==
    /\ At(c, j) = "acquire"
    /\ \/ /\ j \in lock
          /\ Write(j, AfterDuplicate(c, j))
          /\ Return(c, j)
          /\ UNCHANGED lock
       \/ /\ j \notin lock
          /\ lock' = lock \union {j}
          /\ Goto(c, j, "add")
          /\ UNCHANGED record
    /\ UNCHANGED <<brk, executed, bounds, unanswered, doubled>>

\* q.add(): nothing happens when the id is in the queue already
PutInQueue(j) ==
    /\ queued' = queued \union {j}
    /\ added' = [added EXCEPT ![j] = IF j \in queued THEN @ ELSE @ + 1]

AddSucceeds(c, j) ==
    /\ At(c, j) = "add"
    /\ PutInQueue(j)
    /\ Write(j, AfterSuccess(c, j))
    /\ Return(c, j)
    /\ UNCHANGED <<lock, executed, bounds, unanswered, doubled>>

\* the queue is unreachable, or only its answer is lost
AddFails(c, j) ==
    /\ At(c, j) = "add"
    /\ \/ UNCHANGED <<brk, unanswered>>
       \/ PutInQueue(j) /\ unanswered' = unanswered \union {j}
    /\ Fails(c, j)
    /\ UNCHANGED <<lock, executed, bounds, doubled>>

\* the lock's TTL, or its timed release
LockExpires(j) ==
    /\ j \in lock
    /\ lock' = lock \ {j}
    /\ UNCHANGED <<record, frame, brk, executed, bounds, unanswered, doubled>>

\* a worker of another process takes the job and acks it
Execute(j) ==
    /\ j \in queued
    /\ queued' = queued \ {j}
    /\ executed' = [executed EXCEPT ![j] = @ + 1]
    /\ UNCHANGED <<record, frame, added, lock, bounds, unanswered, doubled>>

Step(c, j) == CheckLock(c, j) \/ AcquireLock(c, j)
                \/ AddSucceeds(c, j) \/ AddFails(c, j)

Next ==
    \E j \in Jobs :
        \/ Submit(j) \/ Replay(j) \/ LockExpires(j) \/ Execute(j)
        \/ \E r \in Runs : Scan(r, j) \/ Decide(r, j)
        \/ \E c \in Callers : Step(c, j)

Spec == Init /\ [][Next]_vars

\* The orchestrator's interval fires and calls settle, one way or the other.
Fairness ==
    \A j \in Jobs :
        /\ \A r \in Runs : WF_vars(Scan(r, j)) /\ WF_vars(Decide(r, j))
        /\ \A c \in Callers : WF_vars(Step(c, j))

FairSpec == Spec /\ Fairness

-----------------------------------------------------------------------------
(* Properties *)

\* The types of the variables; attempts never pass the maximum.
TypeOK ==
    /\ record \in [Jobs -> Record]
    /\ \A j \in Jobs : record[j].attempts <= MaxOf(record[j])
    /\ frame \in [Callers -> [Jobs ->
          [at : {"idle", "decide", "status", "acquire", "add"}, rec : Record]]]
    /\ queued \subseteq Jobs /\ lock \subseteq Dedup
    /\ added \in [Jobs -> Nat] /\ executed \in [Jobs -> Nat]
    /\ submits \in [Jobs -> Nat] /\ replays \in [Jobs -> Nat]
    /\ unanswered \subseteq Jobs /\ doubled \subseteq Jobs

\* A job handed to Queue.enqueue() is never lost silently: it reached the
\* queue, or a call is still at work on it, or its record says that it awaits
\* recovery or was set aside for an operator; and its record is closed as
\* enqueued only when it did reach the queue.  (With a deduplication id it may
\* be lost: EnqueuedMeansQueued.)
Accounted ==
    \A j \in Jobs \ Dedup :
        /\ submits[j] > 0 =>
              \/ added[j] > 0
              \/ \E c \in Callers : At(c, j) # "idle"
              \/ record[j].status \in {"pending_recovery", "dead_letter", "manual_review"}
        /\ record[j].status = "enqueued" => added[j] > 0

\* "enqueued (terminal: job is in QUEUE_DRIVER or already exists)": the daemon
\* closes a record only when the job really reached the queue.
EnqueuedMeansQueued ==
    \A j \in Jobs : record[j].status = "enqueued" => added[j] > 0

\* "Preserves job ID (prevents duplication)": failures, recovery and replay
\* together run a job once, or once per replay an operator asked for.  The code
\* promises no more: it may run again if the application enqueues it again, if
\* runs of the daemon overlap on it, or if BullMQ took it and the reply was lost.
ExecutedOnce ==
    \A j \in Jobs \ (doubled \union unanswered) :
        executed[j] <= IF replays[j] > 1 THEN replays[j] ELSE 1

\* A job set aside stays so: it is neither put in the queue nor back into
\* recovery, except by a replay of it.  (A run that listed the job before
\* another one set it aside may still enqueue it.)
SetAsideIsFinal ==
    [][\A j \in Jobs \ doubled :
          (/\ record[j].status \in {"dead_letter", "manual_review"}
           /\ added'[j] > added[j] \/ record'[j].status # record[j].status)
              => At("replay", j) = "add" /\ frame'["replay"][j] = Idle]_vars

\* Recovery ends, even while the queue stays unreachable: a job that awaits
\* recovery is handed to the queue or set aside.
RecoveryEnds ==
    \A j \in Jobs : record[j].status = "pending_recovery"
        ~> record[j].status \in {"enqueued", "dead_letter", "manual_review"}
=============================================================================
