--------------------------- MODULE SchedulerLeader ---------------------------
(***************************************************************************)
(* Leader gating of the scheduler: src/scheduler/leader/SchedulerLeader.ts *)
(* driven by src/scheduler/SchedulerRuntime.ts, on the Redis lock of       *)
(* src/tools/queue/LockProvider.ts.  Several processes (instances) compete *)
(* for one lock key; the one that holds it runs the schedules.             *)
(*                                                                         *)
(* A command travels over its instance's connection in order: pipe[i] lists *)
(* the commands whose reply has not been consumed, oldest first, each one   *)
(* pending at Redis or answered.  A step is one JavaScript turn (an API    *)
(* call, an interval callback, the continuation of a reply), one command   *)
(* executed by Redis, or one tick of real time.                            *)
(*                                                                         *)
(* Timely = TRUE restricts real time to what the defaults assume: interval *)
(* callbacks are not delayed by a tick and a round trip takes at most      *)
(* Latency ticks.  FALSE lets processes and the network be arbitrarily     *)
(* slow.                                                                   *)
(***************************************************************************)
EXTENDS Naturals, Sequences, FiniteSets

CONSTANTS
    Instances,    \* processes
    NoOwner,      \* owner of a lock key that does not exist
    TTL,          \* SCHEDULE_LEADER_LOCK_TTL_MS, in ticks
    RenewEvery,   \* SCHEDULE_LEADER_LOCK_RENEW_MS, in ticks
    Latency,      \* longest round trip when Timely, in ticks
    Timely,       \* timers and round trips are on time
    Restart,      \* start() may be called again after stop() in one process
    MaxPipe,      \* bound: commands in flight per instance
    MaxFailures   \* bound: crashes, failed commands and acquire timeouts

ASSUME LeaderAssumption ==
    /\ NoOwner \notin Instances
    /\ TTL \in Nat \ {0} /\ RenewEvery \in Nat \ {0}
    /\ Latency \in Nat /\ MaxPipe \in Nat /\ MaxFailures \in Nat
    /\ Timely \in BOOLEAN /\ Restart \in BOOLEAN

VARIABLES
    owner,      \* who set the lock key (a ghost: the value is just 'locked')
    ttl,        \* ticks until the key expires, 0 when it does not exist
    started,    \* leader state.started (and runtime state.leaderStarted)
    leaderLock, \* leader state.leaderLock # null
    provider,   \* leader state.provider # null
    hooks,      \* leader state.hooks # null
    runnerOn,   \* the schedule runner of the instance is started
    stopped,    \* stop() was called in this process
    renewAge,   \* ticks since the renew interval last fired
    pipe,       \* commands in flight, oldest first
    failures    \* failures so far

lock == <<owner, ttl>>
local == <<started, leaderLock, provider, hooks, runnerOn, stopped>>
vars == <<lock, local, renewAge, pipe, failures>>

\* live: the caller still awaits the answer (the acquire did not time out)
Command == [cmd : {"acquire", "extend", "release"}, live : BOOLEAN,
            age : Nat, res : {"pending", "yes", "no", "error"}]

-----------------------------------------------------------------------------
Init ==
    /\ owner = NoOwner /\ ttl = 0
    /\ started = [i \in Instances |-> FALSE]
    /\ leaderLock = [i \in Instances |-> FALSE]
    /\ provider = [i \in Instances |-> FALSE]
    /\ hooks = [i \in Instances |-> FALSE]
    /\ runnerOn = [i \in Instances |-> FALSE]
    /\ stopped = [i \in Instances |-> FALSE]
    /\ renewAge = [i \in Instances |-> 0]
    /\ pipe = [i \in Instances |-> <<>>]
    /\ failures = 0

Put(f, i, v) == [f EXCEPT ![i] = v]

Send(i, c) ==
    /\ Len(pipe[i]) < MaxPipe
    /\ pipe' = Put(pipe, i, Append(pipe[i],
                     [cmd |-> c, live |-> TRUE, age |-> 0, res |-> "pending"]))

(* The instance *)

\* SchedulerRuntime.start() with leader mode enabled, and the immediate
\* tryAcquire(): it does nothing when a lock is already held
Start(i) ==
    /\ ~started[i]
    /\ Restart \/ ~stopped[i]
    /\ started' = Put(started, i, TRUE)
    /\ hooks' = Put(hooks, i, TRUE)
    /\ provider' = Put(provider, i, ~leaderLock[i])
    /\ IF leaderLock[i] THEN UNCHANGED pipe ELSE Send(i, "acquire")
    /\ renewAge' = Put(renewAge, i, 0)
    /\ UNCHANGED <<lock, leaderLock, runnerOn, stopped, failures>>

\* Seeded fault: only the first attempt to acquire is ever made
RetryWithoutProvider(i) ==
    /\ started[i] /\ ~leaderLock[i] /\ ~provider[i]
    /\ Send(i, "acquire")
    /\ UNCHANGED <<lock, local, renewAge, failures>>

\* the retry interval: tryAcquire()
Retry(i) ==
    /\ started[i]
    /\ ~leaderLock[i]
    /\ provider' = Put(provider, i, TRUE)
    /\ Send(i, "acquire")
    /\ UNCHANGED <<lock, started, leaderLock, hooks, runnerOn, stopped,
                   renewAge, failures>>

\* the renew interval
Renew(i) ==
    /\ started[i]
    /\ renewAge[i] = RenewEvery
    /\ renewAge' = Put(renewAge, i, 0)
    /\ IF leaderLock[i] /\ provider[i] THEN Send(i, "extend") ELSE UNCHANGED pipe
    /\ UNCHANGED <<lock, local, failures>>

\* the rest of leader.stop() once the lock is released or none was held,
\* followed by runner.stop()
FinishStop(i) ==
    /\ leaderLock' = Put(leaderLock, i, FALSE)
    /\ provider' = Put(provider, i, FALSE)
    /\ hooks' = Put(hooks, i, FALSE)
    /\ runnerOn' = Put(runnerOn, i, FALSE)

\* SchedulerRuntime.stop(): leader.stop() first, then runner.stop()
Stop(i) ==
    /\ started[i]
    /\ started' = Put(started, i, FALSE)
    /\ stopped' = Put(stopped, i, TRUE)
    /\ renewAge' = Put(renewAge, i, 0)
    /\ \/ /\ leaderLock[i] /\ provider[i]
          /\ Send(i, "release")
          /\ UNCHANGED <<leaderLock, provider, hooks, runnerOn>>
       \/ /\ ~(leaderLock[i] /\ provider[i])
          /\ FinishStop(i)
          /\ UNCHANGED pipe
    /\ UNCHANGED <<lock, failures>>

\* SchedulerRuntime.stop() again: leaderStarted is FALSE, the runner stops
StopAgain(i) ==
    /\ ~started[i] /\ runnerOn[i]
    /\ runnerOn' = Put(runnerOn, i, FALSE)
    /\ UNCHANGED <<lock, started, leaderLock, provider, hooks, stopped,
                   renewAge, pipe, failures>>

\* tryAcquire() gives up waiting; the command stays in flight
AcquireTimesOut(i) ==
    /\ failures < MaxFailures
    /\ failures' = failures + 1
    /\ \E k \in DOMAIN pipe[i] :
          /\ pipe[i][k].cmd = "acquire" /\ pipe[i][k].live
          /\ pipe' = [pipe EXCEPT ![i][k].live = FALSE]
    /\ UNCHANGED <<lock, local, renewAge>>

BecomeLeader(i) ==
    /\ leaderLock' = Put(leaderLock, i, TRUE)
    /\ runnerOn' = Put(runnerOn, i, runnerOn[i] \/ hooks[i])
    /\ UNCHANGED <<provider, hooks>>

\* Seeded fault: the lost lock is forgotten without calling the hook
LoseLeadershipQuietly(i) ==
    /\ leaderLock' = Put(leaderLock, i, FALSE)
    /\ UNCHANGED <<provider, hooks, runnerOn>>

\* loseLeadership()
LoseLeadership(i) ==
    /\ leaderLock' = Put(leaderLock, i, FALSE)
    /\ runnerOn' = Put(runnerOn, i, runnerOn[i] /\ ~hooks[i])
    /\ UNCHANGED <<provider, hooks>>

\* the continuation of the oldest command, once it is answered
Reply(i) ==
    /\ pipe[i] # <<>>
    /\ LET c == Head(pipe[i])
       IN  /\ c.res # "pending"
           /\ \/ c.cmd = "acquire" /\ c.live /\ c.res = "yes" /\ BecomeLeader(i)
              \/ c.cmd = "extend" /\ c.res # "yes" /\ LoseLeadership(i)
              \/ c.cmd = "release" /\ FinishStop(i)
              \/ /\ \/ c.cmd = "acquire" /\ (~c.live \/ c.res # "yes")
                    \/ c.cmd = "extend" /\ c.res = "yes"
                 /\ UNCHANGED <<leaderLock, provider, hooks, runnerOn>>
    /\ pipe' = Put(pipe, i, Tail(pipe[i]))
    /\ UNCHANGED <<lock, started, stopped, renewAge, failures>>

\* the process dies; what Redis has not executed is lost with the connection
Crash(i) ==
    /\ started[i] \/ stopped[i]
    /\ failures < MaxFailures
    /\ failures' = failures + 1
    /\ started' = Put(started, i, FALSE)
    /\ leaderLock' = Put(leaderLock, i, FALSE)
    /\ provider' = Put(provider, i, FALSE)
    /\ hooks' = Put(hooks, i, FALSE)
    /\ runnerOn' = Put(runnerOn, i, FALSE)
    /\ stopped' = Put(stopped, i, FALSE)
    /\ renewAge' = Put(renewAge, i, 0)
    /\ pipe' = Put(pipe, i, <<>>)
    /\ UNCHANGED lock

(* Redis and real time *)

\* Seeded fault: SET without NX
ExecuteWithoutNX(i, c) ==
    \/ c = "acquire" /\ owner' = i /\ ttl' = TTL
    \/ c = "extend" /\ ttl' = (IF ttl > 0 THEN TTL ELSE 0) /\ UNCHANGED owner
    \/ c = "release" /\ ttl' = 0 /\ owner' = NoOwner

\* SET key locked PX ttl NX, PEXPIRE key ttl, DEL key
Execute(i, c) ==
    \/ c = "acquire" /\ ttl = 0 /\ owner' = i /\ ttl' = TTL
    \/ c = "acquire" /\ ttl > 0 /\ UNCHANGED lock
    \/ c = "extend" /\ ttl > 0 /\ ttl' = TTL /\ UNCHANGED owner
    \/ c = "extend" /\ ttl = 0 /\ UNCHANGED lock
    \/ c = "release" /\ ttl' = 0 /\ owner' = NoOwner

\* Seeded fault: acquired does not depend on the result of SET
AnswerUnchecked(c) == IF c = "extend" /\ ttl = 0 THEN "no" ELSE "yes"

Answer(c) ==
    CASE c = "acquire" -> IF ttl = 0 THEN "yes" ELSE "no"
      [] c = "extend"  -> IF ttl > 0 THEN "yes" ELSE "no"
      [] OTHER         -> "yes"

\* k: the oldest command Redis has not executed
IsNext(i, k) ==
    /\ pipe[i][k].res = "pending"
    /\ \A m \in 1..(k - 1) : pipe[i][m].res # "pending"

Redis(i) ==
    \E k \in DOMAIN pipe[i] :
        /\ IsNext(i, k)
        /\ Execute(i, pipe[i][k].cmd)
        /\ pipe' = [pipe EXCEPT ![i][k].res = Answer(pipe[i][k].cmd)]
        /\ UNCHANGED <<local, renewAge, failures>>

\* the command fails for its caller, executed or not
CommandFails(i) ==
    /\ failures < MaxFailures
    /\ failures' = failures + 1
    /\ \E k \in DOMAIN pipe[i] :
          /\ IsNext(i, k)
          /\ Execute(i, pipe[i][k].cmd) \/ UNCHANGED lock
          /\ pipe' = [pipe EXCEPT ![i][k].res = "error"]
    /\ UNCHANGED <<local, renewAge>>

OnTime ==
    \A i \in Instances :
        /\ started[i] => renewAge[i] < RenewEvery
        /\ \A k \in DOMAIN pipe[i] : pipe[i][k].age < Latency

Tick ==
    /\ Timely => OnTime
    /\ ttl' = IF ttl > 0 THEN ttl - 1 ELSE 0
    /\ owner' = IF ttl > 1 THEN owner ELSE NoOwner
    /\ renewAge' = [i \in Instances |->
          IF started[i] /\ renewAge[i] < RenewEvery THEN renewAge[i] + 1
                                                    ELSE renewAge[i]]
    /\ pipe' = [i \in Instances |-> [k \in DOMAIN pipe[i] |->
          [pipe[i][k] EXCEPT !.age = IF @ < Latency THEN @ + 1 ELSE @]]]
    /\ UNCHANGED <<local, failures>>

Process(i) ==
    \/ Start(i) \/ Retry(i) \/ Renew(i) \/ Stop(i) \/ StopAgain(i)
    \/ AcquireTimesOut(i) \/ Reply(i) \/ Crash(i)

Next ==
    \/ \E i \in Instances : Process(i)
    \/ \E i \in Instances : Redis(i) \/ CommandFails(i)
    \/ Tick

Spec == Init /\ [][Next]_vars

\* Interval callbacks, replies and Redis make progress and time passes;
\* nothing obliges a process to start or stop, and failures are bounded.
Fairness ==
    /\ WF_vars(Tick)
    /\ \A i \in Instances : /\ WF_vars(Retry(i))
                            /\ WF_vars(Renew(i))
                            /\ WF_vars(Reply(i))
                            /\ WF_vars(Redis(i))

FairSpec == Spec /\ Fairness

-----------------------------------------------------------------------------
(* Properties *)

\* The types of the variables; the key exists exactly when it has an owner.
TypeOK ==
    /\ owner \in Instances \union {NoOwner}
    /\ ttl \in 0..TTL /\ (ttl = 0 <=> owner = NoOwner)
    /\ started \in [Instances -> BOOLEAN] /\ leaderLock \in [Instances -> BOOLEAN]
    /\ provider \in [Instances -> BOOLEAN] /\ hooks \in [Instances -> BOOLEAN]
    /\ runnerOn \in [Instances -> BOOLEAN] /\ stopped \in [Instances -> BOOLEAN]
    /\ renewAge \in [Instances -> 0..RenewEvery]
    /\ pipe \in [Instances -> Seq(Command)]
    /\ failures \in Nat

Leads(i) == started[i] /\ leaderLock[i]

\* When timers and round trips are on time, an instance that takes itself for
\* the leader owns the lock key at Redis: its renewals come before the key
\* expires, whatever crashes, failed commands, timeouts and stops occur around
\* it.  So no two instances lead at once.
LeaderHoldsLock == \A i \in Instances : Leads(i) => owner = i

\* The runner of a started instance is on exactly while it leads: leadership
\* never comes or goes without its hook.  Documented by "Attempt immediately;
\* keep retrying until acquired."
LeaderRuns == \A i \in Instances : started[i] => (runnerOn[i] <=> leaderLock[i])

\* "To ensure only one instance is actively scheduling timers [...] enable
\* leader lease gating": two instances that lead at once do not do so forever: the one that lost
\* the key notices it when it renews.
SplitBrainHeals ==
    \A i, j \in Instances :
        i # j => (Leads(i) /\ Leads(j) ~> ~(Leads(i) /\ Leads(j)))

\* While some instance is started, leadership is eventually taken: a crashed
\* leader, a lost answer or a leaked lock does not block the others for ever.
SomeoneLeads ==
    (\E i \in Instances : started[i])
        ~> ((\E i \in Instances : Leads(i)) \/ \A i \in Instances : ~started[i])

\* Leadership as LeaderLease has it: nobody is elected while another leads.
Lease == INSTANCE LeaderLease WITH leaders <- {i \in Instances : Leads(i)}

LeaseSpec == Lease!Spec
=============================================================================
