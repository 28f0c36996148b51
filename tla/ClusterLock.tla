----------------------------- MODULE ClusterLock -----------------------------
(***************************************************************************)
(* The distributed lock of packages/workers/src/ClusterLock.ts: several    *)
(* processes and one key of Redis.  The value of the key is the id of the  *)
(* process that set it; a process remembers the locks it holds in           *)
(* activeLocks, with the time they expire, and its heartbeat extends them.  *)
(*                                                                         *)
(* Commands travel over the connection of a process in order: pipe[p] lists *)
(* those Redis has not executed, oldest first.  A step is a call, a          *)
(* heartbeat, the execution of a command with the continuation of its       *)
(* reply, or one tick of real time.                                        *)
(*                                                                         *)
(* The heartbeat, release() and forceRelease() read the key and write it  *)
(* by a second command: anything may happen to the key between the two.     *)
(*                                                                         *)
(* The heartbeat comes on time, and a call, its two commands included,      *)
(* survives at most Latency ticks.                                         *)
(***************************************************************************)
EXTENDS Integers, Sequences

CONSTANTS
    Procs,      \* processes
    Nobody,     \* value of a key that does not exist
    Former,     \* the id of a process that died: its next life has another
    Lifetimes,  \* ttls that callers ask for, in ticks
    TTL,        \* the longest of them, or more
    BeatEvery,  \* period of the heartbeat, in ticks (10 s)
    ExtendBelow,\* time to expiry below which the heartbeat extends a lock (30 s)
    ExtendBy,   \* what it extends the lock by, beyond the time left (60 s)
    Latency,    \* longest time a call takes
    Faults,     \* what may fail: calls (by name), "crash"
    MaxFaults,  \* bound: faults and calls of forceRelease()
    MaxPipe     \* bound: no call begins with so many commands of two processes in flight

ASSUME LockAssumption ==
    /\ Nobody \notin Procs /\ Former \notin Procs /\ Nobody # Former
    /\ TTL \in Nat \ {0} /\ Lifetimes \subseteq 1..TTL
    /\ BeatEvery \in Nat \ {0} /\ ExtendBelow \in Nat /\ ExtendBy \in Nat \ {0}
    /\ Latency \in Nat
    /\ Faults \subseteq {"acquire", "beat", "release", "force", "crash"}
    /\ MaxFaults \in Nat /\ MaxPipe \in Nat

VARIABLES
    owner,   \* value of the key
    ttl,     \* ticks until the key expires, 0 when it does not exist
    mode,    \* "down", "up" once initialized, "closing" after shutdown()
    using,   \* a caller's acquire() returned true and it has not released
    entry,   \* activeLocks has the lock
    left,    \* ticks until that entry's expiresAt
    since,   \* ticks since the heartbeat interval last fired
    pipe,    \* commands in flight, oldest first
    faults,  \* faults and calls of forceRelease() so far
    forced,  \* history: forceRelease() was called
    risky    \* history: another call that reads and then writes the key was at risk

key == <<owner, ttl>>
local == <<entry, left>>
process == <<mode, using, since>>
history == <<faults, forced, risky>>
vars == <<key, local, process, pipe, history>>

Calls == {"acquire", "beat", "release", "force"}

\* call: the function that sent the command; ttl: what it asks for; spent:
\* ticks since the call began; info: the entry the heartbeat read is still the
\* one in activeLocks; own: forceRelease() found its own id
Command == [op : {"set", "get", "expire", "del"}, call : Calls, ttl : Int,
            spent : Nat, info : BOOLEAN, own : BOOLEAN]

Put(f, p, v) == [f EXCEPT ![p] = v]

Init ==
    /\ owner = Nobody /\ ttl = 0
    /\ mode = [p \in Procs |-> "down"]
    /\ using = [p \in Procs |-> FALSE]
    /\ entry = [p \in Procs |-> FALSE]
    /\ left = [p \in Procs |-> 0]
    /\ since = [p \in Procs |-> 0]
    /\ pipe = [p \in Procs |-> <<>>]
    /\ faults = 0 /\ forced = FALSE /\ risky = FALSE

-----------------------------------------------------------------------------
(* Calls *)

Cmd(op, call, t) == [op |-> op, call |-> call, ttl |-> t, spent |-> 0,
                     info |-> TRUE, own |-> FALSE]

Send(p, c) == pipe' = Put(pipe, p, Append(pipe[p], c))

\* Nothing in the code keeps a caller from calling: the bound does.
Room(p) == /\ Len(pipe[p]) < MaxPipe
           /\ \A q \in Procs \ {p} : Len(pipe[p]) + Len(pipe[q]) < MaxPipe

Up(p) == mode[p] = "up"
InFlight(p, call) == \E k \in DOMAIN pipe[p] : pipe[p][k].call = call

\* release() and the heartbeat read the key and then write it.  They risk to write
\* a key that is no longer their own if it may expire before they are through, or
\* if certain other calls of the same process are in flight.
Risks(p, calls) ==
    risky' = (\/ risky
              \/ left[p] <= Latency \/ (owner = p /\ ttl <= Latency)
              \/ \E call \in calls : InFlight(p, call))

\* initialize(): the connection and the heartbeat, once in a process's life
Initialize(p) ==
    /\ mode[p] = "down"
    /\ mode' = Put(mode, p, "up")
    /\ UNCHANGED <<key, local, using, since, pipe, history>>

\* acquire(): SET key id EX ttl NX
Acquire(p, n) ==
    /\ Up(p) /\ ~using[p]
    /\ ~InFlight(p, "acquire") /\ Room(p)
    /\ Send(p, Cmd("set", "acquire", n))
    /\ UNCHANGED <<key, local, process, history>>


\* release()
Release(p) ==
    /\ Up(p) /\ using[p] /\ Room(p)
    /\ Send(p, Cmd("get", "release", 0))
    /\ Risks(p, {"acquire", "release"})
    /\ using' = Put(using, p, FALSE)
    /\ UNCHANGED <<key, local, mode, since, faults, forced>>

\* forceRelease(), by the operator of any process
ForceRelease(p) ==
    /\ Up(p) /\ faults < MaxFaults /\ Room(p)
    /\ Send(p, Cmd("get", "force", 0))
    /\ faults' = faults + 1
    /\ forced' = TRUE
    /\ UNCHANGED <<key, local, process, risky>>

\* the heartbeat looks after the locks that expire soon
Beats(p) == entry[p] /\ left[p] < ExtendBelow

Beat(p) ==
    /\ Up(p) /\ since[p] = BeatEvery
    /\ since' = Put(since, p, 0)
    /\ IF Beats(p) THEN Send(p, Cmd("get", "beat", left[p] + ExtendBy)) /\ Risks(p, Calls)
                   ELSE UNCHANGED <<pipe, risky>>
    /\ UNCHANGED <<key, local, mode, using, faults, forced>>

\* shutdown(): no more heartbeats, and the lock that is held is released
Shutdown(p) ==
    /\ Up(p) /\ Room(p)
    /\ mode' = Put(mode, p, "closing")
    /\ using' = Put(using, p, FALSE)
    /\ since' = Put(since, p, 0)
    /\ IF entry[p] THEN Send(p, Cmd("get", "release", 0)) /\ Risks(p, {"acquire", "release"})
                   ELSE UNCHANGED <<pipe, risky>>
    /\ UNCHANGED <<key, local, faults, forced>>

\* the process ends; what Redis has not executed is lost with the connection
Ends(p) ==
    /\ owner' = IF owner = p THEN Former ELSE owner
    /\ mode' = Put(mode, p, "down")
    /\ using' = Put(using, p, FALSE)
    /\ since' = Put(since, p, 0)
    /\ entry' = Put(entry, p, FALSE)
    /\ left' = Put(left, p, 0)
    /\ pipe' = Put(pipe, p, <<>>)
    /\ UNCHANGED <<ttl, forced, risky>>

\* shutdown() waits for the replies before it quits
Exit(p) == mode[p] = "closing" /\ pipe[p] = <<>> /\ Ends(p) /\ UNCHANGED faults

Crash(p) ==
    /\ mode[p] # "down"
    /\ "crash" \in Faults /\ faults < MaxFaults
    /\ faults' = faults + 1
    /\ Ends(p)

-----------------------------------------------------------------------------
(* The commands, each with the continuation of its reply *)

Remember(p, t) == entry' = Put(entry, p, TRUE) /\ left' = Put(left, p, t)
Forget(p) == entry' = Put(entry, p, FALSE) /\ left' = Put(left, p, 0)

Gone == owner' = Nobody /\ ttl' = 0

Rest(p) == Tail(pipe[p])
Done(p) == pipe' = Put(pipe, p, Rest(p))
ThenSends(p, c) == pipe' = Put(pipe, p, Append(Rest(p), c))

\* Seeded fault: SET without NX
SetAnyway(p, c) ==
    /\ c.op = "set"
    /\ owner' = p /\ ttl' = c.ttl
    /\ Remember(p, c.ttl - c.spent)
    /\ using' = Put(using, p, Up(p))
    /\ Done(p)

\* SET NX of acquire(): the lock is entered and its caller told
Set(p, c) ==
    /\ c.op = "set"
    /\ IF ttl = 0
       THEN /\ owner' = p /\ ttl' = c.ttl
            /\ Remember(p, c.ttl - c.spent)
            /\ using' = Put(using, p, Up(p))
            /\ pipe' = Put(pipe, p, [k \in DOMAIN Rest(p) |->
                                       [Rest(p)[k] EXCEPT !.info = FALSE]])
       ELSE UNCHANGED <<key, local, using>> /\ Done(p)

\* Seeded fault: the heartbeat extends the lock whoever holds it
GetUnchecked(p, c) ==
    /\ c.op = "get"
    /\ \/ /\ c.call = "beat" /\ ttl > 0
          /\ ThenSends(p, [c EXCEPT !.op = "expire"])
          /\ UNCHANGED local
       \/ /\ c.call = "beat" /\ ttl = 0
          /\ Done(p) /\ Forget(p)
       \/ /\ \/ c.call = "release" /\ owner = p
             \/ c.call = "force" /\ ttl > 0
          /\ ThenSends(p, [c EXCEPT !.op = "del", !.own = owner = p])
          /\ UNCHANGED local
       \/ /\ \/ c.call = "release" /\ owner # p
             \/ c.call = "force" /\ ttl = 0
          /\ Done(p)
          /\ UNCHANGED local
    /\ UNCHANGED <<key, using>>

\* GET: what the call goes on to do depends on whose id it finds
Get(p, c) ==
    /\ c.op = "get"
    /\ \/ /\ c.call = "beat" /\ owner = p
          /\ ThenSends(p, [c EXCEPT !.op = "expire"])
          /\ UNCHANGED local
       \/ /\ c.call = "beat" /\ owner # p
          /\ Done(p) /\ Forget(p)
       \/ /\ \/ c.call = "release" /\ owner = p
             \/ c.call = "force" /\ ttl > 0
          /\ ThenSends(p, [c EXCEPT !.op = "del", !.own = owner = p])
          /\ UNCHANGED local
       \/ /\ \/ c.call = "release" /\ owner # p
             \/ c.call = "force" /\ ttl = 0
          /\ Done(p)
          /\ UNCHANGED local
    /\ UNCHANGED <<key, using>>

\* EXPIRE of the heartbeat: the entry expires as from when the heartbeat began
Expire(p, c) ==
    /\ c.op = "expire"
    /\ Done(p)
    /\ IF ttl = 0
       THEN Forget(p) /\ UNCHANGED key
       ELSE /\ IF c.ttl > 0 THEN ttl' = c.ttl /\ UNCHANGED owner ELSE Gone
            /\ IF entry[p] /\ c.info THEN Remember(p, c.ttl - c.spent)
                                     ELSE UNCHANGED local
    /\ UNCHANGED using

\* DEL of release() and forceRelease()
Del(p, c) ==
    /\ c.op = "del"
    /\ Gone
    /\ Done(p)
    /\ IF c.own THEN Forget(p) ELSE UNCHANGED local
    /\ UNCHANGED using

Redis(p) ==
    /\ pipe[p] # <<>>
    /\ LET c == Head(pipe[p])
       IN  Set(p, c) \/ Get(p, c) \/ Expire(p, c) \/ Del(p, c)
    /\ UNCHANGED <<mode, since, history>>

\* Seeded fault: a heartbeat that fails gives the lock up
DropsEntry(p, c) == IF c.call = "beat" THEN Forget(p) ELSE UNCHANGED local

\* what a caller does about an error: it logs it and throws, or goes on
AfterError(p, c) == UNCHANGED local

\* the command fails for its caller; it was executed or not
CommandFails(p) ==
    /\ pipe[p] # <<>>
    /\ LET c == Head(pipe[p])
       IN  /\ c.call \in Faults
           /\ \/ UNCHANGED key
              \/ c.op = "set" /\ ttl = 0 /\ owner' = p /\ ttl' = c.ttl
              \/ c.op = "expire" /\ ttl > 0 /\ c.ttl > 0 /\ ttl' = c.ttl
                                                      /\ UNCHANGED owner
              \/ c.op = "del" /\ Gone
           /\ AfterError(p, c)
    /\ faults < MaxFaults
    /\ faults' = faults + 1
    /\ Done(p)
    /\ UNCHANGED <<process, forced, risky>>

-----------------------------------------------------------------------------
(* Real time *)

OnTime == \A p \in Procs : /\ since[p] < BeatEvery
                           /\ \A k \in DOMAIN pipe[p] : pipe[p][k].spent < Latency

Tick ==
    /\ OnTime
    /\ ttl' = IF ttl > 0 THEN ttl - 1 ELSE 0
    /\ owner' = IF ttl > 1 THEN owner ELSE Nobody
    /\ left' = [p \in Procs |->
                  IF entry[p] /\ left[p] > -ExtendBy THEN left[p] - 1 ELSE left[p]]
    /\ since' = [p \in Procs |-> IF Up(p) THEN since[p] + 1 ELSE 0]
    /\ pipe' = [p \in Procs |-> [k \in DOMAIN pipe[p] |->
                  [pipe[p][k] EXCEPT !.spent = @ + 1]]]
    /\ UNCHANGED <<entry, mode, using, history>>

Next ==
    \/ \E p \in Procs :
          \/ Initialize(p) \/ Release(p) \/ \E n \in Lifetimes : Acquire(p, n)
          \/ ForceRelease(p) \/ Beat(p)
          \/ Shutdown(p) \/ Exit(p) \/ Crash(p)
          \/ Redis(p) \/ CommandFails(p)
    \/ Tick

Spec == Init /\ [][Next]_vars

\* Heartbeats and Redis make progress and time passes; no call has to
\* be made, and faults are bounded.
Fairness ==
    /\ WF_vars(Tick)
    /\ \A p \in Procs : WF_vars(Beat(p)) /\ WF_vars(Redis(p))

FairSpec == Spec /\ Fairness

-----------------------------------------------------------------------------
(* Properties *)

\* The types of the variables; extensions of the key do not add up.
TypeOK ==
    /\ owner \in Procs \union {Nobody, Former}
    /\ ttl \in 0..(TTL + ExtendBelow + ExtendBy) /\ (ttl = 0 <=> owner = Nobody)
    /\ using \in [Procs -> BOOLEAN] /\ entry \in [Procs -> BOOLEAN]
    /\ left \in [Procs -> Int]
    /\ mode \in [Procs -> {"down", "up", "closing"}]
    /\ since \in [Procs -> 0..BeatEvery]
    /\ pipe \in [Procs -> Seq(Command)]
    /\ faults \in 0..MaxFaults /\ forced \in BOOLEAN /\ risky \in BOOLEAN

\* A caller whose acquire() returned true owns the key as long as the time its
\* process remembers for it (expiresAt) lies ahead, whatever the lifetime asked
\* for, and whatever crashes, fails or is late: no release or extension of
\* another process touches a key it does not own, although each reads before it
\* writes, and a heartbeat never remembers more time than it gave the key.  The
\* code promises no more: a forced release ends it, and so does a call at risk.
SectionExclusive ==
    ~forced /\ ~risky => \A p \in Procs : using[p] /\ left[p] > 0 => owner = p

\* A lock that is in use is in activeLocks, where the heartbeat finds it:
\* replies to an older heartbeat, extension or release of the same key never
\* remove the entry of the acquire that followed them.
InCare == \A p \in Procs : using[p] /\ owner = p => entry[p]

\* A process whose lock was force-released and perhaps taken by another does not
\* count it among its active locks for ever, even if a heartbeat was
\* between its read and its write: a later heartbeat notices.
LossIsNoticed ==
    \A p \in Procs : (Up(p) /\ entry[p] /\ owner # p)
                        ~> (~Up(p) \/ ~entry[p] \/ owner = p)

\* A key nobody uses is free in the end: after a crash, an acquire whose reply
\* was lost, a shutdown or a release the heartbeat does not keep it alive.
Used == \E p \in Procs : owner = p /\ using[p]

=============================================================================
