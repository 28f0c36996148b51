------------------------ MODULE SchedulerLeaderProofs ------------------------
(* Proofs about SchedulerLeader: the types of its variables; that leadership  *)
(* never comes or goes without its hook; and that, while timers and round      *)
(* trips are on time and the lock outlives one renewal period and three round  *)
(* trips, an instance that takes itself for the leader owns the lock, so that  *)
(* the leadership of LeaderLease is implemented.                              *)
EXTENDS SchedulerLeader, TLAPS

Releases(s) == \E k \in DOMAIN s : s[k].cmd = "release"

OneRelease(s) ==
    \A k, m \in DOMAIN s : s[k].cmd = "release" /\ s[m].cmd = "release" => k = m

Young(s) == \A k \in DOMAIN s : s[k].age <= Latency

\* What is known of one instance if start() is called once in a process.
Local(i) ==
    /\ started[i] => /\ ~stopped[i] /\ hooks[i] /\ provider[i]
                     /\ runnerOn[i] <=> leaderLock[i]
    /\ ~started[i] /\ ~stopped[i] => /\ ~leaderLock[i] /\ ~runnerOn[i]
                                     /\ pipe[i] = <<>>
    /\ Releases(pipe[i]) => stopped[i]
    /\ OneRelease(pipe[i])

Inv ==
    /\ TypeOK
    /\ \A i \in Instances : Young(pipe[i])
    /\ ~Restart => \A i \in Instances : Local(i)

-----------------------------------------------------------------------------
(* Pipes *)

LEMMA AppendPipe ==
    ASSUME NEW s \in Seq(Command), NEW c \in Command
    PROVE  /\ Append(s, c) \in Seq(Command)
           /\ DOMAIN s = 1..Len(s) /\ Len(s) \in Nat /\ DOMAIN Append(s, c) = 1..(Len(s) + 1)
           /\ Append(s, c)[Len(s) + 1] = c
           /\ \A k \in DOMAIN s : k \in DOMAIN Append(s, c) /\ Append(s, c)[k] = s[k]
           /\ \A k \in DOMAIN Append(s, c) :
                 \/ k \in DOMAIN s /\ Append(s, c)[k] = s[k]
                 \/ k = Len(s) + 1 /\ Append(s, c)[k] = c
  OBVIOUS

LEMMA TailPipe ==
    ASSUME NEW s \in Seq(Command), s # <<>>
    PROVE  /\ Tail(s) \in Seq(Command) /\ Head(s) \in Command
           /\ 1 \in DOMAIN s /\ Head(s) = s[1]
           /\ \A k \in DOMAIN Tail(s) : /\ k \in Nat /\ k > 0 /\ k + 1 \in DOMAIN s
                                        /\ Tail(s)[k] = s[k + 1]
           /\ \A k \in DOMAIN s : k # 1 => /\ k \in Nat /\ k - 1 \in DOMAIN Tail(s)
                                           /\ Tail(s)[k - 1] = s[k]
  OBVIOUS

\* One command of a pipe changes.
LEMMA SetPipe ==
    ASSUME NEW s \in Seq(Command), NEW k \in DOMAIN s, NEW d \in Command
    PROVE  /\ [s EXCEPT ![k] = d] \in Seq(Command)
           /\ DOMAIN [s EXCEPT ![k] = d] = DOMAIN s
           /\ [s EXCEPT ![k] = d][k] = d
           /\ \A m \in DOMAIN s : m # k => [s EXCEPT ![k] = d][m] = s[m]
  OBVIOUS

\* What a pipe may become in a step that sends no release.
Follows(t, s) ==
    /\ t \in Seq(Command) /\ Young(t)
    /\ Releases(t) => Releases(s)
    /\ OneRelease(s) => OneRelease(t)

LEMMA AppendFollows ==
    ASSUME NEW s \in Seq(Command), Young(s), NEW c \in Command, c.age = 0,
           c.cmd # "release"
    PROVE  Follows(Append(s, c), s)
  <1> DEFINE t == Append(s, c)
  <1>1. /\ t \in Seq(Command)
        /\ \A k \in DOMAIN t : (k \in DOMAIN s /\ t[k] = s[k]) \/ t[k] = c
    BY AppendPipe
  <1> HIDE DEF t
  <1>2. Young(t)
    BY <1>1, LeaderAssumption DEF Young
  <1>3. (Releases(t) => Releases(s)) /\ (OneRelease(s) => OneRelease(t))
    BY <1>1 DEF Releases, OneRelease
  <1>4. Follows(t, s)
    BY <1>1, <1>2, <1>3 DEF Follows
  <1> QED BY <1>4 DEF t

LEMMA TailFollows ==
    ASSUME NEW s \in Seq(Command), Young(s), s # <<>>
    PROVE  Follows(Tail(s), s)
  <1>1. /\ Tail(s) \in Seq(Command)
        /\ \A k \in DOMAIN Tail(s) : /\ k \in Nat /\ k + 1 \in DOMAIN s
                                     /\ Tail(s)[k] = s[k + 1]
    BY TailPipe
  <1>2. Young(Tail(s)) /\ (Releases(Tail(s)) => Releases(s))
    BY <1>1 DEF Young, Releases
  <1>3. ASSUME OneRelease(s), NEW k \in DOMAIN Tail(s), NEW m \in DOMAIN Tail(s),
               Tail(s)[k].cmd = "release", Tail(s)[m].cmd = "release"
        PROVE  k = m
    <2>1. k + 1 = m + 1
      BY <1>1, <1>3 DEF OneRelease
    <2> QED BY <1>1, <2>1
  <1> QED BY <1>1, <1>2, <1>3 DEF Follows, OneRelease

\* The same commands, of other ages or differently answered.
LEMMA SameFollows ==
    ASSUME NEW s, NEW t \in Seq(Command), Young(t), DOMAIN t = DOMAIN s,
           \A k \in DOMAIN s : t[k].cmd = s[k].cmd
    PROVE  Follows(t, s)
  BY DEF Follows, Releases, OneRelease

\* A command is answered, or its caller stops waiting.
LEMMA AnsweredFollows ==
    ASSUME NEW s \in Seq(Command), Young(s), NEW k \in DOMAIN s, NEW d \in Command,
           d.cmd = s[k].cmd, d.age = s[k].age
    PROVE  Follows([s EXCEPT ![k] = d], s)
  <1> DEFINE t == [s EXCEPT ![k] = d]
  <1>1. /\ t \in Seq(Command) /\ DOMAIN t = DOMAIN s /\ t[k] = d
        /\ \A m \in DOMAIN s : m # k => t[m] = s[m]
    BY SetPipe
  <1> HIDE DEF t
  <1>2. Young(t) /\ \A m \in DOMAIN s : t[m].cmd = s[m].cmd
    BY <1>1 DEF Young
  <1>3. Follows(t, s)
    BY <1>1, <1>2, SameFollows
  <1> QED BY <1>3 DEF t

LEMMA EmptyPipe == /\ <<>> \in Seq(Command) /\ Young(<<>>)
                   /\ ~Releases(<<>>) /\ OneRelease(<<>>)
  BY DEF Young, Releases, OneRelease

\* Sending a command.
NewCommand(c) == [cmd |-> c, live |-> TRUE, age |-> 0, res |-> "pending"]

LEMMA NewCommandType ==
    \A c \in {"acquire", "extend", "release"} :
        /\ NewCommand(c) \in Command /\ NewCommand(c).cmd = c
        /\ NewCommand(c).age = 0 /\ NewCommand(c).res = "pending"
  BY DEF NewCommand, Command

LEMMA SendIs ==
    ASSUME NEW i, NEW c, Send(i, c)
    PROVE  pipe' = [pipe EXCEPT ![i] = Append(pipe[i], NewCommand(c))]
  BY DEF Send, Put, NewCommand

\* An instance whose pipe is followed by another one.
LEMMA PipesChange ==
    ASSUME Inv, NEW i \in Instances, NEW t \in Seq(Command), Young(t),
           pipe' = [pipe EXCEPT ![i] = t]
    PROVE  /\ pipe' \in [Instances -> Seq(Command)] /\ pipe'[i] = t
           /\ \A j \in Instances : j # i => pipe'[j] = pipe[j]
           /\ \A j \in Instances : Young(pipe'[j])
  <1>1. pipe \in [Instances -> Seq(Command)]
    BY DEF Inv, TypeOK
  <1>2. /\ pipe' \in [Instances -> Seq(Command)] /\ pipe'[i] = t
        /\ \A j \in Instances : j # i => pipe'[j] = pipe[j]
    BY <1>1
  <1> QED BY <1>2 DEF Inv

Same(j) ==
    /\ started'[j] = started[j] /\ leaderLock'[j] = leaderLock[j]
    /\ provider'[j] = provider[j] /\ hooks'[j] = hooks[j]
    /\ runnerOn'[j] = runnerOn[j] /\ stopped'[j] = stopped[j]
    /\ pipe'[j] = pipe[j]

LEMMA LocalStays ==
    ASSUME NEW j \in Instances, Local(j), Same(j)
    PROVE  Local(j)'
  BY DEF Local, Same

\* A step of one instance.
LEMMA OneChanges ==
    ASSUME Inv, TypeOK', \A j \in Instances : Young(pipe'[j]),
           NEW i \in Instances, \A j \in Instances : j # i => Same(j),
           ~Restart => Local(i)'
    PROVE  Inv'
  <1>1. ASSUME ~Restart, NEW j \in Instances PROVE Local(j)'
    BY <1>1, LocalStays DEF Inv
  <1> QED BY <1>1 DEF Inv

\* An instance, once its flags and its pipe have their types, has its types.
Flags == /\ started \in [Instances -> BOOLEAN] /\ leaderLock \in [Instances -> BOOLEAN]
         /\ provider \in [Instances -> BOOLEAN] /\ hooks \in [Instances -> BOOLEAN]
         /\ runnerOn \in [Instances -> BOOLEAN] /\ stopped \in [Instances -> BOOLEAN]

LEMMA InitInv == Init => Inv
  <1> SUFFICES ASSUME Init PROVE Inv
    OBVIOUS
  <1>1. TypeOK
    BY LeaderAssumption, EmptyPipe DEF Init, TypeOK
  <1>2. \A i \in Instances : Young(pipe[i]) /\ Local(i)
    BY EmptyPipe DEF Init, Local
  <1> QED BY <1>1, <1>2 DEF Inv

\* What a step does to the pipe of its instance, unless it sends a release.
PipeStep(i) ==
    /\ pipe' \in [Instances -> Seq(Command)]
    /\ \A j \in Instances : Young(pipe'[j])
    /\ \A j \in Instances : j # i => pipe'[j] = pipe[j]
    /\ Releases(pipe[i])' => Releases(pipe[i])
    /\ OneRelease(pipe[i]) => OneRelease(pipe[i])'

LEMMA Pipes ==
    ASSUME Inv, NEW i \in Instances
    PROVE  /\ pipe[i] \in Seq(Command) /\ Young(pipe[i])
           /\ UNCHANGED pipe => PipeStep(i)
           /\ \A t : /\ pipe' = [pipe EXCEPT ![i] = t]
                     /\ Follows(t, pipe[i])
                     => PipeStep(i) /\ pipe'[i] = t
           /\ \A c \in {"acquire", "extend"} : Send(i, c) => PipeStep(i)
  <1>1. pipe \in [Instances -> Seq(Command)] /\ pipe[i] \in Seq(Command) /\ Young(pipe[i])
    BY DEF Inv, TypeOK
  <1>2. UNCHANGED pipe => PipeStep(i)
    BY <1>1 DEF Inv, PipeStep
  <1>3. ASSUME NEW t, pipe' = [pipe EXCEPT ![i] = t], Follows(t, pipe[i])
        PROVE  PipeStep(i) /\ pipe'[i] = t
    <2>1. t \in Seq(Command) /\ Young(t)
      BY <1>3 DEF Follows
    <2>2. /\ pipe' \in [Instances -> Seq(Command)] /\ pipe'[i] = t
          /\ \A j \in Instances : j # i => pipe'[j] = pipe[j]
          /\ \A j \in Instances : Young(pipe'[j])
      BY <1>3, <2>1, PipesChange
    <2> QED BY <1>3, <2>2 DEF PipeStep, Follows
  <1>4. ASSUME NEW c \in {"acquire", "extend"}, Send(i, c) PROVE PipeStep(i)
    <2>1. pipe' = [pipe EXCEPT ![i] = Append(pipe[i], NewCommand(c))]
      BY <1>4, SendIs
    <2>2. Follows(Append(pipe[i], NewCommand(c)), pipe[i])
      BY <1>1, NewCommandType, AppendFollows
    <2> QED BY <1>3, <2>1, <2>2
  <1> QED BY <1>1, <1>2, <1>3, <1>4

\* What of the types is left to show when the key and the failures stay.
LEMMA StaysTyped ==
    ASSUME TypeOK, UNCHANGED lock, failures' \in Nat, Flags',
           renewAge' \in [Instances -> 0..RenewEvery],
           pipe' \in [Instances -> Seq(Command)]
    PROVE  TypeOK'
  BY DEF TypeOK, Flags, lock

LEMMA ZeroAge == 0 \in 0..RenewEvery
  BY LeaderAssumption

-----------------------------------------------------------------------------
(* Types and hooks: the actions *)

LEMMA StartKeeps ==
    ASSUME Inv, NEW i \in Instances, Start(i)
    PROVE  Inv'
  <1> USE DEF Start, Put
  <1>1. PipeStep(i)
    BY Pipes
  <1>2. Flags' /\ renewAge' \in [Instances -> 0..RenewEvery] /\ failures' \in Nat
    BY ZeroAge DEF Inv, TypeOK, Flags
  <1>3. TypeOK'
    BY <1>1, <1>2, StaysTyped DEF Inv, PipeStep
  <1>4. \A j \in Instances : j # i => Same(j)
    BY <1>1 DEF Inv, TypeOK, PipeStep, Same
  <1>5. ASSUME ~Restart PROVE Local(i)'
    <2>1. Local(i) /\ ~stopped[i] /\ ~started[i]
      BY <1>5 DEF Inv
    <2>2. ~leaderLock[i] /\ ~runnerOn[i] /\ ~Releases(pipe[i]) /\ OneRelease(pipe[i])
      BY <2>1 DEF Local
    <2>3. /\ started'[i] /\ ~stopped'[i] /\ hooks'[i] /\ provider'[i]
          /\ ~runnerOn'[i] /\ ~leaderLock'[i]
      BY <2>1, <2>2 DEF Inv, TypeOK
    <2> QED BY <1>1, <2>2, <2>3 DEF Local, PipeStep
  <1> QED BY <1>1, <1>3, <1>4, <1>5, OneChanges DEF PipeStep

LEMMA RetryKeeps ==
    ASSUME Inv, NEW i \in Instances, Retry(i)
    PROVE  Inv'
  <1> USE DEF Retry, Put
  <1>1. PipeStep(i)
    BY Pipes
  <1>2. Flags' /\ renewAge' \in [Instances -> 0..RenewEvery] /\ failures' \in Nat
    BY DEF Inv, TypeOK, Flags
  <1>3. TypeOK'
    BY <1>1, <1>2, StaysTyped DEF Inv, PipeStep
  <1>4. \A j \in Instances : j # i => Same(j)
    BY <1>1 DEF Inv, TypeOK, PipeStep, Same
  <1>5. ASSUME ~Restart PROVE Local(i)'
    <2>1. Local(i) /\ provider'[i]
      BY <1>5 DEF Inv, TypeOK
    <2> QED BY <1>1, <2>1 DEF Local, PipeStep
  <1> QED BY <1>1, <1>3, <1>4, <1>5, OneChanges DEF PipeStep

LEMMA RenewKeeps ==
    ASSUME Inv, NEW i \in Instances, Renew(i)
    PROVE  Inv'
  <1> USE DEF Renew, Put, local
  <1>1. PipeStep(i)
    BY Pipes
  <1>2. Flags' /\ renewAge' \in [Instances -> 0..RenewEvery] /\ failures' \in Nat
    BY ZeroAge DEF Inv, TypeOK, Flags
  <1>3. TypeOK'
    BY <1>1, <1>2, StaysTyped DEF Inv, PipeStep
  <1>4. \A j \in Instances : j # i => Same(j)
    BY <1>1 DEF PipeStep, Same
  <1>5. ASSUME ~Restart PROVE Local(i)'
    <2>1. Local(i)
      BY <1>5 DEF Inv
    <2> QED BY <1>1, <2>1 DEF Local, PipeStep
  <1> QED BY <1>1, <1>3, <1>4, <1>5, OneChanges DEF PipeStep

\* The first release of a process is its only one.
LEMMA StopKeeps ==
    ASSUME Inv, NEW i \in Instances, Stop(i)
    PROVE  Inv'
  <1> USE DEF Stop, Put
  <1>1. pipe[i] \in Seq(Command) /\ Young(pipe[i])
    BY Pipes
  <1>2. CASE ~(leaderLock[i] /\ provider[i]) /\ FinishStop(i) /\ UNCHANGED pipe
    <2>1. PipeStep(i)
      BY <1>2, Pipes
    <2>2. Flags' /\ renewAge' \in [Instances -> 0..RenewEvery] /\ failures' \in Nat
      BY <1>2, ZeroAge DEF Inv, TypeOK, Flags, FinishStop
    <2>3. TypeOK'
      BY <2>1, <2>2, StaysTyped DEF Inv, PipeStep
    <2>4. \A j \in Instances : j # i => Same(j)
      BY <1>2 DEF Inv, TypeOK, Same, FinishStop
    <2>5. ASSUME ~Restart PROVE Local(i)'
      <3>1. Local(i) /\ ~started'[i] /\ stopped'[i]
        BY <2>5 DEF Inv, TypeOK
      <3> QED BY <2>1, <3>1 DEF Local, PipeStep
    <2> QED BY <2>1, <2>3, <2>4, <2>5, OneChanges DEF PipeStep
  <1>3. CASE /\ leaderLock[i] /\ provider[i] /\ Send(i, "release")
             /\ UNCHANGED <<leaderLock, provider, hooks, runnerOn>>
    <2> DEFINE s == pipe[i]
               t == Append(s, NewCommand("release"))
    <2>1. /\ t \in Seq(Command) /\ DOMAIN s = 1..Len(s) /\ Len(s) \in Nat
          /\ \A k \in DOMAIN t : \/ k \in DOMAIN s /\ t[k] = s[k]
                                 \/ k = Len(s) + 1 /\ t[k] = NewCommand("release")
      BY <1>1, NewCommandType, AppendPipe
    <2>2. pipe' = [pipe EXCEPT ![i] = t]
      BY <1>3, SendIs
    <2> HIDE DEF t
    <2>3. Young(t)
      BY <1>1, <2>1, NewCommandType, LeaderAssumption DEF Young
    <2>4. /\ pipe' \in [Instances -> Seq(Command)] /\ pipe'[i] = t
          /\ \A j \in Instances : j # i => pipe'[j] = pipe[j]
          /\ \A j \in Instances : Young(pipe'[j])
      BY <2>1, <2>2, <2>3, PipesChange
    <2>5. Flags' /\ renewAge' \in [Instances -> 0..RenewEvery] /\ failures' \in Nat
      BY <1>3, ZeroAge DEF Inv, TypeOK, Flags
    <2>6. TypeOK'
      BY <2>4, <2>5, StaysTyped DEF Inv
    <2>7. \A j \in Instances : j # i => Same(j)
      BY <1>3, <2>4 DEF Inv, TypeOK, Same
    <2>8. ASSUME ~Restart PROVE Local(i)'
      <3>1. Local(i) /\ ~started'[i] /\ stopped'[i]
        BY <2>8 DEF Inv, TypeOK
      <3>2. ~Releases(s)
        BY <3>1 DEF Local
      <3>3. OneRelease(t)
        BY <2>1, <3>2 DEF OneRelease, Releases
      <3> QED BY <2>4, <3>1, <3>3 DEF Local
    <2> QED BY <2>4, <2>6, <2>7, <2>8, OneChanges
  <1> QED BY <1>2, <1>3

LEMMA StopAgainKeeps ==
    ASSUME Inv, NEW i \in Instances, StopAgain(i)
    PROVE  Inv'
  <1> USE DEF StopAgain, Put
  <1>1. PipeStep(i)
    BY Pipes
  <1>2. Flags' /\ renewAge' \in [Instances -> 0..RenewEvery] /\ failures' \in Nat
    BY DEF Inv, TypeOK, Flags
  <1>3. TypeOK'
    BY <1>1, <1>2, StaysTyped DEF Inv, PipeStep
  <1>4. \A j \in Instances : j # i => Same(j)
    BY <1>1 DEF Inv, TypeOK, PipeStep, Same
  <1>5. ASSUME ~Restart PROVE Local(i)'
    <2>1. Local(i) /\ ~runnerOn'[i]
      BY <1>5 DEF Inv, TypeOK
    <2> QED BY <1>1, <2>1 DEF Local, PipeStep
  <1> QED BY <1>1, <1>3, <1>4, <1>5, OneChanges DEF PipeStep

\* One command of an instance is answered, or its caller stops waiting.
LEMMA CommandChanges ==
    ASSUME Inv, NEW i \in Instances, NEW k \in DOMAIN pipe[i], NEW d \in Command,
           d.cmd = pipe[i][k].cmd, d.age = pipe[i][k].age,
           pipe' = [pipe EXCEPT ![i] = [pipe[i] EXCEPT ![k] = d]]
    PROVE  /\ PipeStep(i) /\ DOMAIN pipe'[i] = DOMAIN pipe[i] /\ pipe'[i][k] = d
           /\ \A m \in DOMAIN pipe[i] : m # k => pipe'[i][m] = pipe[i][m]
  <1> DEFINE t == [pipe[i] EXCEPT ![k] = d]
  <1>1. pipe[i] \in Seq(Command) /\ Young(pipe[i])
    BY Pipes
  <1>2. Follows(t, pipe[i])
    BY <1>1, AnsweredFollows
  <1>3. PipeStep(i) /\ pipe'[i] = t
    BY <1>2, Pipes
  <1>4. /\ DOMAIN t = DOMAIN pipe[i] /\ t[k] = d
        /\ \A m \in DOMAIN pipe[i] : m # k => t[m] = pipe[i][m]
    BY <1>1, SetPipe
  <1> QED BY <1>3, <1>4

\* Nothing but the pipe of an instance, the key and the failures change.
LEMMA OutsideChanges ==
    ASSUME Inv, NEW i \in Instances, PipeStep(i), UNCHANGED <<local, renewAge>>,
           pipe[i] # <<>>,
           failures' \in Nat, owner' \in Instances \union {NoOwner}, ttl' \in 0..TTL,
           ttl' = 0 <=> owner' = NoOwner
    PROVE  Inv'
  <1>1. TypeOK'
    BY DEF Inv, TypeOK, PipeStep, local
  <1>2. \A j \in Instances : j # i => Same(j)
    BY DEF PipeStep, Same, local
  <1>3. ASSUME ~Restart PROVE Local(i)'
    <2>1. Local(i)
      BY <1>3 DEF Inv
    <2> QED BY <2>1 DEF Local, PipeStep, local
  <1> QED BY <1>1, <1>2, <1>3, OneChanges DEF PipeStep

\* A record whose answer, or whose caller, changes.
LEMMA Answered ==
    ASSUME NEW c \in Command
    PROVE  /\ \A r \in {"pending", "yes", "no", "error"} :
                 /\ [c EXCEPT !.res = r] \in Command
                 /\ [c EXCEPT !.res = r].cmd = c.cmd /\ [c EXCEPT !.res = r].age = c.age
                 /\ [c EXCEPT !.res = r].res = r
           /\ /\ [c EXCEPT !.live = FALSE] \in Command
              /\ [c EXCEPT !.live = FALSE].cmd = c.cmd
              /\ [c EXCEPT !.live = FALSE].age = c.age
              /\ [c EXCEPT !.live = FALSE].res = c.res
  BY DEF Command

\* Redis executes a command, or it fails.
ResultOf(i, k, r) ==
    pipe' = [pipe EXCEPT ![i] = [pipe[i] EXCEPT ![k] = [pipe[i][k] EXCEPT !.res = r]]]

LEMMA AnswerSteps ==
    ASSUME Inv, NEW i \in Instances, NEW k \in DOMAIN pipe[i],
           NEW r \in {"pending", "yes", "no", "error"}, ResultOf(i, k, r)
    PROVE  /\ PipeStep(i) /\ DOMAIN pipe'[i] = DOMAIN pipe[i]
           /\ pipe'[i][k] \in Command /\ pipe'[i][k].cmd = pipe[i][k].cmd
           /\ pipe'[i][k].age = pipe[i][k].age /\ pipe'[i][k].res = r
           /\ \A m \in DOMAIN pipe[i] : m # k => pipe'[i][m] = pipe[i][m]
           /\ pipe[i] # <<>> /\ pipe[i][k] \in Command
  <1> DEFINE d == [pipe[i][k] EXCEPT !.res = r]
  <1>1. pipe[i] \in Seq(Command) /\ pipe[i][k] \in Command
    BY Pipes
  <1>2. d \in Command /\ d.cmd = pipe[i][k].cmd /\ d.age = pipe[i][k].age /\ d.res = r
    BY <1>1, Answered
  <1>3. pipe' = [pipe EXCEPT ![i] = [pipe[i] EXCEPT ![k] = d]]
    BY DEF ResultOf
  <1> HIDE DEF d
  <1>4. /\ PipeStep(i) /\ DOMAIN pipe'[i] = DOMAIN pipe[i] /\ pipe'[i][k] = d
        /\ \A m \in DOMAIN pipe[i] : m # k => pipe'[i][m] = pipe[i][m]
    BY <1>2, <1>3, CommandChanges
  <1>5. pipe[i] # <<>>
    OBVIOUS
  <1> QED BY <1>1, <1>2, <1>4, <1>5

\* What executing a command can do to the key.
LEMMA Executes ==
    ASSUME Inv, NEW i \in Instances, NEW c, Execute(i, c) \/ UNCHANGED lock
    PROVE  /\ owner' \in Instances \union {NoOwner} /\ ttl' \in 0..TTL
           /\ ttl' = 0 <=> owner' = NoOwner
  <1>1. TTL \in 0..TTL /\ 0 \in 0..TTL /\ TTL # 0 /\ NoOwner \notin Instances
    BY LeaderAssumption
  <1> QED BY <1>1 DEF Inv, TypeOK, Execute, lock

LEMMA AnswerType == \A c : Answer(c) \in {"pending", "yes", "no", "error"}
  BY DEF Answer

LEMMA RedisKeeps ==
    ASSUME Inv, NEW i \in Instances, Redis(i)
    PROVE  Inv'
  <1>1. PICK k \in DOMAIN pipe[i] :
           /\ Execute(i, pipe[i][k].cmd)
           /\ pipe' = [pipe EXCEPT ![i][k].res = Answer(pipe[i][k].cmd)]
           /\ UNCHANGED <<local, renewAge, failures>>
    BY DEF Redis
  <1>2. ResultOf(i, k, Answer(pipe[i][k].cmd))
    BY <1>1 DEF ResultOf
  <1>3. PipeStep(i) /\ pipe[i] # <<>>
    BY <1>2, AnswerType, AnswerSteps
  <1>4. failures' \in Nat
    BY <1>1 DEF Inv, TypeOK
  <1> QED BY <1>1, <1>3, <1>4, Executes, OutsideChanges

LEMMA CommandFailsKeeps ==
    ASSUME Inv, NEW i \in Instances, CommandFails(i)
    PROVE  Inv'
  <1>1. PICK k \in DOMAIN pipe[i] :
           /\ Execute(i, pipe[i][k].cmd) \/ UNCHANGED lock
           /\ pipe' = [pipe EXCEPT ![i][k].res = "error"]
    BY DEF CommandFails
  <1>2. ResultOf(i, k, "error")
    BY <1>1 DEF ResultOf
  <1>3. PipeStep(i) /\ pipe[i] # <<>>
    BY <1>2, AnswerSteps
  <1>4. failures' \in Nat /\ UNCHANGED <<local, renewAge>>
    BY DEF Inv, TypeOK, CommandFails
  <1> QED BY <1>1, <1>3, <1>4, Executes, OutsideChanges

LEMMA AcquireTimesOutKeeps ==
    ASSUME Inv, NEW i \in Instances, AcquireTimesOut(i)
    PROVE  Inv'
  <1>1. PICK k \in DOMAIN pipe[i] : pipe' = [pipe EXCEPT ![i][k].live = FALSE]
    BY DEF AcquireTimesOut
  <1> DEFINE d == [pipe[i][k] EXCEPT !.live = FALSE]
  <1>2. pipe[i] \in Seq(Command) /\ pipe[i][k] \in Command /\ pipe[i] # <<>>
    BY Pipes
  <1>3. d \in Command /\ d.cmd = pipe[i][k].cmd /\ d.age = pipe[i][k].age
    BY <1>2, Answered
  <1>4. pipe' = [pipe EXCEPT ![i] = [pipe[i] EXCEPT ![k] = d]]
    BY <1>1
  <1> HIDE DEF d
  <1>5. PipeStep(i)
    BY <1>3, <1>4, CommandChanges
  <1>6. /\ failures' \in Nat /\ UNCHANGED <<local, renewAge>>
        /\ owner' \in Instances \union {NoOwner} /\ ttl' \in 0..TTL
        /\ ttl' = 0 <=> owner' = NoOwner
    BY DEF Inv, TypeOK, AcquireTimesOut, lock
  <1> QED BY <1>2, <1>5, <1>6, OutsideChanges

\* While an instance is started the hook of each change of leadership is called.
LEMMA ReplyKeeps ==
    ASSUME Inv, NEW i \in Instances, Reply(i)
    PROVE  Inv'
  <1>1. pipe[i] \in Seq(Command) /\ Young(pipe[i]) /\ pipe[i] # <<>>
    BY Pipes DEF Reply
  <1>2. PipeStep(i) /\ pipe'[i] = Tail(pipe[i])
    <2>1. Follows(Tail(pipe[i]), pipe[i])
      BY <1>1, TailFollows
    <2> QED BY <2>1, Pipes DEF Reply, Put
  <1> DEFINE c == Head(pipe[i])
  <1>3. \/ BecomeLeader(i)
        \/ LoseLeadership(i)
        \/ c.cmd = "release" /\ FinishStop(i)
        \/ UNCHANGED <<leaderLock, provider, hooks, runnerOn>>
    BY DEF Reply
  <1>4. UNCHANGED <<lock, started, stopped, renewAge, failures>>
    BY DEF Reply
  <1>5. Flags' /\ renewAge' \in [Instances -> 0..RenewEvery] /\ failures' \in Nat
    BY <1>3, <1>4 DEF Inv, TypeOK, Flags, BecomeLeader, LoseLeadership, FinishStop, Put
  <1>6. TypeOK'
    BY <1>2, <1>4, <1>5, StaysTyped DEF Inv, PipeStep
  <1>7. \A j \in Instances : j # i => Same(j)
    BY <1>2, <1>3, <1>4
    DEF Inv, TypeOK, PipeStep, Same, BecomeLeader, LoseLeadership, FinishStop, Put
  <1>8. ASSUME ~Restart PROVE Local(i)'
    <2>1. Local(i)
      BY <1>8 DEF Inv
    <2>2. started[i] \/ stopped[i]
      BY <1>1, <2>1 DEF Local
    <2>3. c.cmd = "release" => ~started[i]
      <3>1. c.cmd = "release" => Releases(pipe[i])
        BY <1>1, TailPipe DEF Releases
      <3> QED BY <2>1, <3>1 DEF Local
    <2>4. started[i] => /\ hooks'[i] /\ provider'[i]
                        /\ runnerOn'[i] <=> leaderLock'[i]
      BY <1>3, <2>1, <2>3 DEF Inv, TypeOK, Local, BecomeLeader, LoseLeadership, Put
    <2> QED BY <1>2, <1>4, <2>1, <2>2, <2>4 DEF Local, PipeStep
  <1> QED BY <1>2, <1>6, <1>7, <1>8, OneChanges DEF PipeStep

LEMMA CrashKeeps ==
    ASSUME Inv, NEW i \in Instances, Crash(i)
    PROVE  Inv'
  <1> USE DEF Crash, Put
  <1>1. /\ pipe' \in [Instances -> Seq(Command)] /\ pipe'[i] = <<>>
        /\ \A j \in Instances : j # i => pipe'[j] = pipe[j]
        /\ \A j \in Instances : Young(pipe'[j])
    BY EmptyPipe, PipesChange
  <1>2. Flags' /\ renewAge' \in [Instances -> 0..RenewEvery] /\ failures' \in Nat
    BY ZeroAge DEF Inv, TypeOK, Flags
  <1>3. TypeOK'
    BY <1>1, <1>2, StaysTyped DEF Inv
  <1>4. \A j \in Instances : j # i => Same(j)
    BY <1>1 DEF Inv, TypeOK, Same
  <1>5. Local(i)'
    <2>1. ~started'[i] /\ ~stopped'[i] /\ ~leaderLock'[i] /\ ~runnerOn'[i]
      BY DEF Inv, TypeOK
    <2> QED BY <1>1, <2>1, EmptyPipe DEF Local
  <1> QED BY <1>1, <1>3, <1>4, <1>5, OneChanges

\* What a command becomes as time passes.
Older(c) == [c EXCEPT !.age = IF c.age < Latency THEN c.age + 1 ELSE c.age]

LEMMA OlderType ==
    ASSUME NEW c \in Command, c.age <= Latency
    PROVE  /\ Older(c) \in Command /\ Older(c).age <= Latency
           /\ Older(c).cmd = c.cmd /\ Older(c).res = c.res /\ c.age \in Nat
           /\ c.age < Latency => Older(c).age = c.age + 1
  <1> DEFINE n == IF c.age < Latency THEN c.age + 1 ELSE c.age
  <1>1. c.age \in Nat /\ Latency \in Nat
    BY LeaderAssumption DEF Command
  <1>2. n \in Nat /\ n <= Latency /\ (c.age < Latency => n = c.age + 1)
    BY <1>1
  <1>3. Older(c) = [c EXCEPT !.age = n]
    BY DEF Older
  <1> HIDE DEF n
  <1>4. /\ [c EXCEPT !.age = n] \in Command /\ [c EXCEPT !.age = n].age = n
        /\ [c EXCEPT !.age = n].cmd = c.cmd /\ [c EXCEPT !.age = n].res = c.res
    BY <1>2 DEF Command
  <1> QED BY <1>1, <1>2, <1>3, <1>4

LEMMA TickPipes ==
    ASSUME Inv, Tick, NEW i \in Instances
    PROVE  /\ pipe'[i] \in Seq(Command) /\ Young(pipe'[i])
           /\ DOMAIN pipe'[i] = DOMAIN pipe[i] /\ (pipe[i] = <<>> => pipe'[i] = <<>>)
           /\ \A k \in DOMAIN pipe[i] : /\ pipe[i][k] \in Command
                                         /\ pipe'[i][k] = Older(pipe[i][k])
           /\ Follows(pipe'[i], pipe[i])
  <1> DEFINE s == pipe[i]
             t == [k \in DOMAIN s |-> Older(s[k])]
  <1>1. s \in Seq(Command) /\ Young(s)
    BY Pipes
  <1>2. pipe'[i] = t
    BY DEF Tick, Older
  <1>3. \A k \in DOMAIN s : /\ s[k] \in Command /\ Older(s[k]) \in Command
                            /\ Older(s[k]).age <= Latency /\ Older(s[k]).cmd = s[k].cmd
    BY <1>1, OlderType DEF Young
  <1>4. t \in Seq(Command) /\ DOMAIN t = DOMAIN s /\ (s = <<>> => t = <<>>)
        /\ \A k \in DOMAIN s : t[k] = Older(s[k])
    <2>1. DOMAIN s = 1..Len(s) /\ Len(s) \in Nat
      BY <1>1
    <2>2. t \in [1..Len(s) -> Command]
      BY <1>3, <2>1
    <2> QED BY <2>1, <2>2
  <1> HIDE DEF s, t
  <1>5. Young(t) /\ \A k \in DOMAIN s : t[k].cmd = s[k].cmd
    BY <1>3, <1>4 DEF Young
  <1>6. Follows(t, s)
    BY <1>4, <1>5, SameFollows
  <1>7. \A k \in DOMAIN s : s[k] \in Command /\ t[k] = Older(s[k])
    BY <1>3, <1>4
  <1> QED BY <1>2, <1>4, <1>5, <1>6, <1>7 DEF s

LEMMA TickKeeps ==
    ASSUME Inv, Tick
    PROVE  Inv'
  <1>1. \A i \in Instances :
           /\ pipe'[i] \in Seq(Command) /\ Young(pipe'[i])
           /\ pipe[i] = <<>> => pipe'[i] = <<>>
           /\ Follows(pipe'[i], pipe[i])
    BY TickPipes
  <1>2. /\ owner' \in Instances \union {NoOwner} /\ ttl' \in 0..TTL
        /\ ttl' = 0 <=> owner' = NoOwner
    BY LeaderAssumption DEF Inv, TypeOK, Tick
  <1>3. renewAge' \in [Instances -> 0..RenewEvery]
    <2> DEFINE a(i) == IF started[i] /\ renewAge[i] < RenewEvery THEN renewAge[i] + 1
                                                               ELSE renewAge[i]
    <2>1. ASSUME NEW i \in Instances PROVE a(i) \in 0..RenewEvery
      BY LeaderAssumption DEF Inv, TypeOK
    <2>2. renewAge' = [i \in Instances |-> a(i)]
      BY DEF Tick
    <2> HIDE DEF a
    <2> QED BY <2>1, <2>2
  <1>4. pipe' \in [Instances -> Seq(Command)]
    <2> DEFINE t(i) == [k \in DOMAIN pipe[i] |-> Older(pipe[i][k])]
    <2>1. pipe' = [i \in Instances |-> t(i)]
      BY DEF Tick, Older
    <2>2. ASSUME NEW i \in Instances PROVE t(i) \in Seq(Command)
      <3> DEFINE u == t(i)
      <3>1. pipe'[i] = u
        BY <2>1
      <3> HIDE DEF u
      <3>2. u \in Seq(Command)
        BY <1>1, <3>1
      <3> QED BY <3>2 DEF u
    <2> HIDE DEF t
    <2> QED BY <2>1, <2>2
  <1>5. TypeOK'
    BY <1>2, <1>3, <1>4 DEF Inv, TypeOK, Tick, local
  <1>6. ASSUME ~Restart, NEW i \in Instances PROVE Local(i)'
    <2>1. Local(i)
      BY <1>6 DEF Inv
    <2>2. UNCHANGED local
      BY DEF Tick
    <2>3. /\ pipe[i] = <<>> => pipe'[i] = <<>>
          /\ Releases(pipe'[i]) => Releases(pipe[i])
          /\ OneRelease(pipe[i]) => OneRelease(pipe'[i])
      BY <1>1 DEF Follows
    <2> QED BY <2>1, <2>2, <2>3 DEF Local, local
  <1>7. \A i \in Instances : Young(pipe'[i])
    BY <1>1
  <1>8. ~Restart => \A i \in Instances : Local(i)'
    BY <1>6
  <1> QED BY <1>5, <1>7, <1>8 DEF Inv

LEMMA NextKeeps == Inv /\ [Next]_vars => Inv'
  <1> SUFFICES ASSUME Inv, [Next]_vars PROVE Inv'
    OBVIOUS
  <1>1. CASE UNCHANGED vars
    BY <1>1 DEF Inv, TypeOK, Local, vars, lock, local
  <1>2. CASE Next
    BY <1>2, StartKeeps, RetryKeeps, RenewKeeps, StopKeeps, StopAgainKeeps,
       AcquireTimesOutKeeps, ReplyKeeps, CrashKeeps, RedisKeeps, CommandFailsKeeps,
       TickKeeps DEF Next, Process
  <1> QED BY <1>1, <1>2

LEMMA Invariance == Spec => []Inv
  BY InitInv, NextKeeps, PTL DEF Spec

\* The variables have their types.
THEOREM TypeCorrect == Spec => []TypeOK
  <1>1. Inv => TypeOK
    BY DEF Inv
  <1> QED BY <1>1, Invariance, PTL

\* Leadership never comes or goes without its hook, in a process that starts its
\* scheduler once: whatever fails, times out, is answered late or crashes.
THEOREM HooksFollowLeadership ==
    ASSUME ~Restart
    PROVE  Spec => []LeaderRuns
  <1>1. Inv => LeaderRuns
    BY DEF Inv, LeaderRuns, Local
  <1> QED BY <1>1, Invariance, PTL

-----------------------------------------------------------------------------
(* The lock: what each instance relies on *)

\* Callbacks and round trips are on time, a process starts its scheduler once,
\* and the lock outlives a renewal period and three round trips: that of the
\* acquire, of a renewal that fails, and of the release of a stop right after it.
Sound == Timely /\ ~Restart /\ TTL > RenewEvery + 3 * Latency

Unsuccessful(c) == c.cmd = "extend" /\ c.res # "yes"

\* The lock of an acquire whose answer is on its way, not older than the call.
Acquired(i) ==
    started[i] =>
        \A k \in DOMAIN pipe[i] :
            pipe[i][k].cmd = "acquire" /\ pipe[i][k].res = "yes"
                => owner = i /\ ttl + pipe[i][k].age >= TTL

\* The lock of a leader counts from its last renewal or, while one that has not
\* succeeded is in flight, from the renewal before it.
Renewed(i) ==
    Leads(i) =>
        /\ owner = i
        /\ \/ ttl + renewAge[i] + Latency >= TTL
           \/ \E k \in DOMAIN pipe[i] :
                 /\ Unsuccessful(pipe[i][k])
                 /\ ttl + pipe[i][k].age + RenewEvery + Latency >= TTL

\* A release finds the lock its instance led with.
ReleasesOwn(i) ==
    \A k \in DOMAIN pipe[i] :
        pipe[i][k].cmd = "release" /\ pipe[i][k].res = "pending"
            => owner = i /\ ttl + pipe[i][k].age > Latency

Key(i) == Acquired(i) /\ Renewed(i) /\ ReleasesOwn(i)

KeyInv == \A i \in Instances : Key(i)

LEMMA Numbers ==
    ASSUME Inv
    PROVE  /\ ttl \in Nat /\ ttl <= TTL /\ (ttl = 0 <=> owner = NoOwner)
           /\ TTL \in Nat /\ RenewEvery \in Nat /\ RenewEvery > 0 /\ Latency \in Nat
           /\ NoOwner \notin Instances
           /\ \A i \in Instances : /\ renewAge[i] \in Nat /\ renewAge[i] <= RenewEvery
                                   /\ pipe[i] \in Seq(Command)
           /\ \A i \in Instances : \A k \in DOMAIN pipe[i] :
                 /\ pipe[i][k] \in Command /\ pipe[i][k].age \in Nat
                 /\ pipe[i][k].age <= Latency
  <1>1. \A i \in Instances : pipe[i] \in Seq(Command) /\ Young(pipe[i])
    BY DEF Inv, TypeOK
  <1>2. \A i \in Instances : \A k \in DOMAIN pipe[i] : pipe[i][k] \in Command
    BY <1>1
  <1>3. \A i \in Instances : \A k \in DOMAIN pipe[i] :
           pipe[i][k].age \in Nat /\ pipe[i][k].age <= Latency
    BY <1>1, <1>2 DEF Command, Young
  <1>4. \A i \in Instances : renewAge[i] \in 0..RenewEvery
    BY DEF Inv, TypeOK
  <1> QED BY <1>1, <1>2, <1>3, <1>4, LeaderAssumption DEF Inv, TypeOK

\* A leader owns a lock that outlives a round trip.
LEMMA LeaderOwns ==
    ASSUME Sound, Inv, NEW i \in Instances, Key(i), Leads(i)
    PROVE  owner = i /\ ttl > Latency
  <1>1. owner = i
    BY DEF Key, Renewed
  <1>2. CASE ttl + renewAge[i] + Latency >= TTL
    BY <1>1, <1>2, Numbers DEF Sound
  <1>3. CASE \E k \in DOMAIN pipe[i] :
                /\ Unsuccessful(pipe[i][k])
                /\ ttl + pipe[i][k].age + RenewEvery + Latency >= TTL
    BY <1>1, <1>3, Numbers DEF Sound
  <1> QED BY <1>1, <1>2, <1>3 DEF Key, Renewed

\* What another instance relies on: the lock it owns is not taken or shortened.
LEMMA KeyGrows ==
    ASSUME Inv, NEW j \in Instances, Key(j), Same(j), renewAge'[j] = renewAge[j],
           owner = j => owner' = owner /\ ttl' >= ttl /\ ttl' \in Nat
    PROVE  Key(j)'
  <1>1. \A k \in DOMAIN pipe[j] : pipe[j][k].age \in Nat
    BY Numbers
  <1>2. ttl \in Nat /\ renewAge[j] \in Nat /\ TTL \in Nat /\ RenewEvery \in Nat
        /\ Latency \in Nat
    BY Numbers
  <1>3. pipe'[j] = pipe[j] /\ started'[j] = started[j] /\ Leads(j)' = Leads(j)
    BY DEF Same, Leads
  <1>4. Acquired(j)'
    BY <1>1, <1>2, <1>3 DEF Key, Acquired
  <1>5. Renewed(j)'
    BY <1>1, <1>2, <1>3 DEF Key, Renewed
  <1>6. ReleasesOwn(j)'
    BY <1>1, <1>2, <1>3 DEF Key, ReleasesOwn
  <1> QED BY <1>4, <1>5, <1>6 DEF Key

\* Commands of a pipe are those of another one, or new and no release.
Comes(t, s) ==
    \A k \in DOMAIN t :
        \/ t[k].res = "pending" /\ t[k].cmd # "release"
        \/ \E m \in DOMAIN s : /\ t[k].cmd = s[m].cmd /\ t[k].res = s[m].res
                               /\ t[k].age = s[m].age

\* Renewals that have not succeeded are still in flight.
Waits(s, t) ==
    \A m \in DOMAIN s : Unsuccessful(s[m]) =>
        \E k \in DOMAIN t : Unsuccessful(t[k]) /\ t[k].age = s[m].age

\* A step of an instance that leaves the lock alone.
LEMMA PipeKept ==
    ASSUME NEW i \in Instances, Key(i), UNCHANGED lock,
           started'[i] => started[i] \/ pipe[i] = <<>>,
           Comes(pipe'[i], pipe[i])
    PROVE  Acquired(i)' /\ ReleasesOwn(i)'
  BY DEF Key, Acquired, ReleasesOwn, Comes, lock

LEMMA LeaseKept ==
    ASSUME NEW i \in Instances, Key(i), UNCHANGED lock,
           Leads(i)' => /\ Leads(i) /\ renewAge'[i] = renewAge[i]
                        /\ Waits(pipe[i], pipe'[i])
    PROVE  Renewed(i)'
  BY DEF Key, Renewed, Waits, lock

LEMMA OthersKeep ==
    ASSUME Inv, KeyInv, UNCHANGED lock, NEW i \in Instances,
           \A j \in Instances : j # i => Same(j) /\ renewAge'[j] = renewAge[j],
           Acquired(i)', Renewed(i)', ReleasesOwn(i)'
    PROVE  KeyInv'
  <1>1. owner' = owner /\ ttl' >= ttl /\ ttl' \in Nat
    BY Numbers DEF lock
  <1>2. ASSUME NEW j \in Instances, j # i PROVE Key(j)'
    BY <1>1, <1>2, KeyGrows DEF KeyInv
  <1> QED BY <1>2 DEF KeyInv, Key

\* Sending.
LEMMA SendComes ==
    ASSUME Inv, NEW i \in Instances, NEW c \in {"acquire", "extend", "release"}, Send(i, c)
    PROVE  /\ \A j \in Instances : j # i => pipe'[j] = pipe[j]
           /\ c # "release" => Comes(pipe'[i], pipe[i])
           /\ Waits(pipe[i], pipe'[i])
           /\ \E k \in DOMAIN pipe'[i] : pipe'[i][k] = NewCommand(c)
           /\ \A k \in DOMAIN pipe'[i] :
                 pipe'[i][k] = NewCommand(c) \/ \E m \in DOMAIN pipe[i] : pipe'[i][k] = pipe[i][m]
           /\ \A m \in DOMAIN pipe[i] : \E k \in DOMAIN pipe'[i] : pipe'[i][k] = pipe[i][m]
  <1> DEFINE s == pipe[i]
             t == Append(s, NewCommand(c))
  <1>1. s \in Seq(Command) /\ NewCommand(c) \in Command
    BY Numbers, NewCommandType
  <1>2. /\ t \in Seq(Command) /\ DOMAIN s = 1..Len(s) /\ Len(s) \in Nat
        /\ DOMAIN t = 1..(Len(s) + 1) /\ t[Len(s) + 1] = NewCommand(c)
        /\ \A k \in DOMAIN s : k \in DOMAIN t /\ t[k] = s[k]
        /\ \A k \in DOMAIN t : (k \in DOMAIN s /\ t[k] = s[k]) \/ t[k] = NewCommand(c)
    BY <1>1, AppendPipe
  <1>3. Len(s) + 1 \in DOMAIN t
    BY <1>2
  <1>4. pipe' = [pipe EXCEPT ![i] = t] /\ pipe \in [Instances -> Seq(Command)]
    BY SendIs DEF Inv, TypeOK
  <1> HIDE DEF t
  <1>5. pipe'[i] = t /\ \A j \in Instances : j # i => pipe'[j] = pipe[j]
    BY <1>4
  <1>6. Waits(s, t)
    BY <1>2 DEF Waits
  <1>7. c # "release" => Comes(t, s)
    BY <1>2, NewCommandType DEF Comes
  <1> QED BY <1>2, <1>3, <1>5, <1>6, <1>7

LEMMA SameComes == \A s : Comes(s, s) /\ Waits(s, s)
  BY DEF Comes, Waits

-----------------------------------------------------------------------------
(* The lock: the steps of an instance *)

LEMMA StartKey ==
    ASSUME Sound, Inv, KeyInv, NEW i \in Instances, Start(i)
    PROVE  KeyInv'
  <1>1. ~leaderLock[i] /\ pipe[i] = <<>>
    BY DEF Sound, Inv, Local, Start
  <1>2. Send(i, "acquire") /\ ~Leads(i)' /\ UNCHANGED lock
    BY <1>1 DEF Start, Leads
  <1>3. Acquired(i)' /\ ReleasesOwn(i)'
    BY <1>1, <1>2, SendComes, PipeKept DEF KeyInv
  <1>4. Renewed(i)'
    BY <1>2 DEF Renewed
  <1>5. \A j \in Instances : j # i => Same(j) /\ renewAge'[j] = renewAge[j]
    BY <1>2, SendComes DEF Inv, TypeOK, Start, Put, Same
  <1> QED BY <1>2, <1>3, <1>4, <1>5, OthersKeep

LEMMA RetryKey ==
    ASSUME Sound, Inv, KeyInv, NEW i \in Instances, Retry(i)
    PROVE  KeyInv'
  <1>1. Send(i, "acquire") /\ ~Leads(i)' /\ UNCHANGED lock /\ started'[i] = started[i]
    BY DEF Retry, Leads
  <1>2. Acquired(i)' /\ ReleasesOwn(i)'
    BY <1>1, SendComes, PipeKept DEF KeyInv
  <1>3. Renewed(i)'
    BY <1>1 DEF Renewed
  <1>4. \A j \in Instances : j # i => Same(j) /\ renewAge'[j] = renewAge[j]
    BY <1>1, SendComes DEF Inv, TypeOK, Retry, Put, Same
  <1> QED BY <1>1, <1>2, <1>3, <1>4, OthersKeep

\* When the interval fires the last renewal is a period old.
LEMMA RenewKey ==
    ASSUME Sound, Inv, KeyInv, NEW i \in Instances, Renew(i)
    PROVE  KeyInv'
  <1>1. /\ UNCHANGED <<lock, local>> /\ started[i] /\ renewAge[i] = RenewEvery
        /\ \A j \in Instances : j # i => renewAge'[j] = renewAge[j]
        /\ renewAge'[i] = 0
    BY DEF Renew, Put, Inv, TypeOK
  <1>2. provider[i] /\ Key(i)
    BY <1>1 DEF Sound, Inv, Local, KeyInv
  <1>3. CASE ~leaderLock[i]
    <2>1. UNCHANGED pipe /\ ~Leads(i)'
      BY <1>1, <1>3 DEF Renew, Leads, local
    <2>2. Acquired(i)' /\ ReleasesOwn(i)'
      BY <1>1, <1>2, <2>1, SameComes, PipeKept DEF local
    <2>3. Renewed(i)'
      BY <2>1 DEF Renewed
    <2>4. \A j \in Instances : j # i => Same(j) /\ renewAge'[j] = renewAge[j]
      BY <1>1, <2>1 DEF Same, local
    <2> QED BY <1>1, <2>2, <2>3, <2>4, OthersKeep
  <1>4. CASE leaderLock[i]
    <2>1. Send(i, "extend") /\ Leads(i)
      BY <1>1, <1>2, <1>4 DEF Renew, Leads
    <2>2. Acquired(i)' /\ ReleasesOwn(i)'
      BY <1>1, <1>2, <2>1, SendComes, PipeKept DEF local
    <2>3. Renewed(i)'
      <3>1. owner' = i /\ ttl' = ttl
        BY <1>1, <1>2, <2>1 DEF Key, Renewed, lock
      <3>2. CASE ttl + renewAge[i] + Latency >= TTL
        <4>1. PICK k \in DOMAIN pipe'[i] : pipe'[i][k] = NewCommand("extend")
          BY <2>1, SendComes
        <4>2. Unsuccessful(pipe'[i][k]) /\ pipe'[i][k].age = 0
          BY <4>1, NewCommandType DEF Unsuccessful
        <4>3. ttl + 0 + RenewEvery + Latency >= TTL
          BY <1>1, <3>2, Numbers
        <4> QED BY <3>1, <4>2, <4>3 DEF Renewed
      <3>3. CASE \E k \in DOMAIN pipe[i] :
                    /\ Unsuccessful(pipe[i][k])
                    /\ ttl + pipe[i][k].age + RenewEvery + Latency >= TTL
        <4>1. Waits(pipe[i], pipe'[i])
          BY <2>1, SendComes
        <4> QED BY <3>1, <3>3, <4>1 DEF Renewed, Waits
      <3> QED BY <1>2, <2>1, <3>2, <3>3 DEF Key, Renewed
    <2>4. \A j \in Instances : j # i => Same(j) /\ renewAge'[j] = renewAge[j]
      BY <1>1, <2>1, SendComes DEF Same, local
    <2> QED BY <1>1, <2>2, <2>3, <2>4, OthersKeep
  <1> QED BY <1>3, <1>4

\* A stop leaves time for the release to find the lock.
LEMMA StopKey ==
    ASSUME Sound, Inv, KeyInv, NEW i \in Instances, Stop(i)
    PROVE  KeyInv'
  <1>1. /\ UNCHANGED lock /\ started[i] /\ ~started'[i]
        /\ \A j \in Instances : j # i => renewAge'[j] = renewAge[j]
    BY DEF Stop, Put, Inv, TypeOK
  <1>2. Key(i)
    BY DEF KeyInv
  <1>3. Acquired(i)' /\ Renewed(i)'
    BY <1>1 DEF Acquired, Renewed, Leads
  <1>4. CASE FinishStop(i) /\ UNCHANGED pipe
    <2>1. ReleasesOwn(i)'
      BY <1>1, <1>2, <1>4, SameComes, PipeKept
    <2>2. \A j \in Instances : j # i => Same(j)
      BY <1>4 DEF Inv, TypeOK, Stop, FinishStop, Put, Same
    <2> QED BY <1>1, <1>3, <2>1, <2>2, OthersKeep
  <1>5. CASE /\ leaderLock[i] /\ Send(i, "release")
             /\ UNCHANGED <<leaderLock, provider, hooks, runnerOn>>
    <2>1. owner = i /\ ttl > Latency
      BY <1>1, <1>2, <1>5, LeaderOwns DEF Leads
    <2>2. ASSUME NEW k \in DOMAIN pipe'[i],
                 pipe'[i][k].cmd = "release", pipe'[i][k].res = "pending"
          PROVE  owner' = i /\ ttl' + pipe'[i][k].age > Latency
      <3>1. CASE pipe'[i][k] = NewCommand("release")
        <4>1. pipe'[i][k].age = 0 /\ ttl + 0 > Latency
          BY <2>1, <3>1, NewCommandType, Numbers
        <4> QED BY <1>1, <2>1, <4>1 DEF lock
      <3>2. CASE \E m \in DOMAIN pipe[i] : pipe'[i][k] = pipe[i][m]
        BY <1>1, <1>2, <2>2, <3>2 DEF Key, ReleasesOwn, lock
      <3> QED BY <1>5, <3>1, <3>2, SendComes
    <2>3. ReleasesOwn(i)'
      BY <2>2 DEF ReleasesOwn
    <2>4. \A j \in Instances : j # i => Same(j)
      BY <1>5, SendComes DEF Inv, TypeOK, Stop, Put, Same
    <2> QED BY <1>1, <1>3, <2>3, <2>4, OthersKeep
  <1> QED BY <1>4, <1>5 DEF Stop

LEMMA StopAgainKey ==
    ASSUME Sound, Inv, KeyInv, NEW i \in Instances, StopAgain(i)
    PROVE  KeyInv'
  <1>1. UNCHANGED <<lock, started, leaderLock, renewAge, pipe>>
    BY DEF StopAgain
  <1>2. Acquired(i)' /\ ReleasesOwn(i)'
    BY <1>1, SameComes, PipeKept DEF KeyInv
  <1>3. Renewed(i)'
    BY <1>1, SameComes, LeaseKept DEF KeyInv, Leads
  <1>4. \A j \in Instances : j # i => Same(j) /\ renewAge'[j] = renewAge[j]
    BY DEF Inv, TypeOK, StopAgain, Put, Same
  <1> QED BY <1>1, <1>2, <1>3, <1>4, OthersKeep

LEMMA AcquireTimesOutKey ==
    ASSUME Sound, Inv, KeyInv, NEW i \in Instances, AcquireTimesOut(i)
    PROVE  KeyInv'
  <1>1. PICK k \in DOMAIN pipe[i] : pipe' = [pipe EXCEPT ![i][k].live = FALSE]
    BY DEF AcquireTimesOut
  <1> DEFINE d == [pipe[i][k] EXCEPT !.live = FALSE]
  <1>2. /\ d \in Command /\ d.cmd = pipe[i][k].cmd /\ d.age = pipe[i][k].age
        /\ d.res = pipe[i][k].res
    BY Numbers, Answered
  <1>3. pipe' = [pipe EXCEPT ![i] = [pipe[i] EXCEPT ![k] = d]]
    BY <1>1
  <1> HIDE DEF d
  <1>4. /\ PipeStep(i) /\ DOMAIN pipe'[i] = DOMAIN pipe[i] /\ pipe'[i][k] = d
        /\ \A m \in DOMAIN pipe[i] : m # k => pipe'[i][m] = pipe[i][m]
    BY <1>2, <1>3, CommandChanges
  <1>5. Comes(pipe'[i], pipe[i]) /\ Waits(pipe[i], pipe'[i])
    BY <1>2, <1>4 DEF Comes, Waits, Unsuccessful
  <1>6. UNCHANGED <<lock, local, renewAge>>
    BY DEF AcquireTimesOut
  <1>7. Acquired(i)' /\ ReleasesOwn(i)' /\ Renewed(i)'
    BY <1>5, <1>6, PipeKept, LeaseKept DEF KeyInv, Leads, local
  <1>8. \A j \in Instances : j # i => Same(j) /\ renewAge'[j] = renewAge[j]
    BY <1>4, <1>6 DEF PipeStep, Same, local
  <1> QED BY <1>6, <1>7, <1>8, OthersKeep

\* A renewal that failed ends leadership when it is answered, one that succeeded
\* keeps it; leadership begins with an answer at most a round trip old.
LEMMA ReplyKey ==
    ASSUME Sound, Inv, KeyInv, NEW i \in Instances, Reply(i)
    PROVE  KeyInv'
  <1> DEFINE s == pipe[i]
             c == Head(s)
  <1>1. /\ s \in Seq(Command) /\ s # <<>> /\ Key(i)
        /\ \A k \in DOMAIN s : s[k].age \in Nat /\ s[k].age <= Latency
    BY Numbers DEF Reply, KeyInv
  <1>2. UNCHANGED <<lock, started, stopped, renewAge>>
    BY DEF Reply
  <1>3. /\ pipe' = [pipe EXCEPT ![i] = Tail(s)] /\ pipe \in [Instances -> Seq(Command)]
    BY DEF Reply, Put, Inv, TypeOK
  <1>4. pipe'[i] = Tail(s) /\ \A j \in Instances : j # i => pipe'[j] = pipe[j]
    BY <1>3
  <1>5. /\ 1 \in DOMAIN s /\ c = s[1]
        /\ \A k \in DOMAIN Tail(s) : k + 1 \in DOMAIN s /\ Tail(s)[k] = s[k + 1]
        /\ \A k \in DOMAIN s : k # 1 => /\ k - 1 \in DOMAIN Tail(s)
                                        /\ Tail(s)[k - 1] = s[k]
    BY <1>1, TailPipe
  <1>6. Comes(pipe'[i], pipe[i])
    BY <1>4, <1>5 DEF Comes
  <1>7. ~Unsuccessful(c) => Waits(pipe[i], pipe'[i])
    BY <1>4, <1>5 DEF Waits
  <1>8. Acquired(i)' /\ ReleasesOwn(i)'
    BY <1>1, <1>2, <1>6, PipeKept
  <1>9. Renewed(i)'
    <2>1. CASE c.cmd = "acquire" /\ c.res = "yes" /\ started[i]
      <3>1. owner = i /\ ttl + c.age >= TTL /\ c.age \in Nat /\ c.age <= Latency
        BY <1>1, <1>5, <2>1 DEF Key, Acquired
      <3>2. ttl + renewAge[i] + Latency >= TTL
        BY <3>1, Numbers
      <3> QED BY <1>2, <3>1, <3>2 DEF Renewed, lock
    <2>2. CASE Unsuccessful(c) /\ LoseLeadership(i)
      <3>1. ~leaderLock'[i]
        BY <2>2 DEF LoseLeadership, Put, Inv, TypeOK
      <3> QED BY <3>1 DEF Renewed, Leads
    <2>3. CASE ~started[i]
      BY <1>2, <2>3 DEF Renewed, Leads
    <2>4. CASE started[i] /\ c.cmd = "release"
      <3>1. Releases(s)
        BY <1>5, <2>4 DEF Releases
      <3> QED BY <2>4, <3>1 DEF Sound, Inv, Local
    <2>5. CASE /\ ~Unsuccessful(c)
               /\ UNCHANGED <<leaderLock, provider, hooks, runnerOn>>
      BY <1>1, <1>2, <1>7, <2>5, LeaseKept DEF Leads
    <2> QED BY <2>1, <2>2, <2>3, <2>4, <2>5 DEF Reply, Unsuccessful
  <1>10. \A j \in Instances : j # i => Same(j) /\ renewAge'[j] = renewAge[j]
    <2>1. \/ BecomeLeader(i) \/ LoseLeadership(i) \/ FinishStop(i)
          \/ UNCHANGED <<leaderLock, provider, hooks, runnerOn>>
      BY DEF Reply
    <2> QED BY <1>2, <1>4, <2>1
        DEF Inv, TypeOK, Same, BecomeLeader, LoseLeadership, FinishStop, Put
  <1> QED BY <1>2, <1>8, <1>9, <1>10, OthersKeep

LEMMA CrashKey ==
    ASSUME Sound, Inv, KeyInv, NEW i \in Instances, Crash(i)
    PROVE  KeyInv'
  <1> USE DEF Crash, Put
  <1>1. /\ pipe'[i] = <<>> /\ \A j \in Instances : j # i => pipe'[j] = pipe[j]
        /\ ~started'[i] /\ UNCHANGED lock
    BY DEF Inv, TypeOK
  <1>2. Acquired(i)' /\ Renewed(i)' /\ ReleasesOwn(i)'
    BY <1>1 DEF Acquired, Renewed, ReleasesOwn, Leads
  <1>3. \A j \in Instances : j # i => Same(j) /\ renewAge'[j] = renewAge[j]
    BY <1>1 DEF Inv, TypeOK, Same
  <1> QED BY <1>1, <1>2, <1>3, OthersKeep

-----------------------------------------------------------------------------
(* The lock: Redis and real time *)

\* Nobody else's command takes or shortens a lock an instance owns.
LEMMA OthersUnharmed ==
    ASSUME Inv, KeyInv, NEW i \in Instances, NEW k \in DOMAIN pipe[i],
           pipe[i][k].res = "pending",
           Execute(i, pipe[i][k].cmd) \/ UNCHANGED lock,
           NEW j \in Instances, j # i, owner = j
    PROVE  owner' = owner /\ ttl' >= ttl /\ ttl' \in Nat
  <1>1. ttl \in Nat /\ ttl <= TTL /\ TTL \in Nat /\ ttl > 0
    BY Numbers
  <1>2. pipe[i][k].cmd # "release"
    BY DEF KeyInv, Key, ReleasesOwn
  <1> QED BY <1>1, <1>2 DEF Execute, lock

\* A command is answered: by Redis, r is then Answer, or by an error.
LEMMA ExecutedKey ==
    ASSUME Sound, Inv, KeyInv, NEW i \in Instances, NEW k \in DOMAIN pipe[i],
           pipe[i][k].res = "pending", NEW r, ResultOf(i, k, r),
           \/ Execute(i, pipe[i][k].cmd) /\ r = Answer(pipe[i][k].cmd)
           \/ (Execute(i, pipe[i][k].cmd) \/ UNCHANGED lock) /\ r = "error",
           UNCHANGED <<local, renewAge>>
    PROVE  KeyInv'
  <1> DEFINE c == pipe[i][k]
             d == pipe'[i][k]
  <1>1. r \in {"yes", "no", "error"}
    BY DEF Answer
  <1>2. /\ PipeStep(i) /\ DOMAIN pipe'[i] = DOMAIN pipe[i]
        /\ d.cmd = c.cmd /\ d.age = c.age /\ d.res = r
        /\ \A m \in DOMAIN pipe[i] : m # k => pipe'[i][m] = pipe[i][m]
        /\ c \in Command
    BY <1>1, AnswerSteps
  <1>3. /\ Key(i) /\ ttl \in Nat /\ ttl <= TTL /\ TTL \in Nat /\ TTL > 0
        /\ RenewEvery \in Nat /\ Latency \in Nat /\ renewAge[i] \in Nat
        /\ ttl = 0 <=> owner = NoOwner
        /\ NoOwner \notin Instances
        /\ \A m \in DOMAIN pipe[i] : pipe[i][m].age \in Nat
    BY Numbers, LeaderAssumption DEF KeyInv
  <1>4. \A j \in Instances : j # i => Same(j) /\ renewAge'[j] = renewAge[j]
    BY <1>2 DEF PipeStep, Same, local
  <1>5. \A j \in Instances : j # i => Key(j)'
    BY <1>4, OthersUnharmed, KeyGrows DEF KeyInv
  <1>6. started'[i] = started[i] /\ Leads(i)' = Leads(i) /\ renewAge'[i] = renewAge[i]
    BY DEF local, Leads
  <1> HIDE DEF d
  <1>7. CASE c.cmd = "acquire" /\ ttl = 0 /\ ~UNCHANGED lock
    <2>1. owner' = i /\ ttl' = TTL /\ owner # i
      BY <1>3, <1>7 DEF Execute
    <2>2. ~Leads(i)
      BY <1>3, <2>1 DEF Key, Renewed
    <2>3. Renewed(i)'
      BY <1>6, <2>2 DEF Renewed
    <2>4. ReleasesOwn(i)'
      BY <1>2, <1>3, <1>7, <2>1 DEF Key, ReleasesOwn, d
    <2>5. Acquired(i)'
      <3>1. TTL + c.age >= TTL
        BY <1>3
      <3> QED BY <1>2, <1>3, <1>6, <2>1, <3>1 DEF Key, Acquired, d
    <2> QED BY <1>5, <2>3, <2>4, <2>5 DEF KeyInv, Key
  <1>8. CASE c.cmd = "acquire" /\ UNCHANGED lock
    <2>1. r # "yes"
      <3>1. CASE r = "error"
        BY <3>1
      <3>2. CASE r = Answer(c.cmd) /\ Execute(i, c.cmd)
        BY <1>3, <1>8, <3>2 DEF Execute, Answer, lock
      <3> QED BY <3>1, <3>2
    <2>2. owner' = owner /\ ttl' = ttl
      BY <1>8 DEF lock
    <2>3. Acquired(i)' /\ ReleasesOwn(i)'
      BY <1>2, <1>3, <1>6, <1>8, <2>1, <2>2 DEF Key, Acquired, ReleasesOwn, d
    <2>4. Waits(pipe[i], pipe'[i])
      BY <1>2, <1>8 DEF Waits, Unsuccessful
    <2>5. Renewed(i)'
      BY <1>3, <1>6, <1>8, <2>4, LeaseKept
    <2> QED BY <1>5, <2>3, <2>5 DEF KeyInv, Key
  <1>9. CASE c.cmd = "extend"
    <2>1. /\ owner' = owner /\ ttl' >= ttl /\ ttl' \in Nat
          /\ ttl > 0 /\ r # "error" => r = "yes" /\ ttl' = TTL
      BY <1>3, <1>9 DEF Execute, Answer, lock
    <2>2. Acquired(i)'
      BY <1>2, <1>3, <1>6, <1>9, <2>1 DEF Key, Acquired, d
    <2>3. ReleasesOwn(i)'
      BY <1>2, <1>3, <1>9, <2>1 DEF Key, ReleasesOwn, d
    <2>4. Renewed(i)'
      <3> SUFFICES ASSUME Leads(i) PROVE Renewed(i)'
        BY <1>6 DEF Renewed
      <3>1. owner = i /\ ttl > 0
        BY <1>3 DEF Key, Renewed
      <3>2. CASE r # "error"
        <4>1. ttl' + renewAge'[i] + Latency >= TTL
          BY <1>3, <1>6, <2>1, <3>1, <3>2
        <4> QED BY <2>1, <3>1, <4>1 DEF Renewed
      <3>3. CASE r = "error" /\ ttl + renewAge[i] + Latency >= TTL
        <4>1. ttl' + renewAge'[i] + Latency >= TTL
          BY <1>3, <1>6, <2>1, <3>3
        <4> QED BY <2>1, <3>1, <4>1 DEF Renewed
      <3>4. ASSUME r = "error", NEW m \in DOMAIN pipe[i], Unsuccessful(pipe[i][m]),
                   ttl + pipe[i][m].age + RenewEvery + Latency >= TTL
            PROVE  Renewed(i)'
        <4>1. m \in DOMAIN pipe'[i] /\ Unsuccessful(pipe'[i][m])
              /\ pipe'[i][m].age = pipe[i][m].age
          BY <1>2, <1>9, <3>4 DEF Unsuccessful, d
        <4>2. ttl' + pipe'[i][m].age + RenewEvery + Latency >= TTL
          BY <1>3, <2>1, <3>4, <4>1
        <4> QED BY <2>1, <3>1, <4>1, <4>2 DEF Renewed
      <3> QED BY <1>3, <3>2, <3>3, <3>4 DEF Key, Renewed
    <2> QED BY <1>5, <2>2, <2>3, <2>4 DEF KeyInv, Key
  <1>10. CASE c.cmd = "release"
    <2>1. Local(i) /\ Releases(pipe[i])
      BY <1>10 DEF Sound, Inv, Releases
    <2>2. ~started[i] /\ OneRelease(pipe[i])
      BY <2>1 DEF Local
    <2>3. Acquired(i)' /\ Renewed(i)'
      BY <1>6, <2>2 DEF Acquired, Renewed, Leads
    <2>4. ReleasesOwn(i)'
      BY <1>1, <1>2, <1>10, <2>2 DEF ReleasesOwn, OneRelease, d
    <2> QED BY <1>5, <2>3, <2>4 DEF KeyInv, Key
  <1>11. CASE c.cmd = "acquire" /\ ttl # 0 /\ ~UNCHANGED lock
    BY <1>3, <1>11 DEF Execute
  <1> QED BY <1>2, <1>7, <1>8, <1>9, <1>10, <1>11 DEF Command

LEMMA RedisKey ==
    ASSUME Sound, Inv, KeyInv, NEW i \in Instances, Redis(i)
    PROVE  KeyInv'
  <1>1. PICK k \in DOMAIN pipe[i] :
           /\ pipe[i][k].res = "pending" /\ Execute(i, pipe[i][k].cmd)
           /\ pipe' = [pipe EXCEPT ![i][k].res = Answer(pipe[i][k].cmd)]
           /\ UNCHANGED <<local, renewAge>>
    BY DEF Redis, IsNext
  <1>2. ResultOf(i, k, Answer(pipe[i][k].cmd))
    BY <1>1 DEF ResultOf
  <1> QED BY <1>1, <1>2, ExecutedKey

LEMMA CommandFailsKey ==
    ASSUME Sound, Inv, KeyInv, NEW i \in Instances, CommandFails(i)
    PROVE  KeyInv'
  <1>1. PICK k \in DOMAIN pipe[i] :
           /\ pipe[i][k].res = "pending"
           /\ Execute(i, pipe[i][k].cmd) \/ UNCHANGED lock
           /\ pipe' = [pipe EXCEPT ![i][k].res = "error"]
    BY DEF CommandFails, IsNext
  <1>2. ResultOf(i, k, "error") /\ UNCHANGED <<local, renewAge>>
    BY <1>1 DEF ResultOf, CommandFails
  <1> QED BY <1>1, <1>2, ExecutedKey

\* While everything is on time a tick takes from the lock what it adds to ages.
LEMMA TickKey ==
    ASSUME Sound, Inv, KeyInv, Tick
    PROVE  KeyInv'
  <1> SUFFICES ASSUME NEW i \in Instances PROVE Key(i)'
    BY DEF KeyInv
  <1>1. /\ ttl \in Nat /\ TTL \in Nat /\ RenewEvery \in Nat /\ Latency \in Nat
        /\ renewAge[i] \in Nat /\ TTL > RenewEvery + 3 * Latency
    BY Numbers DEF Sound
  <1>2. /\ UNCHANGED local
        /\ ttl > 1 => ttl' = ttl - 1 /\ owner' = owner
        /\ started[i] => renewAge[i] < RenewEvery
        /\ \A k \in DOMAIN pipe[i] : pipe[i][k].age < Latency
    BY <1>1 DEF Tick, OnTime, Sound
  <1>3. started[i] => renewAge'[i] = renewAge[i] + 1
    BY <1>2 DEF Tick
  <1>4. DOMAIN pipe'[i] = DOMAIN pipe[i]
    BY TickPipes
  <1>5. ASSUME NEW k \in DOMAIN pipe[i]
        PROVE  /\ pipe'[i][k].cmd = pipe[i][k].cmd /\ pipe'[i][k].res = pipe[i][k].res
               /\ pipe'[i][k].age = pipe[i][k].age + 1 /\ pipe[i][k].age \in Nat
    <2>1. pipe[i][k] \in Command /\ pipe[i][k].age < Latency /\ pipe[i][k].age <= Latency
          /\ pipe'[i][k] = Older(pipe[i][k])
      BY <1>2, TickPipes, Numbers
    <2> QED BY <2>1, OlderType
  <1>6. Key(i) /\ started'[i] = started[i] /\ Leads(i)' = Leads(i)
    BY <1>2 DEF KeyInv, local, Leads
  <1>7. Acquired(i)'
    <2>1. ASSUME NEW k \in DOMAIN pipe[i], owner = i, ttl + pipe[i][k].age >= TTL
          PROVE  owner' = i /\ ttl' + pipe'[i][k].age >= TTL
      <3>1. ttl > 1
        BY <1>1, <1>2, <1>5, <2>1
      <3> QED BY <1>1, <1>2, <1>5, <2>1, <3>1
    <2> QED BY <1>4, <1>5, <1>6, <2>1 DEF Key, Acquired
  <1>8. ReleasesOwn(i)'
    <2>1. ASSUME NEW k \in DOMAIN pipe[i], owner = i, ttl + pipe[i][k].age > Latency
          PROVE  owner' = i /\ ttl' + pipe'[i][k].age > Latency
      <3>1. ttl > 1
        BY <1>1, <1>2, <1>5, <2>1
      <3> QED BY <1>1, <1>2, <1>5, <2>1, <3>1
    <2> QED BY <1>4, <1>5, <1>6, <2>1 DEF Key, ReleasesOwn
  <1>9. Renewed(i)'
    <2> SUFFICES ASSUME Leads(i) PROVE Renewed(i)'
      BY <1>6 DEF Renewed
    <2>1. owner = i /\ started[i]
      BY <1>6 DEF Key, Renewed, Leads
    <2>2. CASE ttl + renewAge[i] + Latency >= TTL
      <3>1. ttl > 1
        BY <1>1, <1>2, <2>1, <2>2
      <3>2. ttl' + renewAge'[i] + Latency >= TTL
        BY <1>1, <1>2, <1>3, <2>1, <2>2, <3>1
      <3> QED BY <1>2, <2>1, <3>1, <3>2 DEF Renewed
    <2>3. ASSUME NEW k \in DOMAIN pipe[i], Unsuccessful(pipe[i][k]),
                 ttl + pipe[i][k].age + RenewEvery + Latency >= TTL
          PROVE  Renewed(i)'
      <3>1. ttl > 1
        BY <1>1, <1>2, <1>5, <2>3
      <3>2. ttl' + pipe'[i][k].age + RenewEvery + Latency >= TTL
        BY <1>1, <1>2, <1>5, <2>3, <3>1
      <3>3. k \in DOMAIN pipe'[i] /\ Unsuccessful(pipe'[i][k])
        BY <1>4, <1>5, <2>3 DEF Unsuccessful
      <3> QED BY <1>2, <2>1, <3>1, <3>2, <3>3 DEF Renewed
    <2> QED BY <1>6, <2>2, <2>3 DEF Key, Renewed
  <1> QED BY <1>7, <1>8, <1>9 DEF Key

LEMMA KeyStays ==
    ASSUME Sound
    PROVE  Inv /\ KeyInv /\ [Next]_vars => KeyInv'
  <1> SUFFICES ASSUME Inv, KeyInv, [Next]_vars PROVE KeyInv'
    OBVIOUS
  <1>1. CASE UNCHANGED vars
    BY <1>1 DEF KeyInv, Key, Acquired, Renewed, ReleasesOwn, Leads, vars, lock, local
  <1>2. CASE Next
    BY <1>2, StartKey, RetryKey, RenewKey, StopKey, StopAgainKey, AcquireTimesOutKey,
       ReplyKey, CrashKey, RedisKey, CommandFailsKey, TickKey DEF Next, Process
  <1> QED BY <1>1, <1>2

LEMMA InitKey == Init => KeyInv
  BY DEF Init, KeyInv, Key, Acquired, Renewed, ReleasesOwn, Leads

\* An instance that takes itself for the leader owns the lock at Redis, whatever
\* crashes, failed commands, timeouts and stops occur, while timers and round
\* trips are on time and the lock outlives a renewal period and three round trips.
THEOREM LeadersHoldTheLock ==
    ASSUME Sound
    PROVE  Spec => []LeaderHoldsLock
  <1>1. Inv /\ KeyInv /\ [Next]_vars => KeyInv'
    BY KeyStays
  <1>2. KeyInv => LeaderHoldsLock
    BY DEF KeyInv, Key, Renewed, LeaderHoldsLock
  <1> QED BY InitKey, Invariance, <1>1, <1>2, PTL DEF Spec

-----------------------------------------------------------------------------
(* Leader gating implements LeaderLease *)

\* A step changes who leads for one instance at most.
LEMMA OneLeads ==
    ASSUME Inv, [Next]_vars
    PROVE  \/ UNCHANGED <<started, leaderLock>>
           \/ \E i \in Instances : \A j \in Instances :
                 j # i => Leads(j)' = Leads(j)
  <1>1. ASSUME NEW i \in Instances,
               Start(i) \/ Stop(i) \/ Reply(i) \/ Crash(i),
               NEW j \in Instances, j # i
        PROVE  Leads(j)' = Leads(j)
    BY <1>1 DEF Inv, TypeOK, Start, Stop, Reply, Crash, Put, Leads, FinishStop,
                BecomeLeader, LoseLeadership
  <1>2. ASSUME NEW i \in Instances,
               \/ Retry(i) \/ Renew(i) \/ StopAgain(i) \/ AcquireTimesOut(i)
               \/ Redis(i) \/ CommandFails(i)
        PROVE  UNCHANGED <<started, leaderLock>>
    BY <1>2 DEF Retry, Renew, StopAgain, AcquireTimesOut, Redis, CommandFails, local
  <1>3. CASE Tick \/ UNCHANGED vars
    BY <1>3 DEF Tick, local, vars
  <1> QED BY <1>1, <1>2, <1>3 DEF Next, Process

LEMMA StepIsLease ==
    ASSUME Inv, [Next]_vars, LeaderHoldsLock, LeaderHoldsLock'
    PROVE  [Lease!Next]_({i \in Instances : Leads(i)})
  <1> DEFINE L == {i \in Instances : Leads(i)}
  <1>1. \A i, j \in L : i = j
    BY DEF LeaderHoldsLock
  <1>2. \A i, j \in L' : i = j
    BY DEF LeaderHoldsLock
  <1>3. L' = L \/ (L = {} /\ \E i \in Instances : L' = {i}) \/ (L # {} /\ L' = {})
    <2>1. CASE UNCHANGED <<started, leaderLock>>
      BY <2>1 DEF Leads
    <2>2. ASSUME NEW i \in Instances,
                 \A j \in Instances : j # i => Leads(j)' = Leads(j)
          PROVE  L' = L \/ (L = {} /\ L' = {i}) \/ (L # {} /\ L' = {})
      <3>1. \A j \in Instances : j # i => (j \in L' <=> j \in L)
        BY <2>2
      <3>2. \A j : (j \in L => j \in Instances) /\ (j \in L' => j \in Instances)
        OBVIOUS
      <3> HIDE DEF L
      <3>3. CASE i \in L <=> i \in L'
        BY <3>1, <3>2, <3>3
      <3>4. CASE i \in L /\ i \notin L'
        BY <1>1, <3>1, <3>2, <3>4
      <3>5. CASE i \notin L /\ i \in L'
        BY <1>2, <3>1, <3>2, <3>5
      <3> QED BY <3>3, <3>4, <3>5
    <2> QED BY <2>1, <2>2, OneLeads
  <1> QED BY <1>3 DEF Lease!Next, Lease!Elect, Lease!Resign

\* Under the same assumptions the instances lead as LeaderLease has it: one is
\* elected only while none leads.
THEOREM GatingIsALease ==
    ASSUME Sound
    PROVE  Spec => LeaseSpec
  <1>1. Init => Lease!Init
    BY DEF Init, Lease!Init, Leads
  <1>2. Inv /\ LeaderHoldsLock /\ LeaderHoldsLock' /\ [Next]_vars
           => [Lease!Next]_({i \in Instances : Leads(i)})
    BY StepIsLease
  <1> QED BY <1>1, <1>2, Invariance, LeadersHoldTheLock, PTL
      DEF Spec, LeaseSpec, Lease!Spec
=============================================================================
