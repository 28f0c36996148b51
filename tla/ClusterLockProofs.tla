-------------------------- MODULE ClusterLockProofs --------------------------
(* Proofs about ClusterLock: the types of its variables, that a lock in use   *)
(* stays in the care of the heartbeat, for any timing and any faults, and     *)
(* that its caller owns the key as long as it is remembered, for any times.        *)
EXTENDS ClusterLock, TLAPS

Longest == TTL + ExtendBelow + ExtendBy

\* What travels is what the code sends: a SET belongs to acquire() and nothing
\* else does, and no lifetime asked for exceeds what a heartbeat can ask for.
Sane(c) ==
    /\ c \in Command
    /\ c.op = "set" <=> c.call = "acquire"
    /\ c.ttl <= Longest
    /\ c.op = "set" => c.ttl \in 1..TTL

Asks(s) == \E k \in DOMAIN s : s[k].call = "acquire"

\* Commands in flight are sane, and one of them at most is an acquire().
GoodPipe(s) ==
    /\ s \in Seq(Command)
    /\ \A k \in DOMAIN s : Sane(s[k])
    /\ \A k, i \in DOMAIN s :
          s[k].call = "acquire" /\ s[i].call = "acquire" => k = i

\* While an acquire() is in flight its process does not use the lock.
PipesInv ==
    /\ pipe \in [Procs -> Seq(Command)]
    /\ \A p \in Procs : GoodPipe(pipe[p]) /\ (Asks(pipe[p]) => ~using[p])

Inv == TypeOK /\ PipesInv /\ InCare

-----------------------------------------------------------------------------
(* Pipes *)

LEMMA EmptyPipe == GoodPipe(<<>>) /\ ~Asks(<<>>)
  BY DEF GoodPipe, Asks

\* Taking the oldest command off a pipe: if it was an acquire(), none is left.
LEMMA TailPipe ==
    ASSUME NEW s, GoodPipe(s), s # <<>>
    PROVE  /\ GoodPipe(Tail(s)) /\ Sane(Head(s))
           /\ Asks(Tail(s)) => Asks(s)
           /\ Head(s).call = "acquire" => Asks(s) /\ ~Asks(Tail(s))
  <1>1. /\ s \in Seq(Command) /\ Tail(s) \in Seq(Command)
        /\ Len(s) \in Nat /\ Len(s) > 0 /\ Head(s) = s[1]
        /\ DOMAIN s = 1..Len(s) /\ DOMAIN Tail(s) = 1..(Len(s) - 1)
    BY DEF GoodPipe
  <1>2. \A k \in DOMAIN Tail(s) : k + 1 \in DOMAIN s /\ Tail(s)[k] = s[k + 1]
    BY <1>1
  <1>3. 1 \in DOMAIN s
    BY <1>1
  <1>4. \A k \in DOMAIN Tail(s) : k \in Nat /\ k > 0
    BY <1>1
  <1>5. GoodPipe(Tail(s))
    <2>1. ASSUME NEW k \in DOMAIN Tail(s), NEW i \in DOMAIN Tail(s),
                 Tail(s)[k].call = "acquire", Tail(s)[i].call = "acquire"
          PROVE  k = i
      <3>1. k + 1 = i + 1
        BY <1>2, <2>1 DEF GoodPipe
      <3> QED BY <3>1, <1>4, <2>1
    <2>2. \A k \in DOMAIN Tail(s) : Sane(Tail(s)[k])
      BY <1>2 DEF GoodPipe
    <2> QED BY <1>1, <2>1, <2>2 DEF GoodPipe
  <1>6. Asks(Tail(s)) => Asks(s)
    BY <1>2 DEF Asks
  <1>7. Head(s).call = "acquire" => Asks(s) /\ ~Asks(Tail(s))
    <2> SUFFICES ASSUME Head(s).call = "acquire" PROVE Asks(s) /\ ~Asks(Tail(s))
      OBVIOUS
    <2>1. ASSUME NEW k \in DOMAIN Tail(s), Tail(s)[k].call = "acquire" PROVE FALSE
      <3>1. k + 1 = 1
        BY <1>1, <1>2, <1>3, <2>1 DEF GoodPipe
      <3> QED BY <3>1, <1>4, <2>1
    <2> QED BY <1>1, <1>3, <2>1 DEF Asks
  <1> QED BY <1>1, <1>3, <1>5, <1>6, <1>7 DEF GoodPipe

\* Adding a command to a pipe.
LEMMA AppendPipe ==
    ASSUME NEW s, NEW c, GoodPipe(s), Sane(c), c.call = "acquire" => ~Asks(s)
    PROVE  /\ GoodPipe(Append(s, c))
           /\ Asks(Append(s, c)) => Asks(s) \/ c.call = "acquire"
  <1> DEFINE t == Append(s, c)
  <1>1. /\ s \in Seq(Command) /\ c \in Command /\ t \in Seq(Command)
        /\ Len(s) \in Nat /\ DOMAIN s = 1..Len(s) /\ DOMAIN t = 1..(Len(s) + 1)
    BY DEF GoodPipe, Sane
  <1>2. \A k \in DOMAIN t : \/ k \in DOMAIN s /\ t[k] = s[k]
                            \/ k = Len(s) + 1 /\ t[k] = c
    BY <1>1
  <1> HIDE DEF t
  <1>3. \A k, i \in DOMAIN t : t[k].call = "acquire" /\ t[i].call = "acquire" => k = i
    BY <1>2 DEF GoodPipe, Asks
  <1>4. \A k \in DOMAIN t : Sane(t[k])
    BY <1>2 DEF GoodPipe
  <1>5. GoodPipe(t) /\ (Asks(t) => Asks(s) \/ c.call = "acquire")
    BY <1>1, <1>2, <1>3, <1>4 DEF GoodPipe, Asks
  <1> QED BY <1>5 DEF t

\* Changing what no command depends on.
LEMMA MappedPipe ==
    ASSUME NEW s, NEW t, GoodPipe(s), t \in Seq(Command), DOMAIN t = DOMAIN s,
           \A k \in DOMAIN s : /\ t[k].op = s[k].op /\ t[k].call = s[k].call
                               /\ t[k].ttl = s[k].ttl
    PROVE  GoodPipe(t) /\ (Asks(t) => Asks(s))
  <1>1. \A k \in DOMAIN t : t[k] \in Command
    OBVIOUS
  <1> QED BY <1>1 DEF GoodPipe, Asks, Sane

\* One pipe changes, and the use its process makes of the lock.
LEMMA PipesChange ==
    ASSUME PipesInv, NEW p \in Procs, NEW t, GoodPipe(t),
           pipe' = [pipe EXCEPT ![p] = t],
           Asks(t) => ~using'[p],
           \A q \in Procs : using'[q] => using[q] \/ q = p
    PROVE  PipesInv'
  <1>1. t \in Seq(Command)
    BY DEF GoodPipe
  <1>2. pipe' \in [Procs -> Seq(Command)]
    BY <1>1 DEF PipesInv
  <1>3. ASSUME NEW q \in Procs PROVE GoodPipe(pipe'[q]) /\ (Asks(pipe'[q]) => ~using'[q])
    <2>1. CASE q = p
      BY <2>1 DEF PipesInv
    <2>2. CASE q # p
      <3>1. pipe'[q] = pipe[q] /\ (using'[q] => using[q])
        BY <2>2 DEF PipesInv
      <3> QED BY <3>1 DEF PipesInv
    <2> QED BY <2>1, <2>2
  <1> QED BY <1>2, <1>3 DEF PipesInv

\* A call sends a command that is not an acquire().
LEMMA PlainSend ==
    ASSUME PipesInv, NEW p \in Procs, NEW c, Sane(c), c.call # "acquire",
           Send(p, c), \A q \in Procs : using'[q] => using[q]
    PROVE  PipesInv'
  <1>1. GoodPipe(pipe[p]) /\ (Asks(pipe[p]) => ~using[p])
    BY DEF PipesInv
  <1>2. /\ GoodPipe(Append(pipe[p], c))
        /\ Asks(Append(pipe[p], c)) => Asks(pipe[p])
    BY <1>1, AppendPipe
  <1>3. Asks(Append(pipe[p], c)) => ~using'[p]
    BY <1>1, <1>2
  <1>4. pipe' = [pipe EXCEPT ![p] = Append(pipe[p], c)]
    BY DEF Send, Put
  <1> QED BY <1>2, <1>3, <1>4, PipesChange

\* A command of a call is sane.
LEMMA SaneCmd ==
    /\ \A n \in 1..TTL : Sane(Cmd("set", "acquire", n))
    /\ \A call \in {"beat", "release", "force"} : \A t \in Int :
          t <= Longest => Sane(Cmd("get", call, t))
    /\ \A call, t : Cmd("get", call, t).call = call
  BY LockAssumption DEF Sane, Cmd, Command, Calls, Longest

\* What each call but acquire() sends.
LEMMA GetSend ==
    ASSUME PipesInv, NEW p \in Procs, NEW call \in {"beat", "release", "force"},
           NEW t \in Int, t <= Longest, Send(p, Cmd("get", call, t)),
           \A q \in Procs : using'[q] => using[q]
    PROVE  PipesInv'
  <1> DEFINE c == Cmd("get", call, t)
  <1>1. Sane(c) /\ c.call # "acquire" /\ Send(p, c)
    BY SaneCmd
  <1> HIDE DEF c
  <1> QED BY <1>1, PlainSend

\* The pipes stay and no process comes to use the lock.
LEMMA PipesStay ==
    ASSUME PipesInv, UNCHANGED pipe, \A q \in Procs : using'[q] => using[q]
    PROVE  PipesInv'
  BY DEF PipesInv

\* The key stays, and no process comes to use the lock or loses its entry.
LEMMA CareStays ==
    ASSUME InCare, \A q \in Procs : (using'[q] => using[q]) /\ entry'[q] = entry[q],
           UNCHANGED owner
    PROVE  InCare'
  BY DEF InCare

-----------------------------------------------------------------------------
(* The actions *)

LEMMA InitInv == Init => Inv
  <1> SUFFICES ASSUME Init PROVE Inv
    OBVIOUS
  <1>1. PipesInv
    BY EmptyPipe DEF Init, PipesInv
  <1>2. TypeOK
    <2>1. owner = Nobody /\ ttl = 0 /\ faults = 0 /\ forced = FALSE /\ risky = FALSE
      BY DEF Init
    <2>2. forced \in BOOLEAN /\ risky \in BOOLEAN
      BY <2>1
    <2>3. pipe \in [Procs -> Seq(Command)]
      BY <1>1 DEF PipesInv
    <2>4. mode \in [Procs -> {"down", "up", "closing"}] /\ left \in [Procs -> Int]
      BY DEF Init
    <2>5. using \in [Procs -> BOOLEAN] /\ entry \in [Procs -> BOOLEAN]
      BY DEF Init
    <2>6. since \in [Procs -> 0..BeatEvery] /\ faults \in 0..MaxFaults
      BY LockAssumption DEF Init
    <2>7. ttl \in 0..(TTL + ExtendBelow + ExtendBy)
      BY <2>1, LockAssumption
    <2> QED BY <2>1, <2>2, <2>3, <2>4, <2>5, <2>6, <2>7 DEF TypeOK
  <1> QED BY <1>1, <1>2 DEF Init, Inv, InCare

LEMMA InitializeKeeps ==
    ASSUME Inv, NEW p \in Procs, Initialize(p)
    PROVE  Inv'
  <1> USE DEF Initialize, Inv, key, local, history, Put
  <1>1. TypeOK'
    BY DEF TypeOK
  <1>2. PipesInv'
    BY PipesStay
  <1>3. InCare'
    BY CareStays
  <1> QED BY <1>1, <1>2, <1>3

LEMMA AcquireKeeps ==
    ASSUME Inv, NEW p \in Procs, NEW n \in Lifetimes, Acquire(p, n)
    PROVE  Inv'
  <1> USE DEF Acquire, Inv, key, local, process, history
  <1> DEFINE c == Cmd("set", "acquire", n)
  <1>0. n \in 1..TTL
    BY LockAssumption
  <1>1. PipesInv'
    <2>1. GoodPipe(pipe[p]) /\ ~Asks(pipe[p])
      BY DEF PipesInv, InFlight, Asks
    <2>2. GoodPipe(Append(pipe[p], c))
      BY <1>0, <2>1, SaneCmd, AppendPipe
    <2>3. pipe' = [pipe EXCEPT ![p] = Append(pipe[p], c)]
      BY DEF Send, Put
    <2> QED BY <2>2, <2>3, PipesChange
  <1>2. TypeOK'
    BY <1>1 DEF TypeOK, PipesInv
  <1>3. InCare'
    BY CareStays
  <1> QED BY <1>1, <1>2, <1>3

\* What a call that may be at risk records is TRUE or FALSE.
LEMMA RiskIsTold ==
    ASSUME NEW p \in Procs, NEW calls, Risks(p, calls)
    PROVE  risky' \in BOOLEAN
  BY DEF Risks

LEMMA ReleaseKeeps ==
    ASSUME Inv, NEW p \in Procs, Release(p)
    PROVE  Inv'
  <1> USE DEF Release, Inv, key, local, history
  <1>1. /\ using' \in [Procs -> BOOLEAN]
        /\ \A q \in Procs : using'[q] => using[q]
    BY DEF Put, TypeOK
  <1>2. 0 \in Int /\ 0 <= Longest
    BY LockAssumption DEF Longest
  <1>3. PipesInv'
    BY <1>1, <1>2, GetSend
  <1>8. risky' \in BOOLEAN
    BY RiskIsTold
  <1>4. TypeOK'
    BY <1>1, <1>3, <1>8 DEF TypeOK, PipesInv
  <1>5. InCare'
    BY <1>1, CareStays
  <1> QED BY <1>3, <1>4, <1>5

LEMMA ForceReleaseKeeps ==
    ASSUME Inv, NEW p \in Procs, ForceRelease(p)
    PROVE  Inv'
  <1> USE DEF ForceRelease, Inv, key, local, process
  <1>1. 0 \in Int /\ 0 <= Longest
    BY LockAssumption DEF Longest
  <1>2. PipesInv'
    BY <1>1, GetSend
  <1>3. TypeOK'
    BY <1>2, LockAssumption DEF TypeOK, PipesInv
  <1>4. InCare'
    BY CareStays
  <1> QED BY <1>2, <1>3, <1>4

LEMMA BeatKeeps ==
    ASSUME Inv, NEW p \in Procs, Beat(p)
    PROVE  Inv'
  <1> USE DEF Beat, Inv, key, local, history
  <1>1. PipesInv'
    <2>1. CASE Beats(p)
      <3>1. left[p] + ExtendBy \in Int /\ left[p] + ExtendBy <= Longest
        BY <2>1, LockAssumption DEF TypeOK, Beats, Longest
      <3> QED BY <2>1, <3>1, GetSend
    <2>2. CASE ~Beats(p)
      BY <2>2, PipesStay
    <2> QED BY <2>1, <2>2
  <1>2. since' \in [Procs -> 0..BeatEvery]
    BY LockAssumption DEF TypeOK, Put
  <1>8. risky' \in BOOLEAN
    BY RiskIsTold DEF TypeOK
  <1>3. TypeOK'
    BY <1>1, <1>2, <1>8 DEF TypeOK, PipesInv
  <1>4. InCare'
    BY CareStays
  <1> QED BY <1>1, <1>3, <1>4

LEMMA ShutdownKeeps ==
    ASSUME Inv, NEW p \in Procs, Shutdown(p)
    PROVE  Inv'
  <1> USE DEF Shutdown, Inv, key, local, history
  <1>1. /\ using' \in [Procs -> BOOLEAN]
        /\ \A q \in Procs : using'[q] => using[q]
    BY DEF Put, TypeOK
  <1>2. 0 \in Int /\ 0 <= Longest
    BY LockAssumption DEF Longest
  <1>3. PipesInv'
    <2>1. CASE entry[p]
      BY <2>1, <1>1, <1>2, GetSend
    <2>2. CASE ~entry[p]
      BY <2>2, <1>1, PipesStay
    <2> QED BY <2>1, <2>2
  <1>4. since' \in [Procs -> 0..BeatEvery]
    BY LockAssumption DEF TypeOK, Put
  <1>5. mode' \in [Procs -> {"down", "up", "closing"}]
    BY DEF TypeOK, Put
  <1>8. risky' \in BOOLEAN
    BY RiskIsTold DEF TypeOK
  <1>6. TypeOK'
    BY <1>1, <1>3, <1>4, <1>5, <1>8 DEF TypeOK, PipesInv
  <1>7. InCare'
    BY <1>1, CareStays
  <1> QED BY <1>3, <1>6, <1>7

\* The process ends with its pipe, and a key it owned is nobody's to use.
LEMMA EndsKeeps ==
    ASSUME Inv, NEW p \in Procs, Ends(p), faults' \in 0..MaxFaults
    PROVE  Inv'
  <1> USE DEF Ends, Inv
  <1>1. /\ using' \in [Procs -> BOOLEAN] /\ ~using'[p]
        /\ \A q \in Procs : using'[q] => using[q]
    BY DEF Put, TypeOK
  <1>2. PipesInv'
    BY <1>1, EmptyPipe, PipesChange DEF Put
  <1>3. /\ mode' \in [Procs -> {"down", "up", "closing"}]
        /\ entry' \in [Procs -> BOOLEAN]
        /\ left' \in [Procs -> Int]
    BY DEF Put, TypeOK
  <1>4. since' \in [Procs -> 0..BeatEvery]
    BY LockAssumption DEF Put, TypeOK
  <1>5. owner' \in Procs \union {Nobody, Former} /\ (ttl' = 0 <=> owner' = Nobody)
    BY LockAssumption DEF TypeOK
  <1>6. TypeOK'
    BY <1>1, <1>2, <1>3, <1>4, <1>5 DEF TypeOK, PipesInv
  <1>7. InCare'
    <2> SUFFICES ASSUME NEW q \in Procs, using'[q], owner' = q PROVE entry'[q]
      BY DEF InCare
    <2>1. q # p
      BY <1>1
    <2>2. using[q] /\ owner = q /\ entry'[q] = entry[q]
      BY <1>1, <2>1, LockAssumption DEF Put, TypeOK
    <2> QED BY <2>2 DEF InCare
  <1> QED BY <1>2, <1>6, <1>7

LEMMA ExitKeeps ==
    ASSUME Inv, NEW p \in Procs, Exit(p)
    PROVE  Inv'
  <1>1. faults' \in 0..MaxFaults
    BY DEF Inv, TypeOK, Exit
  <1> QED BY <1>1, EndsKeeps DEF Exit

LEMMA CrashKeeps ==
    ASSUME Inv, NEW p \in Procs, Crash(p)
    PROVE  Inv'
  <1>1. faults' \in 0..MaxFaults
    BY LockAssumption DEF Inv, TypeOK, Crash
  <1> QED BY <1>1, EndsKeeps DEF Crash

-----------------------------------------------------------------------------
(* The commands *)

\* The command Redis executes next, and what is left of the pipe.
LEMMA NextCommand ==
    ASSUME Inv, NEW p \in Procs, pipe[p] # <<>>
    PROVE  /\ GoodPipe(Rest(p)) /\ Sane(Head(pipe[p]))
           /\ Asks(Rest(p)) => Asks(pipe[p]) /\ ~using[p]
           /\ Head(pipe[p]).call = "acquire" => ~using[p] /\ ~Asks(Rest(p))
  BY TailPipe DEF Inv, PipesInv, Rest

\* A command is done and no process comes to use the lock.
LEMMA DoneKeeps ==
    ASSUME Inv, NEW p \in Procs, pipe[p] # <<>>, Done(p),
           \A q \in Procs : using'[q] => using[q]
    PROVE  PipesInv'
  BY NextCommand, PipesChange DEF Inv, Done, Put

\* The second command of a call replaces the first.
LEMMA ThenSendsKeeps ==
    ASSUME Inv, NEW p \in Procs, pipe[p] # <<>>, NEW d, ThenSends(p, d),
           Sane(d), d.call # "acquire", UNCHANGED using
    PROVE  PipesInv'
  <1>1. GoodPipe(Rest(p)) /\ (Asks(Rest(p)) => ~using[p])
    BY NextCommand
  <1>2. /\ GoodPipe(Append(Rest(p), d))
        /\ Asks(Append(Rest(p), d)) => Asks(Rest(p))
    BY <1>1, AppendPipe
  <1> QED BY <1>1, <1>2, PipesChange DEF Inv, ThenSends, Put

\* The entry of one process is written.
LEMMA EntryTypes ==
    ASSUME Inv, NEW p \in Procs, NEW t \in Int,
           Remember(p, t) \/ Forget(p) \/ UNCHANGED local
    PROVE  /\ entry' \in [Procs -> BOOLEAN] /\ left' \in [Procs -> Int]
           /\ \A q \in Procs : q # p => entry'[q] = entry[q]
           /\ Remember(p, t) => entry'[p]
  <1>1. entry \in [Procs -> BOOLEAN] /\ left \in [Procs -> Int]
    BY DEF Inv, TypeOK
  <1>2. CASE Remember(p, t)
    BY <1>1, <1>2 DEF Remember, Put
  <1>3. CASE Forget(p) /\ ~Remember(p, t)
    <2>1. entry' = [entry EXCEPT ![p] = FALSE] /\ left' = [left EXCEPT ![p] = 0]
      BY <1>3 DEF Forget, Put
    <2> QED BY <1>1, <1>3, <2>1
  <1>4. CASE UNCHANGED local /\ ~Remember(p, t)
    BY <1>1, <1>4 DEF local
  <1> QED BY <1>2, <1>3, <1>4

\* acquire() takes the key only when nobody has it; whoever used it before has
\* lost it, and the process that takes it enters it.
LEMMA SetKeeps ==
    ASSUME Inv, NEW p \in Procs, pipe[p] # <<>>, Set(p, Head(pipe[p])),
           UNCHANGED <<mode, since, history>>
    PROVE  Inv'
  <1> DEFINE c == Head(pipe[p])
  <1>1. /\ c \in Command /\ c.call = "acquire" /\ c.ttl \in 1..TTL
        /\ GoodPipe(Rest(p)) /\ ~Asks(Rest(p)) /\ ~using[p]
    BY NextCommand DEF Set, Sane
  <1>2. CASE ttl = 0
    <2>1. /\ owner' = p /\ ttl' = c.ttl /\ Remember(p, c.ttl - c.spent)
          /\ using' = [using EXCEPT ![p] = Up(p)]
          /\ pipe' = [pipe EXCEPT ![p] = [k \in DOMAIN Rest(p) |->
                                            [Rest(p)[k] EXCEPT !.info = FALSE]]]
      BY <1>1, <1>2 DEF Set, Put
    <2>2. c.ttl - c.spent \in Int
      BY <1>1, LockAssumption DEF Command
    <2>3. /\ entry' \in [Procs -> BOOLEAN] /\ left' \in [Procs -> Int] /\ entry'[p]
      BY <2>1, <2>2, EntryTypes
    <2>4. using' \in [Procs -> BOOLEAN] /\ (\A q \in Procs : using'[q] => using[q] \/ q = p)
      BY <2>1 DEF Inv, TypeOK, Up
    <2> DEFINE t == [k \in DOMAIN Rest(p) |-> [Rest(p)[k] EXCEPT !.info = FALSE]]
    <2>5. GoodPipe(t) /\ ~Asks(t)
      <3>1. /\ Rest(p) \in Seq(Command) /\ Len(Rest(p)) \in Nat
            /\ DOMAIN Rest(p) = 1..Len(Rest(p))
        BY <1>1 DEF GoodPipe
      <3>2. \A k \in DOMAIN Rest(p) : Rest(p)[k] \in Command
        BY <3>1
      <3>3. \A k \in DOMAIN Rest(p) :
               /\ t[k] \in Command /\ t[k].op = Rest(p)[k].op
               /\ t[k].call = Rest(p)[k].call /\ t[k].ttl = Rest(p)[k].ttl
        BY <3>2 DEF Command
      <3>4. t \in [1..Len(Rest(p)) -> Command]
        BY <3>1, <3>3
      <3>5. t \in Seq(Command) /\ DOMAIN t = DOMAIN Rest(p)
        BY <3>1, <3>4
      <3> HIDE DEF t
      <3> QED BY <1>1, <3>3, <3>5, MappedPipe
    <2>6. PipesInv'
      <3> HIDE DEF t
      <3>1. pipe' = [pipe EXCEPT ![p] = t]
        BY <2>1 DEF t
      <3> QED BY <2>4, <2>5, <3>1, PipesChange DEF Inv
    <2>7. TypeOK'
      <3>1. c.ttl \in 0..(TTL + ExtendBelow + ExtendBy) /\ c.ttl # 0 /\ p # Nobody
        BY <1>1, LockAssumption
      <3> QED BY <2>1, <2>3, <2>4, <2>6, <3>1 DEF Inv, TypeOK, PipesInv, history
    <2>8. InCare'
      BY <2>1, <2>3 DEF InCare
    <2> QED BY <2>6, <2>7, <2>8 DEF Inv
  <1>3. CASE ttl # 0
    <2>1. Done(p) /\ UNCHANGED <<key, local, using>>
      BY <1>3 DEF Set
    <2>2. PipesInv'
      BY <2>1, DoneKeeps
    <2>3. TypeOK' /\ InCare'
      BY <2>1, <2>2 DEF Inv, TypeOK, PipesInv, InCare, key, local, history
    <2> QED BY <2>2, <2>3 DEF Inv
  <1> QED BY <1>2, <1>3

\* A heartbeat gives an entry up only when it reads that the key is not its own.
LEMMA GetKeeps ==
    ASSUME Inv, NEW p \in Procs, pipe[p] # <<>>, Get(p, Head(pipe[p])),
           UNCHANGED <<mode, since, history>>
    PROVE  Inv'
  <1> DEFINE c == Head(pipe[p])
  <1>1. Sane(c) /\ c \in Command /\ c.op = "get" /\ c.call # "acquire"
    BY NextCommand DEF Get, Sane
  <1>2. UNCHANGED <<key, using>>
    BY DEF Get
  <1>3. \/ ThenSends(p, [c EXCEPT !.op = "expire"]) /\ UNCHANGED local
        \/ Done(p) /\ Forget(p) /\ owner # p
        \/ ThenSends(p, [c EXCEPT !.op = "del", !.own = owner = p]) /\ UNCHANGED local
        \/ Done(p) /\ UNCHANGED local
    BY DEF Get
  <1>4. PipesInv'
    <2>1. CASE Done(p)
      BY <1>2, <2>1, DoneKeeps
    <2>2. CASE ThenSends(p, [c EXCEPT !.op = "expire"])
      <3> DEFINE d == [c EXCEPT !.op = "expire"]
      <3>1. Sane(d) /\ d.call # "acquire"
        BY <1>1 DEF Sane, Command
      <3> HIDE DEF d
      <3>2. ThenSends(p, d)
        BY <2>2 DEF d
      <3> QED BY <1>2, <3>1, <3>2, ThenSendsKeeps
    <2>3. CASE ThenSends(p, [c EXCEPT !.op = "del", !.own = owner = p])
      <3> DEFINE d == [c EXCEPT !.op = "del", !.own = owner = p]
      <3>1. (owner = p) \in BOOLEAN
        OBVIOUS
      <3>2. Sane(d) /\ d.call # "acquire"
        BY <1>1, <3>1 DEF Sane, Command
      <3> HIDE DEF d
      <3>3. ThenSends(p, d)
        BY <2>3 DEF d
      <3> QED BY <1>2, <3>2, <3>3, ThenSendsKeeps
    <2> QED BY <1>3, <2>1, <2>2, <2>3
  <1>5. /\ entry' \in [Procs -> BOOLEAN] /\ left' \in [Procs -> Int]
        /\ \A q \in Procs : entry'[q] = entry[q] \/ owner # q
    <2>1. Forget(p) \/ UNCHANGED local
      BY <1>3
    <2>2. /\ entry' \in [Procs -> BOOLEAN] /\ left' \in [Procs -> Int]
          /\ \A q \in Procs : q # p => entry'[q] = entry[q]
      BY <2>1, EntryTypes, 0 \in Int
    <2> QED BY <1>3, <2>2 DEF local
  <1>6. TypeOK' /\ InCare'
    BY <1>2, <1>4, <1>5 DEF Inv, TypeOK, PipesInv, InCare, key, history
  <1> QED BY <1>4, <1>6 DEF Inv

\* EXPIRE finds the key gone, extends it, or ends its life at once.
LEMMA ExpireKeeps ==
    ASSUME Inv, NEW p \in Procs, pipe[p] # <<>>, Expire(p, Head(pipe[p])),
           UNCHANGED <<mode, since, history>>
    PROVE  Inv'
  <1> DEFINE c == Head(pipe[p])
  <1>1. c \in Command /\ c.ttl \in Int /\ c.spent \in Nat /\ c.ttl <= Longest
    BY NextCommand DEF Sane, Command
  <1>2. UNCHANGED using /\ Done(p)
    BY DEF Expire
  <1>3. PipesInv'
    BY <1>2, DoneKeeps
  <1>4. \/ ttl = 0 /\ Forget(p) /\ UNCHANGED key
        \/ /\ ttl # 0
           /\ Remember(p, c.ttl - c.spent) \/ UNCHANGED local
           /\ (c.ttl > 0 /\ ttl' = c.ttl /\ UNCHANGED owner) \/ Gone
    BY DEF Expire
  <1>5. c.ttl - c.spent \in Int
    BY <1>1
  <1>6. /\ entry' \in [Procs -> BOOLEAN] /\ left' \in [Procs -> Int]
        /\ \A q \in Procs : (entry[q] => entry'[q]) \/ owner # q
    <2>1. Remember(p, c.ttl - c.spent) \/ Forget(p) \/ UNCHANGED local
      BY <1>4
    <2> HIDE DEF c
    <2>2. /\ entry' \in [Procs -> BOOLEAN] /\ left' \in [Procs -> Int]
          /\ \A q \in Procs : q # p => entry'[q] = entry[q]
          /\ Remember(p, c.ttl - c.spent) => entry'[p]
      BY <1>5, <2>1, EntryTypes
    <2>3. ttl = 0 => owner # p
      BY LockAssumption DEF Inv, TypeOK
    <2> QED BY <1>4, <2>2, <2>3 DEF local
  <1>7. /\ owner' \in Procs \union {Nobody, Former}
        /\ ttl' \in 0..(TTL + ExtendBelow + ExtendBy)
        /\ ttl' = 0 <=> owner' = Nobody
        /\ \A q \in Procs : owner' = q => owner = q
    BY <1>1, <1>4, LockAssumption DEF Inv, TypeOK, key, Gone, Longest
  <1>8. TypeOK' /\ InCare'
    BY <1>2, <1>3, <1>6, <1>7 DEF Inv, TypeOK, PipesInv, InCare, history
  <1> QED BY <1>3, <1>8 DEF Inv

\* After DEL the key is nobody's.
LEMMA DelKeeps ==
    ASSUME Inv, NEW p \in Procs, pipe[p] # <<>>, Del(p, Head(pipe[p])),
           UNCHANGED <<mode, since, history>>
    PROVE  Inv'
  <1>1. UNCHANGED using /\ Done(p) /\ Gone /\ (Forget(p) \/ UNCHANGED local)
    BY DEF Del
  <1>2. PipesInv'
    BY <1>1, DoneKeeps
  <1>3. entry' \in [Procs -> BOOLEAN] /\ left' \in [Procs -> Int]
    BY <1>1, EntryTypes, 0 \in Int
  <1>4. TypeOK' /\ InCare'
    BY <1>1, <1>2, <1>3, LockAssumption DEF Inv, TypeOK, PipesInv, InCare, Gone, history
  <1> QED BY <1>2, <1>4 DEF Inv

LEMMA RedisKeeps ==
    ASSUME Inv, NEW p \in Procs, Redis(p)
    PROVE  Inv'
  BY SetKeeps, GetKeeps, ExpireKeeps, DelKeeps DEF Redis

\* A command that fails for its caller leaves what the caller remembers.
LEMMA CommandFailsKeeps ==
    ASSUME Inv, NEW p \in Procs, CommandFails(p)
    PROVE  Inv'
  <1> DEFINE c == Head(pipe[p])
  <1>1. /\ pipe[p] # <<>> /\ Done(p) /\ UNCHANGED <<process, forced, risky, local>>
        /\ faults < MaxFaults /\ faults' = faults + 1
    BY DEF CommandFails, AfterError
  <1>2. /\ c.ttl \in Int /\ c.ttl <= Longest
        /\ c.op = "set" => c.ttl \in 1..TTL /\ ~using[p]
    BY <1>1, NextCommand DEF Sane, Command
  <1>3. PipesInv'
    BY <1>1, DoneKeeps DEF process
  <1>4. \/ UNCHANGED key
        \/ c.op = "set" /\ owner' = p /\ ttl' = c.ttl
        \/ ttl > 0 /\ c.ttl > 0 /\ ttl' = c.ttl /\ UNCHANGED owner
        \/ Gone
    BY DEF CommandFails
  <1>5. /\ owner' \in Procs \union {Nobody, Former}
        /\ ttl' \in 0..(TTL + ExtendBelow + ExtendBy)
        /\ ttl' = 0 <=> owner' = Nobody
        /\ \A q \in Procs : owner' = q => owner = q \/ ~using[q]
    BY <1>2, <1>4, LockAssumption DEF Inv, TypeOK, key, Gone, Longest
  <1>6. TypeOK' /\ InCare'
    BY <1>1, <1>3, <1>5, LockAssumption
    DEF Inv, TypeOK, PipesInv, InCare, process, local
  <1> QED BY <1>3, <1>6 DEF Inv

\* Time passes.
LEMMA TickKeeps ==
    ASSUME Inv, Tick
    PROVE  Inv'
  <1> USE DEF Tick, Inv, history
  <1>1. ASSUME NEW p \in Procs
        PROVE  /\ pipe'[p] \in Seq(Command) /\ GoodPipe(pipe'[p])
               /\ Asks(pipe'[p]) => Asks(pipe[p])
    <2> DEFINE s == pipe[p]
               t == [k \in DOMAIN s |-> [s[k] EXCEPT !.spent = @ + 1]]
    <2>1. /\ GoodPipe(s) /\ s \in Seq(Command) /\ Len(s) \in Nat
          /\ DOMAIN s = 1..Len(s)
      BY DEF PipesInv, GoodPipe
    <2>2. \A k \in DOMAIN s : s[k] \in Command
      BY <2>1
    <2>3. ASSUME NEW k \in DOMAIN s
          PROVE  /\ t[k] \in Command /\ t[k].op = s[k].op
                 /\ t[k].call = s[k].call /\ t[k].ttl = s[k].ttl
      <3>1. t[k] = [s[k] EXCEPT !.spent = s[k].spent + 1]
        OBVIOUS
      <3> HIDE DEF t
      <3>2. s[k] \in Command
        BY <2>2
      <3> HIDE DEF s, Tick, Inv
      <3>3. s[k].spent + 1 \in Nat
        BY <3>2 DEF Command
      <3> QED BY <3>1, <3>2, <3>3 DEF Command
    <2>4. t \in [1..Len(s) -> Command]
      BY <2>1, <2>3
    <2>5. t \in Seq(Command) /\ DOMAIN t = DOMAIN s
      BY <2>1, <2>4
    <2>6. pipe'[p] = t
      OBVIOUS
    <2> HIDE DEF s, t
    <2>7. GoodPipe(t) /\ (Asks(t) => Asks(s))
      BY <2>1, <2>3, <2>5, MappedPipe
    <2> QED BY <2>5, <2>6, <2>7 DEF s
  <1>2. PipesInv'
    <2>1. pipe' \in [Procs -> Seq(Command)]
      BY <1>1
    <2> QED BY <1>1, <2>1 DEF PipesInv
  <1>3. /\ owner' \in Procs \union {Nobody, Former}
        /\ ttl' \in 0..(TTL + ExtendBelow + ExtendBy)
        /\ ttl' = 0 <=> owner' = Nobody
        /\ \A q \in Procs : owner' = q => owner = q
    BY LockAssumption DEF TypeOK
  <1>4. left' \in [Procs -> Int] /\ since' \in [Procs -> 0..BeatEvery]
    <2>1. \A p \in Procs : left[p] \in Int /\ left[p] - 1 \in Int
      BY DEF TypeOK
    <2>2. left' \in [Procs -> Int]
      <3>1. left' = [p \in Procs |->
                       IF entry[p] /\ left[p] > -ExtendBy THEN left[p] - 1 ELSE left[p]]
        OBVIOUS
      <3>2. \A p \in Procs :
               (IF entry[p] /\ left[p] > -ExtendBy THEN left[p] - 1 ELSE left[p]) \in Int
        BY <2>1
      <3> HIDE DEF Tick, Inv
      <3> QED BY <3>1, <3>2
    <2>3. ASSUME NEW p \in Procs
          PROVE  since[p] + 1 \in 0..BeatEvery /\ 0 \in 0..BeatEvery
      <3>1. since[p] \in 0..BeatEvery
        BY DEF TypeOK
      <3>2. since[p] < BeatEvery
        BY DEF OnTime
      <3>3. BeatEvery \in Nat
        BY LockAssumption
      <3> HIDE DEF Tick, Inv
      <3> QED BY <3>1, <3>2, <3>3
    <2>4. since' \in [Procs -> 0..BeatEvery]
      BY <2>3
    <2> QED BY <2>2, <2>4
  <1>5. TypeOK'
    BY <1>2, <1>3, <1>4 DEF TypeOK, PipesInv
  <1>6. InCare'
    BY <1>3 DEF InCare
  <1> QED BY <1>2, <1>5, <1>6

-----------------------------------------------------------------------------
(* The theorems *)

LEMMA NextKeeps == Inv /\ [Next]_vars => Inv'
  <1> SUFFICES ASSUME Inv, [Next]_vars PROVE Inv'
    OBVIOUS
  <1>1. CASE UNCHANGED vars
    BY <1>1 DEF Inv, TypeOK, PipesInv, InCare, vars, key, local, process, history
  <1>2. CASE Next
    BY <1>2, InitializeKeeps, AcquireKeeps, ReleaseKeeps, ForceReleaseKeeps,
       BeatKeeps, ShutdownKeeps, ExitKeeps, CrashKeeps, RedisKeeps,
       CommandFailsKeeps, TickKeeps DEF Next
  <1> QED BY <1>1, <1>2

LEMMA Invariance == Spec => []Inv
  BY InitInv, NextKeeps, PTL DEF Spec

\* The variables have their types: in particular the key exists exactly when it
\* has an owner, and no number of heartbeats extends it beyond what one asks for.
THEOREM TypeCorrect == Spec => []TypeOK
  <1>1. Inv => TypeOK
    BY DEF Inv
  <1> QED BY <1>1, Invariance, PTL

\* A lock that is in use is in activeLocks, where the heartbeat finds it, for any
\* number of processes, any periods and lifetimes, and whatever is late or fails.
THEOREM LockStaysInCare == Spec => []InCare
  <1>1. Inv => InCare
    BY DEF Inv
  <1> QED BY <1>1, Invariance, PTL
-----------------------------------------------------------------------------
(* The section.  While no call is at risk, a call that was told that its process *)
(* owns the key still does when it writes.                                       *)

\* Commands in flight, as a set.
In(s) == {s[k] : k \in DOMAIN s}

\* What may follow a command of the same process: an acquire() comes last but for
\* the second command of a call before it; a release() is the last of the calls that
\* read the key, and a heartbeat is alone.
Before(a, b) ==
    /\ a.call = "acquire" => b.op # "get" /\ b.call # "acquire"
    /\ a.call = "release" => b.call = "acquire" \/ (a.op = "get" /\ b.op = "expire")
    /\ a.call = "beat" => b.call # "beat"
    /\ a.op = "get" => b.op # "del"

Ordered(s) == \A i, k \in DOMAIN s : i < k => Before(s[i], s[k])

\* A command in flight of p: one that finds or found the key its own will write it
\* before the key expires.
Flies(p, c) ==
    /\ c.call # "force" /\ c.spent <= Latency
    /\ c.op = "expire" => c.call = "beat"
    /\ c.op = "del" => c.call = "release"
    /\ c.call = "release" => ~using[p]
    /\ c.call = "beat" => c.info /\ c.ttl > Latency /\ c.ttl - c.spent >= left[p]
    /\ c.op # "set" /\ (c.op # "get" \/ owner = p) => owner = p /\ ttl + c.spent > Latency

\* The key outlives what its owner remembers of it.
Remembers(p) ==
    /\ ~entry[p] => left[p] = 0
    /\ using[p] /\ left[p] > 0 => owner = p /\ ttl >= left[p]

Safe(p) == /\ Ordered(pipe[p])
           /\ \A c \in In(pipe[p]) : Flies(p, c)
           /\ Remembers(p)

Section == \A p \in Procs : Safe(p)

-----------------------------------------------------------------------------
(* Pipes, their order and their commands *)

LEMMA OrderEmpty == Ordered(<<>>) /\ In(<<>>) = {}
  BY DEF Ordered, In

LEMMA OrderAppend ==
    ASSUME NEW s \in Seq(Command), NEW c \in Command
    PROVE  /\ In(Append(s, c)) = In(s) \union {c}
           /\ Ordered(s) /\ (\A b \in In(s) : Before(b, c)) => Ordered(Append(s, c))
  <1> DEFINE t == Append(s, c)
  <1>1. /\ Len(s) \in Nat /\ DOMAIN s = 1..Len(s) /\ DOMAIN t = 1..(Len(s) + 1)
        /\ Len(s) + 1 \in DOMAIN t /\ t[Len(s) + 1] = c
    OBVIOUS
  <1>2. \A k \in DOMAIN s : k \in DOMAIN t /\ t[k] = s[k]
    BY <1>1
  <1>3. \A k \in DOMAIN t : \/ k \in DOMAIN s /\ t[k] = s[k]
                            \/ k = Len(s) + 1 /\ t[k] = c
    BY <1>1
  <1> HIDE DEF t
  <1>4. In(t) = In(s) \union {c}
    <2>1. In(t) \subseteq In(s) \union {c}
      BY <1>3 DEF In
    <2>2. In(s) \subseteq In(t)
      BY <1>2 DEF In
    <2>3. c \in In(t)
      BY <1>1 DEF In
    <2> QED BY <2>1, <2>2, <2>3
  <1>5. ASSUME Ordered(s), \A b \in In(s) : Before(b, c)
        PROVE  Ordered(t)
    <2> SUFFICES ASSUME NEW i \in DOMAIN t, NEW k \in DOMAIN t, i < k
                 PROVE  Before(t[i], t[k])
      BY DEF Ordered
    <2>1. i \in DOMAIN s /\ t[i] = s[i] /\ s[i] \in In(s)
      BY <1>1, <1>3 DEF In
    <2>2. CASE k \in DOMAIN s
      BY <1>2, <1>5, <2>1, <2>2 DEF Ordered
    <2>3. CASE k \notin DOMAIN s
      BY <1>3, <1>5, <2>1, <2>3
    <2> QED BY <2>2, <2>3
  <1> QED BY <1>4, <1>5 DEF t

LEMMA OrderTail ==
    ASSUME NEW s \in Seq(Command), s # <<>>
    PROVE  /\ Tail(s) \in Seq(Command) /\ Head(s) \in Command
           /\ In(s) = In(Tail(s)) \union {Head(s)}
           /\ Ordered(s) => /\ Ordered(Tail(s))
                            /\ \A b \in In(Tail(s)) : Before(Head(s), b)
  <1> DEFINE t == Tail(s)
  <1>1. /\ t \in Seq(Command) /\ Len(s) \in Nat /\ Len(s) > 0
        /\ DOMAIN s = 1..Len(s) /\ DOMAIN t = 1..(Len(s) - 1)
        /\ Head(s) = s[1] /\ 1 \in DOMAIN s /\ Head(s) \in Command
    OBVIOUS
  <1>2. \A k \in DOMAIN t : /\ k + 1 \in DOMAIN s /\ t[k] = s[k + 1]
                            /\ k \in Nat /\ k > 0
    BY <1>1
  <1>3. \A k \in DOMAIN s : k # 1 => k - 1 \in DOMAIN t /\ t[k - 1] = s[k]
    BY <1>1
  <1> HIDE DEF t
  <1>4. In(s) = In(t) \union {Head(s)}
    <2>1. In(t) \subseteq In(s)
      BY <1>2 DEF In
    <2>2. Head(s) \in In(s)
      BY <1>1 DEF In
    <2>3. In(s) \subseteq In(t) \union {Head(s)}
      BY <1>1, <1>3 DEF In
    <2> QED BY <2>1, <2>2, <2>3
  <1>5. ASSUME Ordered(s)
        PROVE  Ordered(t) /\ \A b \in In(t) : Before(Head(s), b)
    <2>1. ASSUME NEW i \in DOMAIN t, NEW k \in DOMAIN t, i < k PROVE Before(t[i], t[k])
      <3>1. i + 1 < k + 1 /\ i + 1 \in DOMAIN s /\ k + 1 \in DOMAIN s
        BY <1>2, <2>1
      <3>2. Before(s[i + 1], s[k + 1])
        BY <1>5, <3>1 DEF Ordered
      <3> QED BY <1>2, <3>2
    <2>2. ASSUME NEW k \in DOMAIN t PROVE Before(Head(s), t[k])
      <3>1. 1 < k + 1 /\ k + 1 \in DOMAIN s
        BY <1>2
      <3>2. Before(s[1], s[k + 1])
        BY <1>1, <1>5, <3>1 DEF Ordered
      <3> QED BY <1>1, <1>2, <3>2
    <2> QED BY <2>1, <2>2 DEF Ordered, In
  <1> QED BY <1>1, <1>4, <1>5 DEF t

\* What each way to change a pipe does to the commands in flight.
OthersFly(p) == \A q \in Procs : q # p => pipe'[q] = pipe[q]

LEMMA SendFlies ==
    ASSUME PipesInv, NEW p \in Procs, NEW c \in Command, Send(p, c)
    PROVE  /\ In(pipe'[p]) = In(pipe[p]) \union {c}
           /\ Ordered(pipe[p]) /\ (\A b \in In(pipe[p]) : Before(b, c))
                 => Ordered(pipe'[p])
           /\ OthersFly(p)
  <1>1. pipe[p] \in Seq(Command) /\ pipe'[p] = Append(pipe[p], c)
    BY DEF PipesInv, Send, Put
  <1>2. OthersFly(p)
    BY DEF PipesInv, Send, Put, OthersFly
  <1> QED BY <1>1, <1>2, OrderAppend

LEMMA DoneFlies ==
    ASSUME PipesInv, NEW p \in Procs, pipe[p] # <<>>, Done(p)
    PROVE  pipe'[p] = Rest(p) /\ OthersFly(p)
  BY DEF PipesInv, Done, Put, OthersFly

LEMMA ThenFlies ==
    ASSUME PipesInv, NEW p \in Procs, pipe[p] # <<>>, NEW d \in Command, ThenSends(p, d)
    PROVE  /\ In(pipe'[p]) = In(Rest(p)) \union {d}
           /\ Ordered(Rest(p)) /\ (\A b \in In(Rest(p)) : Before(b, d))
                 => Ordered(pipe'[p])
           /\ OthersFly(p)
  <1>1. /\ pipe[p] \in Seq(Command) /\ Rest(p) = Tail(pipe[p])
        /\ pipe'[p] = Append(Rest(p), d)
    BY DEF PipesInv, ThenSends, Rest, Put
  <1>2. OthersFly(p)
    BY DEF PipesInv, ThenSends, Put, OthersFly
  <1>3. Rest(p) \in Seq(Command)
    BY <1>1, OrderTail
  <1> QED BY <1>1, <1>2, <1>3, OrderAppend

\* The command Redis executes next, and those behind it.
LEMMA NextFlies ==
    ASSUME Inv, NEW p \in Procs, Safe(p), pipe[p] # <<>>
    PROVE  /\ Head(pipe[p]) \in Command /\ Flies(p, Head(pipe[p]))
           /\ Sane(Head(pipe[p]))
           /\ Ordered(Rest(p))
           /\ \A b \in In(Rest(p)) : /\ b \in Command /\ Sane(b) /\ Flies(p, b)
                                     /\ Before(Head(pipe[p]), b)
  <1>1. pipe[p] \in Seq(Command) /\ Rest(p) = Tail(pipe[p])
    BY DEF Inv, PipesInv, Rest
  <1>2. \A b \in In(pipe[p]) : b \in Command /\ Sane(b) /\ Flies(p, b)
    BY <1>1 DEF Inv, PipesInv, GoodPipe, In, Safe
  <1>3. /\ Head(pipe[p]) \in Command
        /\ In(pipe[p]) = In(Rest(p)) \union {Head(pipe[p])}
        /\ Ordered(Rest(p)) /\ \A b \in In(Rest(p)) : Before(Head(pipe[p]), b)
    BY <1>1, OrderTail DEF Safe
  <1> QED BY <1>2, <1>3

-----------------------------------------------------------------------------
(* The processes beside the one that moves *)

\* The key is not p's and does not become it, or it stays as it is.
KeyBeside(p) == (owner' = owner /\ ttl' = ttl) \/ (owner # p /\ owner' # p)

LEMMA BesideSafe ==
    ASSUME NEW q \in Procs, Safe(q), pipe'[q] = pipe[q], using'[q] = using[q],
           entry'[q] = entry[q], left'[q] = left[q], KeyBeside(q)
    PROVE  Safe(q)'
  <1>1. ASSUME NEW c, Flies(q, c) PROVE Flies(q, c)'
    BY <1>1 DEF Flies, KeyBeside
  <1>2. Remembers(q)'
    BY DEF Safe, Remembers, KeyBeside
  <1>3. Ordered(pipe'[q]) /\ \A c \in In(pipe'[q]) : Flies(q, c)'
    BY <1>1 DEF Safe
  <1> QED BY <1>2, <1>3 DEF Safe

\* A step of p that leaves the local state of the others alone.
LEMMA SectionStep ==
    ASSUME Section, NEW p \in Procs, OthersFly(p),
           \A q \in Procs : q # p => /\ using'[q] = using[q] /\ entry'[q] = entry[q]
                                     /\ left'[q] = left[q] /\ KeyBeside(q),
           Safe(p)'
    PROVE  Section'
  <1> SUFFICES ASSUME NEW q \in Procs, q # p PROVE Safe(q)'
    BY DEF Section
  <1> QED BY BesideSafe DEF Section, OthersFly

\* The commands of p when nothing raises what p remembers and the key stays.
LEMMA FliesStill ==
    ASSUME NEW p \in Procs, NEW c, Flies(p, c), UNCHANGED key,
           using'[p] => using[p], left'[p] = left[p]
    PROVE  Flies(p, c)'
  BY DEF Flies, key

-----------------------------------------------------------------------------
(* The calls *)

LEMMA SectionStays ==
    ASSUME Section, UNCHANGED <<key, local, using, pipe>>
    PROVE  Section'
  BY DEF Section, Safe, Flies, Remembers, key, local

LEMMA AcquireSafe ==
    ASSUME Inv, Section, NEW p \in Procs, NEW n \in Lifetimes, Acquire(p, n)
    PROVE  Section'
  <1> DEFINE c == Cmd("set", "acquire", n)
  <1>0. n \in 1..TTL
    BY LockAssumption
  <1>1. /\ c \in Command /\ c.op = "set" /\ c.call = "acquire" /\ c.spent = 0
        /\ Sane(c)
    <2>1. c \in Command
      BY <1>0 DEF Cmd, Command, Calls
    <2>2. c.op = "set" /\ c.call = "acquire" /\ c.spent = 0
      BY DEF Cmd
    <2> QED BY <1>0, <2>1, <2>2, SaneCmd
  <1>2. Send(p, c) /\ ~InFlight(p, "acquire") /\ UNCHANGED <<key, local, using>>
    BY DEF Acquire, process
  <1>3. Safe(p) /\ PipesInv /\ Latency \in Nat
    BY LockAssumption DEF Section, Inv
  <1> HIDE DEF c
  <1>4. /\ In(pipe'[p]) = In(pipe[p]) \union {c}
        /\ Ordered(pipe[p]) /\ (\A b \in In(pipe[p]) : Before(b, c)) => Ordered(pipe'[p])
        /\ OthersFly(p)
    BY <1>1, <1>2, <1>3, SendFlies
  <1>5. \A b \in In(pipe[p]) : Before(b, c)
    BY <1>1, <1>2 DEF Before, InFlight, In
  <1>6. \A b \in In(pipe[p]) : Flies(p, b)'
    BY <1>2, <1>3, FliesStill DEF Safe, local
  <1>7. Flies(p, c)'
    BY <1>1, <1>3 DEF Flies
  <1>8. Remembers(p)'
    BY <1>2, <1>3 DEF Safe, Remembers, key, local
  <1>9. Safe(p)'
    BY <1>3, <1>4, <1>5, <1>6, <1>7, <1>8 DEF Safe
  <1> QED BY <1>2, <1>4, <1>9, SectionStep DEF KeyBeside, key, local

\* A call that reads the key, to write it later, and is not at risk.
LEMMA AskSafe ==
    ASSUME Inv, Section, NEW p \in Procs, NEW call \in {"beat", "release"}, NEW t \in Int,
           Send(p, Cmd("get", call, t)), UNCHANGED <<key, local>>,
           left[p] > Latency, owner = p => ttl > Latency,
           ~InFlight(p, "acquire"), ~InFlight(p, "release"),
           \A q \in Procs : using'[q] => using[q],
           \A q \in Procs : q # p => using'[q] = using[q],
           call = "release" => ~using'[p],
           call = "beat" => t = left[p] + ExtendBy /\ ~InFlight(p, "beat")
    PROVE  Section'
  <1> DEFINE c == Cmd("get", call, t)
  <1>1. /\ c \in Command /\ c.op = "get" /\ c.call = call /\ c.spent = 0
        /\ c.ttl = t /\ c.info = TRUE
    <2>1. c \in Command
      BY DEF Cmd, Command, Calls
    <2>2. c.op = "get" /\ c.call = call /\ c.spent = 0 /\ c.ttl = t /\ c.info = TRUE
      BY DEF Cmd
    <2> QED BY <2>1, <2>2
  <1>2. Send(p, c)
    OBVIOUS
  <1>3. Safe(p) /\ PipesInv /\ Latency \in Nat /\ ExtendBy \in Nat /\ left[p] \in Int
        /\ ttl \in Nat
    BY LockAssumption DEF Section, Inv, TypeOK
  <1> HIDE DEF c
  <1>4. /\ In(pipe'[p]) = In(pipe[p]) \union {c}
        /\ Ordered(pipe[p]) /\ (\A b \in In(pipe[p]) : Before(b, c)) => Ordered(pipe'[p])
        /\ OthersFly(p)
    BY <1>1, <1>2, <1>3, SendFlies
  <1>5. \A b \in In(pipe[p]) : Before(b, c)
    <2> SUFFICES ASSUME NEW b \in In(pipe[p]) PROVE Before(b, c)
      OBVIOUS
    <2>1. b.call # "acquire" /\ b.call # "release" /\ (call = "beat" => b.call # "beat")
      BY DEF InFlight, In
    <2> QED BY <1>1, <2>1 DEF Before
  <1>6. \A b \in In(pipe[p]) : Flies(p, b)'
    BY <1>3, FliesStill DEF Safe, local
  <1>7. Flies(p, c)'
    <2>1. c.call = "beat" => c.info /\ c.ttl > Latency /\ c.ttl - c.spent >= left[p]
      BY <1>1, <1>3
    <2>2. owner = p => ttl + c.spent > Latency
      BY <1>1, <1>3
    <2>3. c.call # "force" /\ c.spent <= Latency /\ (c.call = "release" => ~using'[p])
      BY <1>1, <1>3
    <2> QED BY <1>1, <2>1, <2>2, <2>3 DEF Flies, key, local
  <1>8. Remembers(p)'
    BY <1>3 DEF Safe, Remembers, key, local
  <1>9. Safe(p)'
    BY <1>3, <1>4, <1>5, <1>6, <1>7, <1>8 DEF Safe
  <1> QED BY <1>4, <1>9, SectionStep DEF KeyBeside, key, local

\* What a call that is not at risk knows.
LEMMA NoRisk ==
    ASSUME NEW p \in Procs, NEW calls, Risks(p, calls), ~risky', Inv
    PROVE  /\ left[p] > Latency /\ (owner = p => ttl > Latency)
           /\ \A call \in calls : ~InFlight(p, call)
  <1>1. left[p] \in Int /\ ttl \in Int /\ Latency \in Int
    BY LockAssumption DEF Inv, TypeOK
  <1>2. ~(left[p] <= Latency) /\ ~(owner = p /\ ttl <= Latency)
        /\ ~\E call \in calls : InFlight(p, call)
    BY DEF Risks
  <1> QED BY <1>1, <1>2

LEMMA UseEnds ==
    ASSUME NEW p \in Procs, using \in [Procs -> BOOLEAN], using' = Put(using, p, FALSE)
    PROVE  /\ ~using'[p] /\ \A q \in Procs : using'[q] => using[q]
           /\ \A q \in Procs : q # p => using'[q] = using[q]
  BY DEF Put

LEMMA ReleaseSafe ==
    ASSUME Inv, Section, ~risky', NEW p \in Procs, Release(p)
    PROVE  Section'
  <1>1. /\ Send(p, Cmd("get", "release", 0)) /\ Risks(p, {"acquire", "release"})
        /\ UNCHANGED <<key, local>> /\ using' = Put(using, p, FALSE)
    BY DEF Release
  <1>2. /\ left[p] > Latency /\ (owner = p => ttl > Latency)
        /\ ~InFlight(p, "acquire") /\ ~InFlight(p, "release")
    BY <1>1, NoRisk
  <1>3. /\ ~using'[p] /\ \A q \in Procs : using'[q] => using[q]
        /\ \A q \in Procs : q # p => using'[q] = using[q]
    BY <1>1, UseEnds DEF Inv, TypeOK
  <1>4. /\ "release" \in {"beat", "release"} /\ 0 \in Int /\ "release" # "beat"
    OBVIOUS
  <1> QED BY <1>1, <1>2, <1>3, <1>4, AskSafe

LEMMA ShutdownSafe ==
    ASSUME Inv, Section, ~risky', NEW p \in Procs, Shutdown(p)
    PROVE  Section'
  <1>1. UNCHANGED <<key, local>> /\ using' = Put(using, p, FALSE)
    BY DEF Shutdown
  <1>2. /\ ~using'[p] /\ \A q \in Procs : using'[q] => using[q]
        /\ \A q \in Procs : q # p => using'[q] = using[q]
    BY <1>1, UseEnds DEF Inv, TypeOK
  <1>3. CASE entry[p]
    <2>1. Send(p, Cmd("get", "release", 0)) /\ Risks(p, {"acquire", "release"})
      BY <1>3 DEF Shutdown
    <2>2. /\ left[p] > Latency /\ (owner = p => ttl > Latency)
          /\ ~InFlight(p, "acquire") /\ ~InFlight(p, "release")
      BY <2>1, NoRisk
    <2>3. /\ "release" \in {"beat", "release"} /\ 0 \in Int /\ "release" # "beat"
      OBVIOUS
    <2> QED BY <1>1, <1>2, <2>1, <2>2, <2>3, AskSafe
  <1>4. CASE ~entry[p]
    <2>1. UNCHANGED pipe
      BY <1>4 DEF Shutdown
    <2>2. Safe(p)
      BY DEF Section
    <2>3. \A b \in In(pipe[p]) : Flies(p, b)'
      BY <1>1, <1>2, <2>2, FliesStill DEF Safe, local
    <2>4. Remembers(p)'
      BY <1>1, <1>2, <2>2 DEF Safe, Remembers, key, local
    <2>5. Safe(p)'
      BY <2>1, <2>2, <2>3, <2>4 DEF Safe
    <2> QED BY <1>1, <1>2, <2>1, <2>5, SectionStep DEF KeyBeside, OthersFly, key, local
  <1> QED BY <1>3, <1>4

LEMMA BeatSafe ==
    ASSUME Inv, Section, ~risky', NEW p \in Procs, Beat(p)
    PROVE  Section'
  <1>1. UNCHANGED <<key, local, using>>
    BY DEF Beat
  <1>2. CASE Beats(p)
    <2>1. Send(p, Cmd("get", "beat", left[p] + ExtendBy)) /\ Risks(p, Calls)
      BY <1>2 DEF Beat
    <2>2. /\ left[p] > Latency /\ (owner = p => ttl > Latency)
          /\ ~InFlight(p, "acquire") /\ ~InFlight(p, "release") /\ ~InFlight(p, "beat")
      BY <2>1, NoRisk DEF Calls
    <2>3. left[p] + ExtendBy \in Int
      BY LockAssumption DEF Inv, TypeOK
    <2> QED BY <1>1, <2>1, <2>2, <2>3, AskSafe
  <1>3. CASE ~Beats(p)
    <2>1. UNCHANGED pipe
      BY <1>3 DEF Beat
    <2> QED BY <1>1, <2>1, SectionStays
  <1> QED BY <1>2, <1>3

LEMMA EndsSafe ==
    ASSUME Inv, Section, NEW p \in Procs, Ends(p)
    PROVE  Section'
  <1>1. /\ pipe'[p] = <<>> /\ ~using'[p] /\ ~entry'[p] /\ left'[p] = 0
        /\ \A q \in Procs : q # p =>
              /\ pipe'[q] = pipe[q] /\ using'[q] = using[q]
              /\ entry'[q] = entry[q] /\ left'[q] = left[q]
    BY DEF Ends, Put, Inv, TypeOK, PipesInv
  <1>2. \A q \in Procs : q # p => KeyBeside(q)
    BY LockAssumption DEF Ends, KeyBeside
  <1>3. Safe(p)'
    BY <1>1, OrderEmpty DEF Safe, Remembers
  <1> QED BY <1>1, <1>2, <1>3, SectionStep DEF OthersFly

-----------------------------------------------------------------------------
(* The commands *)

\* A command is done that left the key and the local state alone.
LEMMA DoneSafe ==
    ASSUME Inv, Section, NEW p \in Procs, pipe[p] # <<>>, Done(p),
           UNCHANGED <<key, local, using>>
    PROVE  Section'
  <1>1. Safe(p) /\ PipesInv
    BY DEF Section, Inv
  <1>2. pipe'[p] = Rest(p) /\ OthersFly(p)
    BY <1>1, DoneFlies
  <1>3. Ordered(Rest(p)) /\ \A b \in In(Rest(p)) : Flies(p, b)
    BY <1>1, NextFlies
  <1>4. \A b \in In(Rest(p)) : Flies(p, b)'
    BY <1>3, FliesStill DEF local
  <1>5. Remembers(p)'
    BY <1>1 DEF Safe, Remembers, key, local
  <1>6. Safe(p)'
    BY <1>2, <1>3, <1>4, <1>5 DEF Safe
  <1> QED BY <1>2, <1>6, SectionStep DEF KeyBeside, key, local

\* No command is left behind an acquire() that finds no key: each would have found
\* the key its own, or comes before.
LEMMA NoneBehind ==
    ASSUME Inv, Section, NEW p \in Procs, pipe[p] # <<>>, Head(pipe[p]).op = "set", ttl = 0
    PROVE  Rest(p) = <<>> /\ In(Rest(p)) = {} /\ owner # p
  <1>1. Safe(p)
    BY DEF Section
  <1>2. owner # p
    BY LockAssumption DEF Inv, TypeOK
  <1>3. Rest(p) \in Seq(Command)
    BY OrderTail DEF Inv, PipesInv, Rest
  <1>4. ASSUME NEW b \in In(Rest(p)) PROVE FALSE
    <2>1. Before(Head(pipe[p]), b) /\ Flies(p, b) /\ Sane(b) /\ Sane(Head(pipe[p]))
      BY <1>1, NextFlies
    <2>2. Head(pipe[p]).call = "acquire"
      BY <2>1 DEF Sane
    <2>3. b.op # "get" /\ b.call # "acquire"
      BY <2>1, <2>2 DEF Before
    <2> QED BY <1>2, <2>1, <2>3 DEF Flies, Sane
  <1>5. Rest(p) = <<>>
    <2>1. CASE Len(Rest(p)) > 0
      <3>1. 1 \in DOMAIN Rest(p)
        BY <1>3, <2>1
      <3>2. Rest(p)[1] \in In(Rest(p))
        BY <3>1 DEF In
      <3> QED BY <1>4, <3>2
    <2>2. CASE ~(Len(Rest(p)) > 0)
      BY <1>3, <2>2
    <2> QED BY <2>1, <2>2
  <1> QED BY <1>2, <1>4, <1>5

LEMMA SetSafe ==
    ASSUME Inv, Section, NEW p \in Procs, pipe[p] # <<>>, NEW c, c = Head(pipe[p]), Set(p, c)
    PROVE  Section'
  <1>1. Safe(p) /\ c \in Command /\ c.op = "set"
    BY NextFlies DEF Section, Set
  <1>2. CASE ttl = 0
    <2>1. /\ owner' = p /\ ttl' = c.ttl /\ Remember(p, c.ttl - c.spent)
          /\ using' = Put(using, p, Up(p))
          /\ pipe' = Put(pipe, p, [k \in DOMAIN Rest(p) |-> [Rest(p)[k] EXCEPT !.info = FALSE]])
      BY <1>2 DEF Set
    <2>2. Rest(p) = <<>> /\ owner # p
      BY <1>1, <1>2, NoneBehind
    <2>3. /\ DOMAIN pipe'[p] = {} /\ OthersFly(p)
          /\ entry'[p] /\ left'[p] = c.ttl - c.spent
          /\ \A q \in Procs : q # p => /\ using'[q] = using[q] /\ entry'[q] = entry[q]
                                       /\ left'[q] = left[q]
      BY <2>1, <2>2 DEF Put, Remember, Inv, TypeOK, PipesInv, OthersFly
    <2>4. owner = Nobody
      BY <1>2 DEF Inv, TypeOK
    <2>5. \A q \in Procs : q # p => KeyBeside(q)
      BY <2>1, <2>4, LockAssumption DEF KeyBeside
    <2>6. Ordered(pipe'[p]) /\ In(pipe'[p]) = {}
      BY <2>3 DEF Ordered, In
    <2>7. Remembers(p)'
      BY <1>1, <2>1, <2>3 DEF Remembers, Command
    <2>8. Safe(p)'
      BY <2>6, <2>7 DEF Safe
    <2> QED BY <2>3, <2>5, <2>8, SectionStep
  <1>3. CASE ttl # 0
    <2>1. UNCHANGED <<key, local, using>> /\ Done(p)
      BY <1>3 DEF Set
    <2> QED BY <2>1, DoneSafe
  <1> QED BY <1>2, <1>3

\* The second command of a call takes the place of the first.
LEMMA ThenSafe ==
    ASSUME Inv, Section, NEW p \in Procs, pipe[p] # <<>>, NEW c, c = Head(pipe[p]),
           c.op = "get", owner = p, NEW d \in Command, ThenSends(p, d),
           d.call = c.call, d.ttl = c.ttl, d.spent = c.spent, d.info = c.info,
           \/ c.call = "beat" /\ d.op = "expire"
           \/ c.call = "release" /\ d.op = "del",
           UNCHANGED <<key, local, using>>
    PROVE  Section'
  <1>1. Safe(p) /\ PipesInv
    BY DEF Section, Inv
  <1>2. /\ Flies(p, c) /\ Ordered(Rest(p))
        /\ \A b \in In(Rest(p)) : /\ b \in Command /\ Sane(b)
                                  /\ Flies(p, b) /\ Before(c, b)
    BY <1>1, NextFlies
  <1>3. /\ In(pipe'[p]) = In(Rest(p)) \union {d}
        /\ Ordered(Rest(p)) /\ (\A b \in In(Rest(p)) : Before(b, d)) => Ordered(pipe'[p])
        /\ OthersFly(p)
    BY <1>1, ThenFlies
  <1>4. \A b \in In(Rest(p)) : Before(b, d)
    <2> SUFFICES ASSUME NEW b \in In(Rest(p)) PROVE Before(b, d)
      OBVIOUS
    <2>1. b \in Command /\ Sane(b) /\ Before(c, b) /\ Flies(p, b)
      BY <1>2
    <2>4. /\ b.op \in {"set", "get", "expire", "del"}
          /\ b.op = "set" <=> b.call = "acquire"
          /\ b.op = "expire" => b.call = "beat"
          /\ b.op = "del" => b.call = "release"
      BY <2>1 DEF Command, Sane, Flies
    <2>2. CASE c.call = "beat" /\ d.op = "expire"
      <3>1. b.call # "beat" /\ b.op # "del"
        BY <2>1, <2>2 DEF Before
      <3>2. b.call = "release" => b.op = "get"
        BY <2>4, <3>1
      <3> QED BY <2>2, <3>1, <3>2 DEF Before
    <2>3. CASE c.call = "release" /\ d.op = "del"
      <3>1. b.call = "acquire" \/ b.op = "expire"
        BY <2>1, <2>3 DEF Before
      <3>2. b.op # "get" /\ b.call # "release"
        BY <2>4, <3>1
      <3> QED BY <2>3, <3>2 DEF Before
    <2> QED BY <2>2, <2>3
  <1>5. \A b \in In(Rest(p)) : Flies(p, b)'
    BY <1>2, FliesStill DEF local
  <1>6. Flies(p, d)
    BY <1>2 DEF Flies
  <1>7. Flies(p, d)'
    BY <1>6, FliesStill DEF local
  <1>8. Remembers(p)'
    BY <1>1 DEF Safe, Remembers, key, local
  <1>9. Safe(p)'
    BY <1>2, <1>3, <1>4, <1>5, <1>7, <1>8 DEF Safe
  <1> QED BY <1>3, <1>9, SectionStep DEF KeyBeside, key, local

\* A command is done after which p remembers nothing of the lock.
LEMMA ForgetSafe ==
    ASSUME Inv, Section, NEW p \in Procs, pipe[p] # <<>>, Done(p), Forget(p),
           UNCHANGED <<key, using>>, Head(pipe[p]).call = "beat"
    PROVE  Section'
  <1>1. Safe(p) /\ PipesInv
    BY DEF Section, Inv
  <1>2. pipe'[p] = Rest(p) /\ OthersFly(p)
    BY <1>1, DoneFlies
  <1>3. /\ Ordered(Rest(p))
        /\ \A b \in In(Rest(p)) : Flies(p, b) /\ Before(Head(pipe[p]), b)
    BY <1>1, NextFlies
  <1>4. /\ ~entry'[p] /\ left'[p] = 0
        /\ \A q \in Procs : q # p => entry'[q] = entry[q] /\ left'[q] = left[q]
    BY DEF Forget, Put, Inv, TypeOK
  <1>5. \A b \in In(Rest(p)) : Flies(p, b)'
    BY <1>3 DEF Flies, Before, key
  <1>6. Safe(p)'
    BY <1>2, <1>3, <1>4, <1>5 DEF Safe, Remembers
  <1> QED BY <1>2, <1>4, <1>6, SectionStep DEF KeyBeside, key

LEMMA GetSafe ==
    ASSUME Inv, Section, NEW p \in Procs, pipe[p] # <<>>, NEW c, c = Head(pipe[p]), Get(p, c)
    PROVE  Section'
  <1>1. Safe(p) /\ c \in Command /\ c.op = "get" /\ Flies(p, c)
    BY NextFlies DEF Section, Get
  <1>2. c.call # "force"
    BY <1>1 DEF Flies
  <1>3. UNCHANGED <<key, using>>
    BY DEF Get
  <1>4. CASE c.call = "beat" /\ owner = p /\ ThenSends(p, [c EXCEPT !.op = "expire"])
             /\ UNCHANGED local
    <2> DEFINE d == [c EXCEPT !.op = "expire"]
    <2>1. /\ d \in Command /\ d.op = "expire" /\ d.call = c.call /\ d.ttl = c.ttl
          /\ d.spent = c.spent /\ d.info = c.info
      BY <1>1 DEF Command
    <2>2. ThenSends(p, d)
      BY <1>4
    <2> HIDE DEF d
    <2> QED BY <1>1, <1>3, <1>4, <2>1, <2>2, ThenSafe
  <1>5. CASE c.call = "beat" /\ Done(p) /\ Forget(p)
    BY <1>3, <1>5, ForgetSafe
  <1>6. CASE c.call = "release" /\ owner = p
             /\ ThenSends(p, [c EXCEPT !.op = "del", !.own = owner = p]) /\ UNCHANGED local
    <2> DEFINE d == [c EXCEPT !.op = "del", !.own = owner = p]
    <2>1. (owner = p) \in BOOLEAN
      OBVIOUS
    <2>2. /\ d \in Command /\ d.op = "del" /\ d.call = c.call /\ d.ttl = c.ttl
          /\ d.spent = c.spent /\ d.info = c.info
      BY <1>1, <2>1 DEF Command
    <2>3. ThenSends(p, d)
      BY <1>6
    <2> HIDE DEF d
    <2> QED BY <1>1, <1>3, <1>6, <2>2, <2>3, ThenSafe
  <1>7. CASE Done(p) /\ UNCHANGED local
    BY <1>3, <1>7, DoneSafe
  <1> QED BY <1>2, <1>4, <1>5, <1>6, <1>7 DEF Get

\* The key of p is extended.
LEMMA ExtendedSafe ==
    ASSUME Inv, Section, NEW p \in Procs, pipe[p] # <<>>, NEW c, c = Head(pipe[p]),
           c.op = "expire", Done(p), UNCHANGED <<owner, using>>, ttl' = c.ttl,
           \/ UNCHANGED local
           \/ Remember(p, c.ttl - c.spent)
    PROVE  Section'
  <1>1. Safe(p) /\ PipesInv /\ Latency \in Nat /\ ttl \in Nat /\ left[p] \in Int
    BY LockAssumption DEF Section, Inv, TypeOK
  <1>2. pipe'[p] = Rest(p) /\ OthersFly(p)
    BY <1>1, DoneFlies
  <1>3. /\ c \in Command /\ Flies(p, c) /\ Ordered(Rest(p))
        /\ \A b \in In(Rest(p)) : b \in Command /\ Flies(p, b) /\ Before(c, b)
    BY <1>1, NextFlies
  <1>4. /\ c.call = "beat" /\ owner = p /\ c.ttl > Latency /\ c.ttl - c.spent >= left[p]
        /\ c.ttl \in Int /\ c.spent \in Nat
    BY <1>3 DEF Flies, Command
  <1>5. ASSUME NEW b \in In(Rest(p)) PROVE Flies(p, b)'
    <2>1. Flies(p, b) /\ b.call # "beat" /\ b.spent \in Nat
      BY <1>3, <1>4 DEF Before, Command
    <2>2. owner' = p /\ ttl' + b.spent > Latency
      BY <1>1, <1>4, <2>1
    <2> QED BY <2>1, <2>2 DEF Flies
  <1>6. \A q \in Procs : q # p => KeyBeside(q)
    BY <1>4 DEF KeyBeside
  <1>7. CASE UNCHANGED local
    <2>1. ttl' >= left[p]
      BY <1>1, <1>4
    <2>2. Remembers(p)'
      BY <1>1, <1>4, <1>7, <2>1 DEF Safe, Remembers, local
    <2>3. Safe(p)'
      BY <1>2, <1>3, <1>5, <2>2 DEF Safe
    <2> QED BY <1>2, <1>6, <1>7, <2>3, SectionStep DEF local
  <1>8. CASE Remember(p, c.ttl - c.spent)
    <2>1. /\ entry'[p] /\ left'[p] = c.ttl - c.spent
          /\ \A q \in Procs : q # p => entry'[q] = entry[q] /\ left'[q] = left[q]
      BY <1>8 DEF Remember, Put, Inv, TypeOK
    <2>2. ttl' >= left'[p]
      BY <1>4, <2>1
    <2>3. Remembers(p)'
      BY <1>4, <2>1, <2>2 DEF Remembers
    <2>4. Safe(p)'
      BY <1>2, <1>3, <1>5, <2>3 DEF Safe
    <2> QED BY <1>2, <1>6, <2>1, <2>4, SectionStep
  <1> QED BY <1>7, <1>8

LEMMA ExpireSafe ==
    ASSUME Inv, Section, NEW p \in Procs, pipe[p] # <<>>, NEW c, c = Head(pipe[p]),
           Expire(p, c)
    PROVE  Section'
  <1>1. Safe(p) /\ c \in Command /\ c.op = "expire" /\ Flies(p, c) /\ Latency \in Nat
    BY NextFlies, LockAssumption DEF Section, Expire
  <1>2. owner = p /\ c.ttl > 0
    BY <1>1 DEF Flies, Command
  <1>3. ttl # 0
    BY <1>2, LockAssumption DEF Inv, TypeOK
  <1>4. /\ Done(p) /\ ttl' = c.ttl /\ UNCHANGED <<owner, using>>
        /\ Remember(p, c.ttl - c.spent) \/ UNCHANGED local
    BY <1>2, <1>3 DEF Expire
  <1> QED BY <1>1, <1>4, ExtendedSafe

\* The key of p is deleted by its release().
LEMMA DeletedSafe ==
    ASSUME Inv, Section, NEW p \in Procs, pipe[p] # <<>>, NEW c, c = Head(pipe[p]),
           c.op = "del", Done(p), Gone, UNCHANGED using,
           Forget(p) \/ UNCHANGED local
    PROVE  Section'
  <1>1. Safe(p) /\ PipesInv /\ Latency \in Nat
    BY LockAssumption DEF Section, Inv
  <1>2. pipe'[p] = Rest(p) /\ OthersFly(p)
    BY <1>1, DoneFlies
  <1>3. /\ Flies(p, c) /\ Ordered(Rest(p))
        /\ \A b \in In(Rest(p)) : Flies(p, b) /\ Before(c, b) /\ Sane(b)
    BY <1>1, NextFlies
  <1>4. c.call = "release" /\ owner = p /\ ~using[p]
    BY <1>3 DEF Flies
  <1>5. ASSUME NEW b \in In(Rest(p)) PROVE Flies(p, b)'
    <2>1. Flies(p, b) /\ b.call = "acquire" /\ b.op = "set"
      BY <1>3, <1>4 DEF Before, Sane
    <2> QED BY <2>1 DEF Flies
  <1>6. \A q \in Procs : q # p => KeyBeside(q)
    BY <1>4, LockAssumption DEF KeyBeside, Gone
  <1>7. /\ ~entry'[p] => left'[p] = 0
        /\ \A q \in Procs : q # p => entry'[q] = entry[q] /\ left'[q] = left[q]
    BY <1>1 DEF Forget, Put, Inv, TypeOK, local, Safe, Remembers
  <1>8. Safe(p)'
    BY <1>2, <1>3, <1>4, <1>5, <1>7 DEF Safe, Remembers
  <1> QED BY <1>2, <1>6, <1>7, <1>8, SectionStep

LEMMA DelSafe ==
    ASSUME Inv, Section, NEW p \in Procs, pipe[p] # <<>>, NEW c, c = Head(pipe[p]),
           Del(p, c)
    PROVE  Section'
  <1>1. c.op = "del" /\ Gone /\ Done(p) /\ UNCHANGED using /\ (Forget(p) \/ UNCHANGED local)
    BY DEF Del
  <1> QED BY <1>1, DeletedSafe

LEMMA RedisSafe ==
    ASSUME Inv, Section, NEW p \in Procs, Redis(p)
    PROVE  Section'
  <1> DEFINE c == Head(pipe[p])
  <1>1. pipe[p] # <<>> /\ (Set(p, c) \/ Get(p, c) \/ Expire(p, c) \/ Del(p, c))
    BY DEF Redis
  <1> HIDE DEF c
  <1>2. c = Head(pipe[p])
    BY DEF c
  <1> QED BY <1>1, <1>2, SetSafe, GetSafe, ExpireSafe, DelSafe

\* An acquire() sets the key and its reply is lost.
LEMMA UnheardSafe ==
    ASSUME Inv, Section, NEW p \in Procs, pipe[p] # <<>>, NEW c, c = Head(pipe[p]),
           c.op = "set", ttl = 0, owner' = p, ttl' = c.ttl, Done(p),
           UNCHANGED <<local, using>>
    PROVE  Section'
  <1>1. Safe(p) /\ PipesInv
    BY DEF Section, Inv
  <1>2. pipe'[p] = Rest(p) /\ OthersFly(p)
    BY <1>1, DoneFlies
  <1>3. Rest(p) = <<>> /\ In(Rest(p)) = {} /\ owner # p
    BY NoneBehind
  <1>4. owner = Nobody
    BY DEF Inv, TypeOK
  <1>5. \A q \in Procs : q # p => KeyBeside(q)
    BY <1>4, LockAssumption DEF KeyBeside
  <1>6. Remembers(p)'
    BY <1>1, <1>3 DEF Safe, Remembers, local
  <1>7. Safe(p)'
    BY <1>2, <1>3, <1>6, OrderEmpty DEF Safe
  <1> QED BY <1>2, <1>5, <1>7, SectionStep DEF local

LEMMA CommandFailsSafe ==
    ASSUME Inv, Section, NEW p \in Procs, CommandFails(p)
    PROVE  Section'
  <1> DEFINE c == Head(pipe[p])
  <1>1. /\ pipe[p] # <<>> /\ Done(p) /\ UNCHANGED <<local, using>>
        /\ \/ UNCHANGED key
           \/ c.op = "set" /\ ttl = 0 /\ owner' = p /\ ttl' = c.ttl
           \/ c.op = "expire" /\ ttl' = c.ttl /\ UNCHANGED owner
           \/ c.op = "del" /\ Gone
    BY DEF CommandFails, AfterError, process
  <1> HIDE DEF c
  <1>2. c = Head(pipe[p])
    BY DEF c
  <1>3. CASE UNCHANGED key
    BY <1>1, <1>3, DoneSafe
  <1>4. CASE c.op = "set" /\ ttl = 0 /\ owner' = p /\ ttl' = c.ttl
    BY <1>1, <1>2, <1>4, UnheardSafe
  <1>5. CASE c.op = "expire" /\ ttl' = c.ttl /\ UNCHANGED owner
    BY <1>1, <1>2, <1>5, ExtendedSafe
  <1>6. CASE c.op = "del" /\ Gone
    BY <1>1, <1>2, <1>6, DeletedSafe
  <1> QED BY <1>1, <1>3, <1>4, <1>5, <1>6

-----------------------------------------------------------------------------
(* Time *)

Older(c) == [c EXCEPT !.spent = c.spent + 1]

LEMMA TickFlies ==
    ASSUME Inv, Tick, NEW p \in Procs
    PROVE  /\ Ordered(pipe[p]) => Ordered(pipe'[p])
           /\ \A d \in In(pipe'[p]) : \E c \in In(pipe[p]) :
                 /\ c \in Command /\ c.spent < Latency /\ d = Older(c)
  <1> DEFINE s == pipe[p]
             t == pipe'[p]
  <1>1. s \in Seq(Command)
    BY DEF Inv, PipesInv
  <1>2. t = [k \in DOMAIN s |-> Older(s[k])]
    BY DEF Tick, Older
  <1>3. DOMAIN t = DOMAIN s /\ \A k \in DOMAIN s : t[k] = Older(s[k])
    BY <1>2
  <1>4. \A k \in DOMAIN s : s[k] \in Command /\ s[k].spent < Latency
    BY <1>1 DEF Tick, OnTime
  <1> HIDE DEF s, t
  <1>5. \A c \in Command : Older(c).op = c.op /\ Older(c).call = c.call
    BY DEF Older, Command
  <1>6. Ordered(s) => Ordered(t)
    BY <1>3, <1>4, <1>5 DEF Ordered, Before
  <1>7. \A d \in In(t) : \E c \in In(s) : c \in Command /\ c.spent < Latency /\ d = Older(c)
    BY <1>3, <1>4 DEF In
  <1> QED BY <1>6, <1>7 DEF s, t

LEMMA TickSafe ==
    ASSUME Inv, Section, Tick
    PROVE  Section'
  <1> SUFFICES ASSUME NEW p \in Procs PROVE Safe(p)'
    BY DEF Section
  <1>1. /\ Safe(p) /\ Latency \in Nat /\ ExtendBy \in Nat /\ ttl \in Nat /\ left[p] \in Int
        /\ p # Nobody
    BY LockAssumption DEF Section, Inv, TypeOK
  <1>2. /\ ttl' = (IF ttl > 0 THEN ttl - 1 ELSE 0)
        /\ owner' = (IF ttl > 1 THEN owner ELSE Nobody)
        /\ using' = using /\ entry' = entry
    BY DEF Tick
  <1>3. left'[p] = (IF entry[p] /\ left[p] > -ExtendBy THEN left[p] - 1 ELSE left[p])
    BY DEF Tick
  <1>4. ASSUME NEW d \in In(pipe'[p]) PROVE Flies(p, d)'
    <2>1. PICK c \in In(pipe[p]) : c \in Command /\ c.spent < Latency /\ d = Older(c)
      BY TickFlies
    <2>2. /\ d.op = c.op /\ d.call = c.call /\ d.ttl = c.ttl /\ d.info = c.info
          /\ d.spent = c.spent + 1 /\ c.spent \in Nat /\ c.ttl \in Int
      BY <2>1 DEF Older, Command
    <2>3. Flies(p, c)
      BY <1>1 DEF Safe
    <2>4. d.spent <= Latency
      BY <1>1, <2>1, <2>2
    <2>5. d.call = "beat" => d.info /\ d.ttl > Latency /\ d.ttl - d.spent >= left'[p]
      <3> SUFFICES ASSUME d.call = "beat"
                   PROVE  d.info /\ d.ttl > Latency /\ d.ttl - d.spent >= left'[p]
        OBVIOUS
      <3>1. c.info /\ c.ttl > Latency /\ c.ttl - c.spent >= left[p]
        BY <2>2, <2>3 DEF Flies
      <3>2. c.ttl - (c.spent + 1) >= left'[p]
        <4>1. CASE left'[p] = left[p] - 1
          BY <1>1, <2>2, <3>1, <4>1
        <4>2. CASE ~(entry[p] /\ left[p] > -ExtendBy)
          <5>1. left'[p] = left[p]
            BY <1>3, <4>2
          <5>2. left[p] <= 0
            BY <1>1, <4>2 DEF Safe, Remembers
          <5> QED BY <1>1, <2>1, <2>2, <3>1, <5>1, <5>2
        <4> QED BY <1>3, <4>1, <4>2
      <3> QED BY <2>2, <3>1, <3>2
    <2>6. d.op # "set" /\ (d.op # "get" \/ owner' = p)
             => owner' = p /\ ttl' + d.spent > Latency
      <3> SUFFICES ASSUME d.op # "set", d.op # "get" \/ owner' = p
                   PROVE  owner' = p /\ ttl' + d.spent > Latency
        OBVIOUS
      <3>1. c.op # "set" /\ (c.op # "get" \/ owner = p)
        BY <1>1, <1>2, <2>2
      <3>2. owner = p /\ ttl + c.spent > Latency
        BY <2>3, <3>1 DEF Flies
      <3>3. ttl > 1
        BY <1>1, <2>1, <2>2, <3>2
      <3> QED BY <1>1, <1>2, <2>2, <3>2, <3>3
    <2> QED BY <1>2, <2>2, <2>3, <2>4, <2>5, <2>6 DEF Flies
  <1>5. Remembers(p)'
    <2>1. ~entry'[p] => left'[p] = 0
      BY <1>1, <1>2, <1>3 DEF Safe, Remembers
    <2>2. ASSUME using'[p], left'[p] > 0 PROVE owner' = p /\ ttl' >= left'[p]
      <3>1. left[p] > 0
        BY <1>1, <1>3, <2>2
      <3>2. owner = p /\ ttl >= left[p] /\ entry[p]
        BY <1>1, <1>2, <2>2, <3>1 DEF Safe, Remembers
      <3>3. left'[p] = left[p] - 1 /\ ttl > 1
        BY <1>1, <1>3, <2>2, <3>1, <3>2
      <3> QED BY <1>1, <1>2, <3>2, <3>3
    <2> QED BY <2>1, <2>2 DEF Remembers
  <1>6. Ordered(pipe'[p])
    BY <1>1, TickFlies DEF Safe
  <1> QED BY <1>4, <1>5, <1>6 DEF Safe

-----------------------------------------------------------------------------
(* The section is exclusive *)

Unharmed == ~forced /\ ~risky => Section

LEMMA InitUnharmed == Init => Unharmed
  <1> SUFFICES ASSUME Init, NEW p \in Procs PROVE Safe(p)
    BY DEF Unharmed, Section
  <1>1. ~entry[p] /\ ~using[p] /\ pipe[p] = <<>> /\ left[p] = 0
    BY DEF Init
  <1> QED BY <1>1, OrderEmpty DEF Safe, Remembers

\* No step takes a risk or a forced release back.
LEMMA HarmStays ==
    ASSUME [Next]_vars, ~forced', ~risky'
    PROVE  ~forced /\ ~risky /\ \A p \in Procs : ~ForceRelease(p)
  <1>1. \A p \in Procs : ~ForceRelease(p)
    BY DEF ForceRelease
  <1>2. CASE UNCHANGED vars
    <2>1. forced' = forced /\ risky' = risky
      BY <1>2 DEF vars, history
    <2> QED BY <1>1, <2>1
  <1>3. ASSUME NEW p \in Procs,
               \/ Initialize(p) \/ Redis(p) \/ CommandFails(p)
               \/ \E n \in Lifetimes : Acquire(p, n)
        PROVE  ~forced /\ ~risky
    BY <1>3 DEF Initialize, Acquire, Redis, CommandFails, history
  <1>4. ASSUME NEW p \in Procs, Exit(p) \/ Crash(p) PROVE ~forced /\ ~risky
    <2>1. forced' = forced /\ risky' = risky
      BY <1>4 DEF Exit, Crash, Ends
    <2> QED BY <2>1
  <1>5. ASSUME NEW p \in Procs, NEW calls, Risks(p, calls) PROVE ~risky
    BY <1>5 DEF Risks
  <1>6. ASSUME NEW p \in Procs, Release(p) PROVE ~forced /\ ~risky
    BY <1>5, <1>6 DEF Release
  <1>7. ASSUME NEW p \in Procs, Beat(p) PROVE ~forced /\ ~risky
    BY <1>5, <1>7 DEF Beat
  <1>8. ASSUME NEW p \in Procs, Shutdown(p) PROVE ~forced /\ ~risky
    BY <1>5, <1>8 DEF Shutdown
  <1>9. CASE Tick
    <2>1. UNCHANGED history
      BY <1>9, Zenon DEF Tick
    <2>2. forced' = forced /\ risky' = risky
      BY <2>1 DEF history
    <2> QED BY <1>1, <2>2
  <1> QED BY <1>1, <1>2, <1>3, <1>4, <1>6, <1>7, <1>8, <1>9 DEF Next

LEMMA NextUnharmed ==
    ASSUME Inv, Unharmed, [Next]_vars
    PROVE  Unharmed'
  <1> SUFFICES ASSUME ~forced', ~risky' PROVE Section'
    BY DEF Unharmed
  <1>1. Section /\ \A p \in Procs : ~ForceRelease(p)
    BY HarmStays DEF Unharmed
  <1>2. CASE UNCHANGED vars
    BY <1>1, <1>2, SectionStays DEF vars, process
  <1>3. ASSUME NEW p \in Procs, Initialize(p) PROVE Section'
    BY <1>1, <1>3, SectionStays DEF Initialize
  <1>4. ASSUME NEW p \in Procs, Exit(p) \/ Crash(p) PROVE Section'
    BY <1>1, <1>4, EndsSafe DEF Exit, Crash
  <1>5. ASSUME NEW p \in Procs,
               \/ Release(p) \/ Beat(p) \/ Shutdown(p)
               \/ Redis(p) \/ CommandFails(p)
               \/ \E n \in Lifetimes : Acquire(p, n)
        PROVE  Section'
    BY <1>1, <1>5, AcquireSafe, ReleaseSafe, BeatSafe, ShutdownSafe, RedisSafe,
       CommandFailsSafe
  <1> QED BY <1>1, <1>2, <1>3, <1>4, <1>5, TickSafe DEF Next

\* Unless a release was forced or a call was at risk, a caller owns the key as long as
\* the time its process remembers lies ahead, for any number of processes, any
\* lifetimes, heartbeat period, extension and latency, and any number of failures of
\* any command: acquire(), the heartbeat, release() and shutdown(), though each of
\* the last three reads the key and then writes it.
THEOREM SectionStaysExclusive == Spec => []SectionExclusive
  <1>1. Init => Inv /\ Unharmed
    BY InitInv, InitUnharmed
  <1>2. (Inv /\ Unharmed) /\ [Next]_vars => (Inv /\ Unharmed)'
    BY NextKeeps, NextUnharmed
  <1>3. Inv /\ Unharmed => SectionExclusive
    BY DEF Unharmed, SectionExclusive, Section, Safe, Remembers
  <1> QED BY <1>1, <1>2, <1>3, PTL DEF Spec
=============================================================================
