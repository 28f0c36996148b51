-------------------------- MODULE QueueWorkerProofs --------------------------
(* Proofs about QueueWorker, for any number of jobs and workers. In memory:   *)
(* one message or worker answers for a job until it is closed, an attempt is  *)
(* counted once, and a closed record stays closed. With Redis: whatever       *)
(* crashes, is late or fails, an open job is in the queue or in its record.   *)
(* With both: the variables keep their types.                                 *)
EXTENDS QueueWorker, FiniteSetTheorems, SequenceTheorems, TLAPS

\* A message in memory: its id was made by the driver, numbered from 1.
Msg == [id : Jobs \X (Nat \ {0}), attempts : Nat, due : BOOLEAN, unique : BOOLEAN]

Numbered(m, is) == m \in Msg /\ m.id[2] <= is[Job(m)]

\* A message that waits has counted every attempt made for its job; one whose
\* handler was called, every attempt but that one.
Waits(m, is, ts, cs) ==
    /\ Numbered(m, is) /\ Job(m) \notin cs
    /\ m.attempts = ts[Job(m)] /\ m.attempts < MaxAttempts

InHand(m, is, ts, cs) ==
    /\ Numbered(m, is) /\ Job(m) \notin cs
    /\ m.attempts + 1 = ts[Job(m)] /\ m.attempts < MaxAttempts

Labels == {"idle", "early", "ackEarly", "running", "acking", "failing", "ackRetry",
           "ackFinal"}

Shapes ==
    /\ hidden = {} /\ parked = {}
    /\ waiting \in Seq(Msg)
    /\ ids \in [Jobs -> Nat] /\ tries \in [Jobs -> Nat]
    /\ pc \in [Workers -> Labels]
    /\ held = [w \in Workers |-> held[w]]
    /\ tracker \in [Ids -> Statuses]
    /\ failed \subseteq closed /\ closed \subseteq Jobs

Slots ==
    /\ \A k \in DOMAIN waiting : Waits(waiting[k], ids, tries, closed)
    /\ \A w \in Workers :
          /\ pc[w] # "idle" => Numbered(held[w], ids)
          /\ pc[w] = "early" => Waits(held[w], ids, tries, closed)
          /\ pc[w] \in {"running", "failing"} => InHand(held[w], ids, tries, closed)

\* No two messages or workers answer for one job.
OneCopy ==
    /\ \A k, l \in DOMAIN waiting : Job(waiting[k]) = Job(waiting[l]) => k = l
    /\ \A k \in DOMAIN waiting, w \in Workers : ~Answers(w, Job(waiting[k]))
    /\ \A j \in Jobs, v, w \in Workers : Answers(v, j) /\ Answers(w, j) => v = w

\* Ids are not used twice: a worker about to ack holds one of its own.
OneId ==
    /\ \A k \in DOMAIN waiting, w \in Workers :
          pc[w] # "idle" => waiting[k].id # held[w].id
    /\ \A v, w \in Workers :
          pc[v] # "idle" /\ pc[w] # "idle" /\ held[v].id = held[w].id => v = w

\* Nobody works with the id of a record that is closed.
Final == {"completed", "failed"}

Records ==
    /\ \A id \in Ids : tracker[id] \in Final =>
          /\ id[2] <= ids[id[1]]
          /\ \A k \in DOMAIN waiting : waiting[k].id # id
          /\ \A w \in Workers : pc[w] # "idle" => held[w].id # id
    /\ \A j \in Jobs : tracker[<<j, 0>>] = "none"

Counts ==
    \A j \in Jobs :
        /\ tries[j] <= MaxAttempts
        /\ j \in failed => tries[j] = MaxAttempts
        /\ ids[j] = 0 => tries[j] = 0 /\ j \notin closed
        /\ ids[j] > 0 /\ j \notin closed =>
              \/ \E k \in DOMAIN waiting : Job(waiting[k]) = j
              \/ \E w \in Workers : Answers(w, j)

InMemory == driver = "memory"

Inv == Shapes /\ Slots /\ OneCopy /\ OneId /\ Records /\ Counts

-----------------------------------------------------------------------------
(* Sequences *)

\* t is s with the message c added, at n.
Grows(s, t, n, c) ==
    /\ t \in Seq(Msg) /\ n \in DOMAIN t /\ t[n] = c
    /\ \A k \in DOMAIN s : k \in DOMAIN t /\ t[k] = s[k]
    /\ \A k \in DOMAIN t : (k \in DOMAIN s /\ t[k] = s[k]) \/ (k = n /\ t[k] = c)

LEMMA AppendSeq ==
    ASSUME NEW s \in Seq(Msg), NEW c \in Msg
    PROVE  Grows(s, Append(s, c), Len(s) + 1, c)
  BY DEF Grows

LEMMA TailSeq ==
    ASSUME NEW s \in Seq(Msg), s # <<>>
    PROVE  /\ Tail(s) \in Seq(Msg) /\ Head(s) \in Msg
           /\ 1 \in DOMAIN s /\ Head(s) = s[1]
           /\ \A k \in DOMAIN Tail(s) : /\ k \in Nat /\ k > 0 /\ k + 1 \in DOMAIN s
                                        /\ Tail(s)[k] = s[k + 1]
           /\ \A k \in DOMAIN s : k # 1 => \E i \in DOMAIN Tail(s) : Tail(s)[i] = s[k]
  <1>1. /\ Tail(s) \in Seq(Msg) /\ Head(s) \in Msg
        /\ 1 \in DOMAIN s /\ Head(s) = s[1]
        /\ \A k \in DOMAIN Tail(s) : /\ k \in Nat /\ k > 0 /\ k + 1 \in DOMAIN s
                                     /\ Tail(s)[k] = s[k + 1]
    OBVIOUS
  <1>2. ASSUME NEW k \in DOMAIN s, k # 1
        PROVE  k - 1 \in DOMAIN Tail(s) /\ Tail(s)[k - 1] = s[k]
    BY <1>2
  <1> QED BY <1>1, <1>2

LEMMA InitInv == Init /\ InMemory => Inv
  <1> SUFFICES ASSUME Init, InMemory PROVE Inv
    OBVIOUS
  <1>1. waiting = <<>> /\ DOMAIN waiting = {} /\ waiting \in Seq(Msg)
    BY DEF Init
  <1>2. Shapes
    BY <1>1 DEF Shapes, Init, Labels, Statuses
  <1>3. \A w \in Workers : pc[w] = "idle"
    BY DEF Init
  <1>4. \A j \in Jobs : <<j, 0>> \in Ids
    BY WorkerAssumption DEF Ids
  <1>5. \A id \in Ids : tracker[id] = "none"
    BY DEF Init
  <1>6. \A j \in Jobs : tries[j] = 0 /\ ids[j] = 0
    BY DEF Init
  <1>7. Counts
    BY <1>6, WorkerAssumption DEF Counts, Init
  <1>8. Slots /\ OneId
    BY <1>1, <1>3 DEF Slots, OneId
  <1>9. OneCopy
    BY <1>1, <1>3 DEF OneCopy, Answers
  <1>10. Records
    BY <1>4, <1>5 DEF Records, Final
  <1> QED BY <1>2, <1>7, <1>8, <1>9, <1>10 DEF Inv

-----------------------------------------------------------------------------
(* Records and queue *)

\* A record other than that of id, and one with number 0, stays as it is.
LEMMA TrackIs ==
    ASSUME Shapes, NEW id, NEW status \in Statuses, Track(id, status)
    PROVE  /\ tracker' \in [Ids -> Statuses]
           /\ \A i \in Ids : i # id => tracker'[i] = tracker[i]
           /\ \A i \in Ids : i = id => tracker'[i] = status
  BY DEF Track, Shapes

\* The queue and the ids when the next id of j goes to c.
Adds(j, c) ==
    /\ \E n : Grows(waiting, waiting', n, c)
    /\ ids' \in [Jobs -> Nat] /\ ids'[j] = ids[j] + 1
    /\ \A i \in Jobs : i # j => ids'[i] = ids[i]

\* What Queue.enqueue() does in memory: the message gets the next id of its job.
LEMMA EnqueueIs ==
    ASSUME Inv, InMemory, NEW j \in Jobs, NEW m, NEW n \in Nat,
           m \in [id : Jobs \X Nat, attempts : Nat, due : BOOLEAN, unique : BOOLEAN],
           m.id = <<j, n>>, n <= ids[j], Enqueue(m)
    PROVE  \E c \in Msg :
              /\ c.id = <<j, ids[j] + 1>> /\ c.attempts = m.attempts
              /\ Adds(j, c) /\ hidden' = hidden
              /\ tracker' \in [Ids -> Statuses]
              /\ \A i \in Ids : i # c.id => tracker'[i] = tracker[i]
              /\ \A i \in Ids : i = c.id => tracker'[i] \notin Final
  <1> DEFINE id == <<j, ids[j] + 1>>
             c == [m EXCEPT !.id = id]
  <1>1. Job(m) = j
    BY DEF Job
  <1>2. ids[j] \in Nat
    BY DEF Inv, Shapes
  <1>3. NewId(m) = id
    BY <1>1 DEF NewId, InMemory
  <1>4. id # m.id
    BY <1>2
  <1>5. c \in Msg /\ c.id = id /\ c.attempts = m.attempts
    BY <1>2 DEF Msg
  <1>6. /\ waiting' = Append(waiting, c) /\ hidden' = hidden
        /\ ids' = [ids EXCEPT ![j] = @ + 1]
        /\ IF tracker[id] = "pending_recovery" THEN UNCHANGED tracker
                                               ELSE Track(id, "pending")
    BY <1>1, <1>3, <1>4 DEF Enqueue
  <1>7. /\ tracker' \in [Ids -> Statuses]
        /\ \A i \in Ids : i # id => tracker'[i] = tracker[i]
        /\ \A i \in Ids : i = id => tracker'[i] \notin Final
    <2>1. CASE tracker[id] = "pending_recovery"
      BY <1>6, <2>1 DEF Inv, Shapes, Final
    <2>2. CASE tracker[id] # "pending_recovery"
      <3>1. Track(id, "pending") /\ "pending" \in Statuses
        BY <1>6, <2>2 DEF Statuses
      <3>2. /\ tracker' \in [Ids -> Statuses]
            /\ \A i \in Ids : i # id => tracker'[i] = tracker[i]
            /\ \A i \in Ids : i = id => tracker'[i] = "pending"
        BY <3>1, TrackIs DEF Inv
      <3> QED BY <3>2 DEF Final
    <2> QED BY <2>1, <2>2
  <1>9. Adds(j, c)
    BY <1>5, <1>6, AppendSeq DEF Adds, Inv, Shapes
  <1> HIDE DEF c, id
  <1>8. c.id = <<j, ids[j] + 1>>
    BY <1>5 DEF id
  <1> QED BY <1>5, <1>6, <1>7, <1>8, <1>9

\* Adding the one message of an open job that nobody else answers for.
LEMMA AddKeeps ==
    ASSUME Inv, NEW j \in Jobs, NEW c \in Msg,
           c.id = <<j, ids[j] + 1>>, c.attempts = tries[j], c.attempts < MaxAttempts,
           j \notin closed, \A k \in DOMAIN waiting : Job(waiting[k]) # j,
           Adds(j, c), hidden' = hidden,
           tracker' \in [Ids -> Statuses],
           \A i \in Ids : i # c.id => tracker'[i] = tracker[i],
           \A i \in Ids : i = c.id => tracker'[i] \notin Final,
           UNCHANGED <<parked, tries, closed, failed, held>>,
           pc' \in [Workers -> Labels],
           \A w \in Workers : pc'[w] # pc[w] => pc[w] # "idle" /\ pc'[w] \in {"ackEarly", "ackRetry"}
                                               /\ Job(held[w]) = j,
           \A w \in Workers : ~Answers(w, j)'
    PROVE  Inv'
  <1>1. waiting \in Seq(Msg) /\ ids[j] \in Nat /\ Job(c) = j /\ c.id[2] = ids[j] + 1
    BY DEF Inv, Shapes, Job
  <1>20. PICK n : Grows(waiting, waiting', n, c)
    BY DEF Adds
  <1>2. /\ waiting' \in Seq(Msg)
        /\ n \in DOMAIN waiting' /\ waiting'[n] = c
        /\ \A k \in DOMAIN waiting : k \in DOMAIN waiting' /\ waiting'[k] = waiting[k]
        /\ \A k \in DOMAIN waiting' :
              \/ k \in DOMAIN waiting /\ waiting'[k] = waiting[k]
              \/ k = n /\ waiting'[k] = c
    BY <1>20 DEF Grows
  <1>3. /\ ids' \in [Jobs -> Nat] /\ ids'[j] = ids[j] + 1
        /\ \A i \in Jobs : i # j => ids'[i] = ids[i]
    BY DEF Adds
  <1>21. ids \in [Jobs -> Nat]
    BY DEF Inv, Shapes
  <1>22. \A i \in Jobs : ids[i] \in Nat /\ ids'[i] \in Nat /\ ids'[i] >= ids[i]
    BY <1>3, <1>21
  <1>4. \A m : Numbered(m, ids) =>
                  /\ Job(m) \in Jobs /\ m.id[2] \in Nat
                  /\ Numbered(m, ids') /\ m.id # c.id
    BY <1>1, <1>3, <1>22 DEF Numbered, Msg, Job
  <1>5. Shapes'
    BY <1>2, <1>3 DEF Inv, Shapes
  <1>6. Waits(c, ids', tries, closed)
    BY <1>1, <1>3 DEF Waits, Numbered
  <1>7. \A m : /\ Waits(m, ids, tries, closed) => Waits(m, ids', tries, closed)
               /\ InHand(m, ids, tries, closed) => InHand(m, ids', tries, closed)
    BY <1>4 DEF Waits, InHand
  <1>8. \A w \in Workers : pc[w] # "idle" => Numbered(held[w], ids)
    BY DEF Inv, Slots
  <1>9. \A w \in Workers :
           /\ pc'[w] # "idle" <=> pc[w] # "idle"
           /\ pc'[w] \in {"early", "running", "failing"} => pc'[w] = pc[w]
    OBVIOUS
  <1>23. held' = held /\ tries' = tries /\ closed' = closed /\ failed' = failed
    OBVIOUS
  <1>10. Slots'
    <2>1. \A k \in DOMAIN waiting' : Waits(waiting'[k], ids', tries, closed)
      BY <1>2, <1>6, <1>7 DEF Inv, Slots
    <2>2. ASSUME NEW w \in Workers
          PROVE  /\ pc'[w] # "idle" => Numbered(held[w], ids')
                 /\ pc'[w] = "early" => Waits(held[w], ids', tries, closed)
                 /\ pc'[w] \in {"running", "failing"}
                       => InHand(held[w], ids', tries, closed)
      BY <1>4, <1>7, <1>8, <1>9 DEF Inv, Slots
    <2> QED BY <1>23, <2>1, <2>2 DEF Slots
  <1>11. \A k \in DOMAIN waiting : Job(waiting[k]) \in Jobs /\ waiting[k].id # c.id
    BY <1>4 DEF Inv, Slots, Waits
  <1>13. \A w \in Workers, i \in Jobs : i # j => (Answers(w, i)' <=> Answers(w, i))
    BY <1>9, <1>23 DEF Answers
  <1>14. OneCopy'
    <2>1. ASSUME NEW k \in DOMAIN waiting', NEW l \in DOMAIN waiting',
                 Job(waiting'[k]) = Job(waiting'[l])
          PROVE  k = l
      <3>1. \A i \in DOMAIN waiting' : \/ i \in DOMAIN waiting /\ waiting'[i] = waiting[i]
                                       \/ i = n /\ waiting'[i] = c
        BY <1>2
      <3>2. CASE k \in DOMAIN waiting /\ waiting'[k] = waiting[k]
        BY <1>1, <2>1, <3>1, <3>2 DEF Inv, OneCopy
      <3>3. CASE k = n /\ waiting'[k] = c
        BY <1>1, <2>1, <3>1, <3>3
      <3> QED BY <3>1, <3>2, <3>3
    <2>2. ASSUME NEW k \in DOMAIN waiting', NEW w \in Workers, NEW i \in Jobs,
                 i = Job(waiting'[k])
          PROVE  ~Answers(w, i)'
      <3>1. CASE i = j
        BY <3>1
      <3>2. CASE i # j
        <4>1. k \in DOMAIN waiting /\ Job(waiting[k]) = i
          BY <1>1, <1>2, <2>2, <3>2
        <4>2. ~Answers(w, i)
          BY <4>1 DEF Inv, OneCopy
        <4> QED BY <1>13, <3>2, <4>2
      <3> QED BY <3>1, <3>2
    <2>3. ASSUME NEW i \in Jobs, NEW v \in Workers, NEW w \in Workers,
                 Answers(v, i)', Answers(w, i)'
          PROVE  v = w
      <3>1. i # j
        BY <2>3
      <3>2. Answers(v, i) /\ Answers(w, i)
        BY <1>13, <2>3, <3>1
      <3> QED BY <3>2 DEF Inv, OneCopy
    <2>4. \A k \in DOMAIN waiting' : Job(waiting'[k]) \in Jobs
      BY <1>1, <1>2, <1>11
    <2> QED BY <2>1, <2>2, <2>3, <2>4 DEF OneCopy, Answers
  <1>15. OneId'
    <2>1. ASSUME NEW k \in DOMAIN waiting', NEW w \in Workers, pc'[w] # "idle"
          PROVE  waiting'[k].id # held'[w].id
      BY <1>2, <1>4, <1>8, <1>9, <1>23, <2>1 DEF Inv, OneId
    <2>2. ASSUME NEW v \in Workers, NEW w \in Workers, pc'[v] # "idle", pc'[w] # "idle",
                 held'[v].id = held'[w].id
          PROVE  v = w
      BY <1>9, <1>23, <2>2 DEF Inv, OneId
    <2> QED BY <2>1, <2>2 DEF OneId
  <1>16. Records'
    <2>1. ASSUME NEW id \in Ids, tracker'[id] \in Final
          PROVE  /\ id # c.id /\ tracker[id] \in Final
                 /\ id[2] <= ids'[id[1]]
      <3>1. id # c.id /\ tracker[id] \in Final
        BY <2>1 DEF Final
      <3>2. id[1] \in Jobs /\ id[2] \in Nat /\ id[2] <= ids[id[1]]
        BY <3>1 DEF Inv, Records, Ids
      <3> QED BY <3>1, <3>2, <1>22
    <2>2. ASSUME NEW id \in Ids, tracker'[id] \in Final, NEW k \in DOMAIN waiting'
          PROVE  waiting'[k].id # id
      <3>1. \A l \in DOMAIN waiting : waiting[l].id # id
        BY <2>1, <2>2 DEF Inv, Records
      <3> QED BY <1>2, <2>1, <2>2, <3>1
    <2>3. ASSUME NEW id \in Ids, tracker'[id] \in Final, NEW w \in Workers, pc'[w] # "idle"
          PROVE  held'[w].id # id
      BY <1>9, <1>23, <2>1, <2>3 DEF Inv, Records
    <2>4. ASSUME NEW i \in Jobs PROVE tracker'[<<i, 0>>] = "none"
      <3>1. <<i, 0>> \in Ids /\ <<i, 0>> # c.id
        BY <1>1, WorkerAssumption DEF Ids
      <3> QED BY <3>1 DEF Inv, Records
    <2> QED BY <2>1, <2>2, <2>3, <2>4 DEF Records
  <1>17. Counts'
    <2> SUFFICES ASSUME NEW i \in Jobs
                 PROVE  /\ tries'[i] <= MaxAttempts
                        /\ i \in failed' => tries'[i] = MaxAttempts
                        /\ ids'[i] = 0 => tries'[i] = 0 /\ i \notin closed'
                        /\ ids'[i] > 0 /\ i \notin closed' =>
                              \/ \E k \in DOMAIN waiting' : Job(waiting'[k]) = i
                              \/ \E w \in Workers : Answers(w, i)'
      BY DEF Counts
    <2>1. CASE i = j
      BY <1>1, <1>2, <1>3, <2>1 DEF Inv, Counts
    <2>2. CASE i # j
      BY <1>2, <1>3, <1>13, <2>2 DEF Inv, Counts
    <2> QED BY <2>1, <2>2
  <1> QED BY <1>5, <1>10, <1>14, <1>15, <1>16, <1>17 DEF Inv

-----------------------------------------------------------------------------
(* Producers and records *)

\* The variables apart from the records.
Rest == <<waiting, hidden, ids, pc, held, tries, closed, failed, parked>>

\* A record of a job in work, or of a new one, changes but is not closed.
LEMMA RecordKeeps ==
    ASSUME Inv, NEW id, NEW status \in Statuses \ Final, Track(id, status),
           id \in Ids => id[2] > 0, UNCHANGED Rest
    PROVE  Inv'
  <1>1. /\ tracker' \in [Ids -> Statuses]
        /\ \A i \in Ids : i # id => tracker'[i] = tracker[i]
        /\ \A i \in Ids : i = id => tracker'[i] = status
    BY TrackIs DEF Inv
  <1>2. Shapes' /\ Slots' /\ OneCopy' /\ OneId' /\ Counts'
    BY <1>1 DEF Inv, Rest, Shapes, Slots, OneCopy, OneId, Counts, Answers
  <1>3. Records'
    <2>1. \A i \in Ids : tracker'[i] \in Final => tracker[i] \in Final
      BY <1>1
    <2>2. \A j \in Jobs : <<j, 0>> \in Ids /\ <<j, 0>> # id
      BY WorkerAssumption DEF Ids
    <2>3. \A j \in Jobs : tracker'[<<j, 0>>] = "none"
      BY <1>1, <2>2 DEF Inv, Records
    <2> QED BY <2>1, <2>3 DEF Inv, Records, Rest
  <1> QED BY <1>2, <1>3 DEF Inv

LEMMA NoFailure == InMemory => \A m : ~EnqueueFails(m)
  BY DEF EnqueueFails, InMemory

\* A job that nobody produced has no id, message or attempt yet.
LEMMA ProducedIs ==
    ASSUME Inv, NEW j \in Jobs
    PROVE  Produced(j) <=> ids[j] > 0
  <1>1. tracker[<<j, 0>>] = "none"
    BY DEF Inv, Records
  <1>2. \A k \in DOMAIN waiting : waiting[k].id # <<j, 0>>
    BY DEF Inv, Slots, Waits, Numbered, Msg
  <1>3. hidden = {}
    BY DEF Inv, Shapes
  <1>4. ~InQueue(<<j, 0>>)
    BY <1>2, <1>3 DEF InQueue
  <1> QED BY <1>1, <1>4 DEF Produced

LEMMA ProduceKeeps ==
    ASSUME Inv, InMemory, InitialAttempts = 0, NEW j \in Jobs, Produce(j)
    PROVE  Inv'
  <1>1. Enqueue(New(j)) /\ UNCHANGED <<parked, worker, tries, closed, failed>> /\ ~Produced(j)
    BY NoFailure DEF Produce
  <1>2. ids \in [Jobs -> Nat] /\ ids[j] = 0
    BY <1>1, ProducedIs DEF Inv, Shapes
  <1>3. /\ New(j) \in [id : Jobs \X Nat, attempts : Nat, due : BOOLEAN, unique : BOOLEAN]
        /\ New(j).id = <<j, 0>> /\ New(j).attempts = 0
    BY DEF New
  <1>4. PICK c \in Msg :
              /\ c.id = <<j, ids[j] + 1>> /\ c.attempts = New(j).attempts
              /\ Adds(j, c) /\ hidden' = hidden
              /\ tracker' \in [Ids -> Statuses]
              /\ \A i \in Ids : i # c.id => tracker'[i] = tracker[i]
              /\ \A i \in Ids : i = c.id => tracker'[i] \notin Final
    BY <1>1, <1>2, <1>3, EnqueueIs
  <1>5. tries[j] = 0 /\ j \notin closed
    BY <1>2 DEF Inv, Counts
  <1>6. \A m : Numbered(m, ids) => Job(m) # j
    BY <1>2 DEF Numbered, Msg, Job
  <1>7. \A k \in DOMAIN waiting : Job(waiting[k]) # j
    BY <1>6 DEF Inv, Slots, Waits
  <1>8. \A w \in Workers : ~Answers(w, j)
    BY <1>6 DEF Inv, Slots, Answers
  <1>9. pc' = pc /\ held' = held /\ pc \in [Workers -> Labels]
    BY <1>1 DEF Inv, Shapes, worker
  <1>10. \A w \in Workers : ~Answers(w, j)'
    BY <1>8, <1>9 DEF Answers
  <1>11. 0 < MaxAttempts
    BY WorkerAssumption
  <1> QED BY <1>1, <1>3, <1>4, <1>5, <1>7, <1>9, <1>10, <1>11, AddKeeps

LEMMA RecoverKeeps ==
    ASSUME Inv, NEW m \in parked, Recover(m)
    PROVE  Inv'
  BY DEF Inv, Shapes

LEMMA ReappearsKeeps ==
    ASSUME Inv, NEW m \in hidden, Reappears(m)
    PROVE  Inv'
  BY DEF Inv, Shapes

LEMMA ReconcileKeeps ==
    ASSUME Inv, NEW id \in Ids, NEW s \in {"stalled", "timeout"}, Reconcile(id, s)
    PROVE  Inv'
  <1>1. Track(id, s) /\ UNCHANGED Rest /\ tracker[id] = "active"
    BY DEF Reconcile, Rest, broker, worker, jobs
  <1>2. s \in Statuses \ Final
    BY DEF Statuses, Final
  <1>3. id[2] > 0
    <2>1. id = <<id[1], id[2]>> /\ id[1] \in Jobs /\ id[2] \in Nat
      BY DEF Ids
    <2>2. id[2] # 0
      BY <1>1, <2>1 DEF Inv, Records
    <2> QED BY <2>1, <2>2
  <1> QED BY <1>1, <1>2, <1>3, RecordKeeps

LEMMA BecomesDueKeeps ==
    ASSUME Inv, BecomesDue
    PROVE  Inv'
  <1>1. PICK k \in DOMAIN waiting : waiting' = [waiting EXCEPT ![k].due = TRUE]
    BY DEF BecomesDue
  <1>2. /\ waiting \in Seq(Msg)
        /\ UNCHANGED <<hidden, ids, pc, held, tries, closed, failed, parked, tracker>>
    BY DEF BecomesDue, worker, jobs, Inv, Shapes
  <1>3. /\ waiting' \in Seq(Msg) /\ DOMAIN waiting' = DOMAIN waiting
        /\ \A l \in DOMAIN waiting : /\ waiting[l] \in Msg /\ waiting'[l] \in Msg
                                     /\ waiting'[l].id = waiting[l].id
                                     /\ waiting'[l].attempts = waiting[l].attempts
    <2> DEFINE m == [waiting[k] EXCEPT !.due = TRUE]
    <2>1. waiting[k] \in Msg
      BY <1>2
    <2>2. m \in Msg /\ m.id = waiting[k].id /\ m.attempts = waiting[k].attempts
      BY <2>1 DEF Msg
    <2>3. waiting' = [waiting EXCEPT ![k] = m]
      BY <1>1
    <2> HIDE DEF m
    <2> QED BY <1>2, <2>2, <2>3
  <1>4. \A l \in DOMAIN waiting : Job(waiting'[l]) = Job(waiting[l])
    BY <1>3 DEF Job
  <1>5. \A l \in DOMAIN waiting : Waits(waiting'[l], ids, tries, closed)
    BY <1>3, <1>4 DEF Inv, Slots, Waits, Numbered
  <1>6. Shapes'
    BY <1>2, <1>3 DEF Inv, Shapes
  <1>7. Slots'
    BY <1>2, <1>3, <1>5 DEF Inv, Slots
  <1>8. OneCopy'
    BY <1>2, <1>3, <1>4 DEF Inv, OneCopy, Answers
  <1>9. OneId'
    BY <1>2, <1>3 DEF Inv, OneId
  <1>10. Records'
    BY <1>2, <1>3 DEF Inv, Records
  <1>11. Counts'
    BY <1>2, <1>3, <1>4 DEF Inv, Counts, Answers
  <1> QED BY <1>6, <1>7, <1>8, <1>9, <1>10, <1>11 DEF Inv

-----------------------------------------------------------------------------
(* Workers *)

Queue == <<waiting, hidden, ids, parked>>

\* No record is closed in this step.
Quiet ==
    /\ tracker' \in [Ids -> Statuses]
    /\ \A i \in Ids : tracker'[i] \in Final => tracker[i] \in Final
    /\ \A j \in Jobs : tracker'[<<j, 0>>] = "none"

LEMMA SameIsQuiet == Inv /\ UNCHANGED tracker => Quiet
  BY DEF Inv, Shapes, Records, Quiet

\* What a worker holds has an id of its own job.
LEMMA HeldIs ==
    ASSUME Inv, NEW w \in Workers, pc[w] # "idle"
    PROVE  /\ held[w] \in Msg /\ Numbered(held[w], ids) /\ Job(held[w]) \in Jobs
           /\ held[w].id[2] > 0 /\ held[w].id = <<Job(held[w]), held[w].id[2]>>
           /\ \A j \in Jobs : held[w].id # <<j, 0>>
  BY DEF Inv, Slots, Numbered, Msg, Job

LEMMA TrackIsQuiet ==
    ASSUME Inv, NEW w \in Workers, pc[w] # "idle",
           NEW status \in Statuses \ Final, Track(held[w].id, status)
    PROVE  Quiet
  <1>1. /\ tracker' \in [Ids -> Statuses]
        /\ \A i \in Ids : i # held[w].id => tracker'[i] = tracker[i]
        /\ \A i \in Ids : i = held[w].id => tracker'[i] = status
    BY TrackIs DEF Inv
  <1>2. \A j \in Jobs : <<j, 0>> \in Ids /\ <<j, 0>> # held[w].id
    BY HeldIs, WorkerAssumption DEF Ids
  <1> QED BY <1>1, <1>2 DEF Quiet, Inv, Records

\* The attempt failed: the worker still answers for the job.
LEMMA FailKeeps ==
    ASSUME Inv, NEW w \in Workers, pc[w] \in {"running"}, Goto(w, "failing"),
           Quiet, UNCHANGED <<Queue, held, jobs>>
    PROVE  Inv'
  <1>1. /\ pc' \in [Workers -> Labels] /\ pc'[w] = "failing"
        /\ \A v \in Workers : v # w => pc'[v] = pc[v]
    BY DEF Goto, Inv, Shapes, Labels
  <1>2. \A v \in Workers : pc'[v] # "idle" => pc[v] # "idle"
    BY <1>1
  <1>11. \A v \in Workers : pc'[v] = "early" => pc[v] = "early"
    BY <1>1
  <1>12. \A v \in Workers : pc'[v] \in {"running", "failing"}
                               => pc[v] \in {"running", "failing"}
    BY <1>1
  <1>3. \A v \in Workers, j \in Jobs : Answers(v, j)' <=> Answers(v, j)
    BY <1>1 DEF Answers
  <1>4. UNCHANGED <<waiting, hidden, ids, parked, held, tries, closed, failed>>
    BY DEF Queue, jobs
  <1>5. Shapes'
    BY <1>1, <1>4 DEF Inv, Shapes, Quiet
  <1>6. Slots'
    <2>1. \A v \in Workers :
             /\ pc'[v] # "idle" => Numbered(held[v], ids)
             /\ pc'[v] = "early" => Waits(held[v], ids, tries, closed)
             /\ pc'[v] \in {"running", "failing"} => InHand(held[v], ids, tries, closed)
      BY <1>2, <1>11, <1>12 DEF Inv, Slots
    <2>2. \A k \in DOMAIN waiting : Waits(waiting[k], ids, tries, closed)
      BY DEF Inv, Slots
    <2> QED BY <1>4, <2>1, <2>2 DEF Slots
  <1>10. OneId'
    BY <1>2, <1>4 DEF Inv, OneId
  <1>7. OneCopy'
    <2>1. \A v \in Workers : pc'[v] \in {"early", "running", "failing"}
                                => pc[v] \in {"early", "running", "failing"}
      BY <1>1
    <2> QED BY <2>1, <1>4 DEF Inv, OneCopy, Answers
  <1>8. Records'
    <2>1. ASSUME NEW id \in Ids, tracker'[id] \in Final
          PROVE  /\ id[2] <= ids[id[1]]
                 /\ \A k \in DOMAIN waiting : waiting[k].id # id
                 /\ \A v \in Workers : pc'[v] # "idle" => held[v].id # id
      BY <1>2, <2>1 DEF Inv, Records, Quiet
    <2>2. \A j \in Jobs : tracker'[<<j, 0>>] = "none"
      BY DEF Quiet
    <2> QED BY <1>4, <2>1, <2>2 DEF Records
  <1>9. Counts'
    <2>1. \A v \in Workers : pc[v] \in {"early", "running", "failing"}
                                => pc'[v] \in {"early", "running", "failing"}
      BY <1>1
    <2> QED BY <2>1, <1>4 DEF Inv, Counts, Answers
  <1> QED BY <1>5, <1>6, <1>7, <1>8, <1>9, <1>10 DEF Inv

\* A job is closed by the worker that answers for it.
LEMMA CloseKeeps ==
    ASSUME Inv, NEW w \in Workers, pc[w] \in {"running", "failing"},
           NEW l \in {"acking", "ackFinal"}, Goto(w, l),
           closed' = closed \union {Job(held[w])},
           failed' \subseteq failed \union {Job(held[w])}, failed \subseteq failed',
           Job(held[w]) \in failed' \ failed => tries[Job(held[w])] = MaxAttempts,
           UNCHANGED <<Queue, held, tries, tracker>>
    PROVE  Inv'
  <1> DEFINE j == Job(held[w])
  <1>1. /\ pc' \in [Workers -> Labels] /\ pc'[w] = l
        /\ \A v \in Workers : v # w => pc'[v] = pc[v]
    BY DEF Goto, Inv, Shapes, Labels
  <1>2. UNCHANGED <<waiting, hidden, ids, parked, held, tries, tracker>>
    BY DEF Queue
  <1>3. j \in Jobs /\ InHand(held[w], ids, tries, closed) /\ ids[j] > 0
    <2>1. j \in Jobs /\ InHand(held[w], ids, tries, closed)
      BY HeldIs DEF Inv, Slots
    <2>2. ids[j] \in Nat /\ held[w].id[2] \in Nat \ {0} /\ held[w].id[2] <= ids[j]
      BY <2>1, HeldIs DEF Inv, Shapes, Numbered, Msg
    <2> QED BY <2>1, <2>2
  <1>4. Answers(w, j)
    BY DEF Answers
  <1>5. \A k \in DOMAIN waiting : Job(waiting[k]) # j
    BY <1>4 DEF Inv, OneCopy
  <1>6. \A v \in Workers : v # w => ~Answers(v, j)
    BY <1>3, <1>4 DEF Inv, OneCopy
  <1>7. \A v \in Workers : v # w /\ pc[v] \in {"early", "running", "failing"}
                              => Job(held[v]) # j
    BY <1>6 DEF Answers
  <1>8. \A m : Job(m) # j =>
           /\ Waits(m, ids, tries, closed) => Waits(m, ids, tries, closed')
           /\ InHand(m, ids, tries, closed) => InHand(m, ids, tries, closed')
    BY DEF Waits, InHand
  <1>9. \A v \in Workers : pc'[v] # "idle" => pc[v] # "idle"
    BY <1>1
  <1>10. \A v \in Workers : pc'[v] \in {"early", "running", "failing"}
                               => v # w /\ pc'[v] = pc[v]
    BY <1>1
  <1> HIDE DEF j
  <1>11. Shapes'
    BY <1>1, <1>2, <1>3 DEF Inv, Shapes, j
  <1>12. Slots'
    <2>1. \A k \in DOMAIN waiting : Waits(waiting[k], ids, tries, closed')
      BY <1>5, <1>8 DEF Inv, Slots
    <2>2. ASSUME NEW v \in Workers
          PROVE  /\ pc'[v] # "idle" => Numbered(held[v], ids)
                 /\ pc'[v] = "early" => Waits(held[v], ids, tries, closed')
                 /\ pc'[v] \in {"running", "failing"}
                       => InHand(held[v], ids, tries, closed')
      BY <1>7, <1>8, <1>9, <1>10 DEF Inv, Slots
    <2> QED BY <1>2, <2>1, <2>2 DEF Slots
  <1>13. OneCopy'
    BY <1>2, <1>10 DEF Inv, OneCopy, Answers
  <1>14. OneId'
    BY <1>2, <1>9 DEF Inv, OneId
  <1>15. Records'
    BY <1>2, <1>9 DEF Inv, Records
  <1>16. Counts'
    <2> SUFFICES ASSUME NEW i \in Jobs
                 PROVE  /\ tries'[i] <= MaxAttempts
                        /\ i \in failed' => tries'[i] = MaxAttempts
                        /\ ids'[i] = 0 => tries'[i] = 0 /\ i \notin closed'
                        /\ ids'[i] > 0 /\ i \notin closed' =>
                              \/ \E k \in DOMAIN waiting' : Job(waiting'[k]) = i
                              \/ \E v \in Workers : Answers(v, i)'
      BY DEF Counts
    <2>1. CASE i = j
      BY <1>2, <1>3, <2>1 DEF Inv, Counts, j
    <2>2. CASE i # j
      <3>1. \A v \in Workers : Answers(v, i) => Answers(v, i)'
        BY <1>1, <1>2, <2>2 DEF Answers, j
      <3> QED BY <1>2, <2>2, <3>1 DEF Inv, Counts, j
    <2> QED BY <2>1, <2>2
  <1> QED BY <1>11, <1>12, <1>13, <1>14, <1>15, <1>16 DEF Inv

\* A worker is done with a message nobody else works with.
LEMMA FinishKeeps ==
    ASSUME Inv, NEW w \in Workers, pc[w] \in {"ackEarly", "acking", "ackRetry", "ackFinal"},
           BackToIdle(w), tracker' \in [Ids -> Statuses],
           \A i \in Ids : i # held[w].id => tracker'[i] = tracker[i],
           UNCHANGED <<Queue, jobs>>
    PROVE  Inv'
  <1>1. /\ pc' \in [Workers -> Labels] /\ pc'[w] = "idle"
        /\ \A v \in Workers : v # w => pc'[v] = pc[v] /\ held'[v] = held[v]
        /\ held' = [v \in Workers |-> held'[v]]
    BY DEF BackToIdle, Goto, Inv, Shapes, Labels
  <1>2. UNCHANGED <<waiting, hidden, ids, parked, tries, closed, failed>>
    BY DEF Queue, jobs
  <1>3. \A v \in Workers : pc'[v] # "idle" => /\ v # w /\ pc'[v] = pc[v]
                                               /\ held'[v] = held[v]
    BY <1>1
  <1>4. \A v \in Workers, i \in Jobs : Answers(v, i)' <=> Answers(v, i)
    BY <1>1 DEF Answers
  <1>5. Shapes'
    BY <1>1, <1>2 DEF Inv, Shapes
  <1>6. Slots' /\ OneId'
    BY <1>2, <1>3 DEF Inv, Slots, OneId
  <1>7. OneCopy'
    BY <1>2, <1>3 DEF Inv, OneCopy, Answers
  <1>8. Counts'
    <2> SUFFICES ASSUME NEW i \in Jobs
                 PROVE  /\ tries'[i] <= MaxAttempts
                        /\ i \in failed' => tries'[i] = MaxAttempts
                        /\ ids'[i] = 0 => tries'[i] = 0 /\ i \notin closed'
                        /\ ids'[i] > 0 /\ i \notin closed' =>
                              \/ \E k \in DOMAIN waiting' : Job(waiting'[k]) = i
                              \/ \E v \in Workers : Answers(v, i)'
      BY DEF Counts
    <2> QED BY <1>2, <1>4 DEF Inv, Counts
  <1>9. Records'
    <2>1. held[w].id[2] <= ids[held[w].id[1]] /\ \A j \in Jobs : held[w].id # <<j, 0>>
      BY HeldIs DEF Numbered, Job
    <2>2. \A k \in DOMAIN waiting : waiting[k].id # held[w].id
      BY DEF Inv, OneId
    <2>3. \A v \in Workers : v # w /\ pc[v] # "idle" => held[v].id # held[w].id
      BY DEF Inv, OneId
    <2>4. ASSUME NEW id \in Ids, tracker'[id] \in Final
          PROVE  /\ id[2] <= ids[id[1]]
                 /\ \A k \in DOMAIN waiting : waiting[k].id # id
                 /\ \A v \in Workers : pc'[v] # "idle" => held'[v].id # id
      <3>1. CASE id = held[w].id
        BY <1>3, <2>1, <2>2, <2>3, <3>1
      <3>2. CASE id # held[w].id
        BY <1>3, <2>4, <3>2 DEF Inv, Records
      <3> QED BY <3>1, <3>2
    <2>5. \A j \in Jobs : tracker'[<<j, 0>>] = "none"
      <3>1. \A j \in Jobs : <<j, 0>> \in Ids
        BY WorkerAssumption DEF Ids
      <3> QED BY <2>1, <3>1 DEF Inv, Records
    <2> QED BY <1>2, <2>4, <2>5 DEF Records
  <1> QED BY <1>5, <1>6, <1>7, <1>8, <1>9 DEF Inv

\* A worker takes the oldest message; if it is due, one more attempt is counted.
LEMMA DequeueKeeps ==
    ASSUME Inv, InMemory, NEW w \in Workers, Dequeue(w)
    PROVE  Inv'
  <1> DEFINE m == Head(waiting)
             j == Job(m)
  <1>1. /\ pc[w] \in {"idle"} /\ waiting # <<>> /\ waiting' = Tail(waiting)
        /\ held' = [held EXCEPT ![w] = m]
        /\ hidden' = hidden /\ UNCHANGED <<ids, closed, failed, parked>>
    BY DEF Dequeue, InMemory
  <1>2. \/ Goto(w, "running") /\ tries' = [tries EXCEPT ![j] = @ + 1] /\ Track(m.id, "active")
        \/ Goto(w, "early") /\ tries' = tries /\ tracker' = tracker
    BY DEF Dequeue
  <1>3. /\ waiting \in Seq(Msg) /\ waiting' \in Seq(Msg) /\ m \in Msg
        /\ 1 \in DOMAIN waiting /\ m = waiting[1]
    BY <1>1, TailSeq DEF Inv, Shapes
  <1>4. \A k \in DOMAIN waiting' : /\ k \in Nat /\ k > 0 /\ k + 1 \in DOMAIN waiting
                                   /\ waiting'[k] = waiting[k + 1]
    BY <1>1, <1>3, TailSeq
  <1>5. \A k \in DOMAIN waiting : k # 1 => \E i \in DOMAIN waiting' : waiting'[i] = waiting[k]
    BY <1>1, <1>3, TailSeq
  <1>6. \A k \in DOMAIN waiting' : \E l \in DOMAIN waiting : l # 1 /\ waiting'[k] = waiting[l]
    BY <1>4
  <1>7. Waits(m, ids, tries, closed) /\ j \in Jobs /\ m.id = <<j, m.id[2]>> /\ m.id[2] > 0
    BY <1>3 DEF Inv, Slots, Waits, Numbered, Msg, Job
  <1>8. \A k \in DOMAIN waiting : k # 1 => Job(waiting[k]) # j
    BY <1>3 DEF Inv, OneCopy
  <1>9. \A v \in Workers : ~Answers(v, j)
    BY <1>3 DEF Inv, OneCopy
  <1>10. \A k \in DOMAIN waiting : k # 1 => waiting[k].id # m.id
    BY <1>8 DEF Job
  <1>11. \A v \in Workers : pc[v] # "idle" => held[v].id # m.id
    BY <1>3 DEF Inv, OneId
  <1>12. /\ held' = [v \in Workers |-> held'[v]] /\ held'[w] = m
         /\ \A v \in Workers : v # w => held'[v] = held[v]
    BY <1>1 DEF Inv, Shapes
  <1>13. /\ pc' \in [Workers -> Labels] /\ pc'[w] \in {"early", "running"}
         /\ \A v \in Workers : v # w => pc'[v] = pc[v]
    BY <1>2 DEF Goto, Inv, Shapes, Labels
  <1>14. /\ tracker' \in [Ids -> Statuses]
         /\ \A i \in Ids : tracker'[i] \in Final => i # m.id /\ tracker[i] \in Final
         /\ \A i \in Jobs : tracker'[<<i, 0>>] = "none"
    <2>1. \A i \in Ids : tracker[i] \in Final => i # m.id
      BY <1>3 DEF Inv, Records
    <2>2. \A i \in Jobs : <<i, 0>> \in Ids /\ <<i, 0>> # m.id
      BY <1>7, WorkerAssumption DEF Ids
    <2>3. CASE tracker' = tracker
      BY <2>1, <2>3 DEF Inv, Shapes, Records
    <2>4. CASE Track(m.id, "active")
      <3>1. "active" \in Statuses /\ "active" \notin Final
        BY DEF Statuses, Final
      <3>2. /\ tracker' \in [Ids -> Statuses]
            /\ \A i \in Ids : i # m.id => tracker'[i] = tracker[i]
            /\ \A i \in Ids : i = m.id => tracker'[i] = "active"
        BY <2>4, <3>1, TrackIs DEF Inv
      <3> HIDE DEF m
      <3> QED BY <2>2, <3>1, <3>2 DEF Inv, Records
    <2> QED BY <1>2, <2>3, <2>4
  <1>15. /\ tries' \in [Jobs -> Nat]
         /\ \A i \in Jobs : i # j => tries'[i] = tries[i]
         /\ tries'[j] = IF pc'[w] \in {"running"} THEN tries[j] + 1 ELSE tries[j]
    <2>1. tries \in [Jobs -> Nat] /\ pc \in [Workers -> Labels]
      BY DEF Inv, Shapes
    <2>2. CASE Goto(w, "running") /\ tries' = [tries EXCEPT ![j] = @ + 1]
      <3>1. pc'[w] = "running"
        BY <2>1, <2>2 DEF Goto
      <3> HIDE DEF j
      <3>2. j \in Jobs
        BY <1>7
      <3> QED BY <2>1, <2>2, <3>1, <3>2
    <2>3. CASE Goto(w, "early") /\ tries' = tries
      <3>1. pc'[w] = "early"
        BY <2>1, <2>3 DEF Goto
      <3> QED BY <2>1, <2>3, <3>1
    <2> QED BY <1>2, <2>2, <2>3
  <1> HIDE DEF j, m
  <1>16. \A x : Job(x) \in Jobs /\ Job(x) # j =>
            /\ Waits(x, ids, tries, closed) => Waits(x, ids, tries', closed)
            /\ InHand(x, ids, tries, closed) => InHand(x, ids, tries', closed)
    BY <1>15 DEF Waits, InHand
  <1>17. /\ Job(m) = j /\ m.attempts = tries[j] /\ m.attempts < MaxAttempts
         /\ m.attempts \in Nat /\ MaxAttempts \in Nat /\ j \notin closed /\ Numbered(m, ids)
    BY <1>3, <1>7, WorkerAssumption DEF Waits, Msg, j
  <1>18. Shapes'
    BY <1>1, <1>3, <1>12, <1>13, <1>14, <1>15 DEF Inv, Shapes
  <1>19. Slots'
    <2>1. \A k \in DOMAIN waiting' : Waits(waiting'[k], ids, tries', closed)
      <3>1. \A k \in DOMAIN waiting : /\ Waits(waiting[k], ids, tries, closed)
                                      /\ Job(waiting[k]) \in Jobs
        BY DEF Inv, Slots, Waits, Numbered, Msg, Job
      <3> QED BY <1>6, <1>8, <1>16, <3>1
    <2>2. ASSUME NEW v \in Workers, v # w
          PROVE  /\ pc[v] # "idle" => Numbered(held[v], ids)
                 /\ pc[v] = "early" => Waits(held[v], ids, tries', closed)
                 /\ pc[v] \in {"running", "failing"}
                       => InHand(held[v], ids, tries', closed)
      <3>1. pc[v] # "idle" => Numbered(held[v], ids) /\ Job(held[v]) \in Jobs
        BY HeldIs
      <3>2. pc[v] \in {"early", "running", "failing"} => Job(held[v]) # j
        BY <1>9 DEF Answers
      <3> QED BY <1>16, <3>1, <3>2 DEF Inv, Slots
    <2>3. /\ pc'[w] # "idle" => Numbered(m, ids)
          /\ pc'[w] = "early" => Waits(m, ids, tries', closed)
          /\ pc'[w] \in {"running", "failing"} => InHand(m, ids, tries', closed)
      BY <1>13, <1>15, <1>17 DEF Waits, InHand
    <2>4. ids' = ids /\ closed' = closed
      BY <1>1
    <2>5. ASSUME NEW v \in Workers
          PROVE  /\ pc'[v] # "idle" => Numbered(held'[v], ids)
                 /\ pc'[v] = "early" => Waits(held'[v], ids, tries', closed)
                 /\ pc'[v] \in {"running", "failing"}
                       => InHand(held'[v], ids, tries', closed)
      BY <1>12, <1>13, <2>2, <2>3
    <2> QED BY <2>1, <2>4, <2>5 DEF Slots
  <1>20. OneCopy'
    <2>1. ASSUME NEW k \in DOMAIN waiting', NEW l \in DOMAIN waiting',
                 Job(waiting'[k]) = Job(waiting'[l])
          PROVE  k = l
      <3>1. k + 1 = l + 1
        BY <1>4, <2>1 DEF Inv, OneCopy
      <3> QED BY <1>4, <3>1
    <2>2. ASSUME NEW k \in DOMAIN waiting', NEW v \in Workers,
                 pc'[v] \in {"early", "running", "failing"}
          PROVE  Job(held'[v]) # Job(waiting'[k])
      <3>1. CASE v = w
        BY <1>6, <1>8, <1>12, <1>17, <3>1
      <3>2. CASE v # w
        BY <1>6, <1>12, <1>13, <2>2, <3>2 DEF Inv, OneCopy, Answers
      <3> QED BY <3>1, <3>2
    <2>3. ASSUME NEW i \in Jobs, NEW u \in Workers, NEW v \in Workers,
                 pc'[u] \in {"early", "running", "failing"}, Job(held'[u]) = i,
                 pc'[v] \in {"early", "running", "failing"}, Job(held'[v]) = i
          PROVE  u = v
      <3>1. \A x \in Workers : x # w /\ pc'[x] \in {"early", "running", "failing"}
                                 => Job(held'[x]) # j /\ Answers(x, Job(held'[x]))
        BY <1>9, <1>12, <1>13 DEF Answers
      <3>2. CASE u = w \/ v = w
        BY <1>12, <1>17, <2>3, <3>1, <3>2
      <3>3. CASE u # w /\ v # w
        BY <2>3, <3>1, <3>3 DEF Inv, OneCopy
      <3> QED BY <3>2, <3>3
    <2> QED BY <2>1, <2>2, <2>3 DEF OneCopy, Answers
  <1>21. OneId'
    <2>1. ASSUME NEW k \in DOMAIN waiting', NEW v \in Workers, pc'[v] # "idle"
          PROVE  waiting'[k].id # held'[v].id
      <3>1. CASE v = w
        BY <1>6, <1>10, <1>12, <3>1
      <3>2. CASE v # w
        BY <1>6, <1>12, <1>13, <2>1, <3>2 DEF Inv, OneId
      <3> QED BY <3>1, <3>2
    <2>2. ASSUME NEW u \in Workers, NEW v \in Workers, pc'[u] # "idle", pc'[v] # "idle",
                 held'[u].id = held'[v].id
          PROVE  u = v
      <3>1. CASE u = w \/ v = w
        BY <1>11, <1>12, <1>13, <2>2, <3>1
      <3>2. CASE u # w /\ v # w
        BY <1>12, <1>13, <2>2, <3>2 DEF Inv, OneId
      <3> QED BY <3>1, <3>2
    <2> QED BY <2>1, <2>2 DEF OneId
  <1>22. Records'
    <2>1. ASSUME NEW id \in Ids, tracker'[id] \in Final
          PROVE  /\ id[2] <= ids[id[1]]
                 /\ \A k \in DOMAIN waiting' : waiting'[k].id # id
                 /\ \A v \in Workers : pc'[v] # "idle" => held'[v].id # id
      <3>1. tracker[id] \in Final /\ id # m.id
        BY <1>14, <2>1
      <3>2. /\ id[2] <= ids[id[1]]
            /\ \A k \in DOMAIN waiting : waiting[k].id # id
            /\ \A v \in Workers : pc[v] # "idle" => held[v].id # id
        BY <3>1 DEF Inv, Records
      <3> QED BY <1>6, <1>12, <1>13, <3>1, <3>2
    <2> QED BY <1>1, <1>14, <2>1 DEF Records
  <1>23. Counts'
    <2> SUFFICES ASSUME NEW i \in Jobs
                 PROVE  /\ tries'[i] <= MaxAttempts
                        /\ i \in failed' => tries'[i] = MaxAttempts
                        /\ ids'[i] = 0 => tries'[i] = 0 /\ i \notin closed'
                        /\ ids'[i] > 0 /\ i \notin closed' =>
                              \/ \E k \in DOMAIN waiting' : Job(waiting'[k]) = i
                              \/ \E v \in Workers : Answers(v, i)'
      BY DEF Counts
    <2>1. CASE i = j
      <3>1. tries'[j] <= MaxAttempts
        BY <1>15, <1>17
      <3>2. ids[j] > 0
        BY <1>7, <1>17 DEF Numbered, Inv, Shapes, Msg
      <3>3. Answers(w, i)'
        BY <1>12, <1>13, <1>17, <2>1 DEF Answers
      <3>4. j \notin failed
        BY <1>17 DEF Inv, Shapes
      <3> QED BY <1>1, <2>1, <3>1, <3>2, <3>3, <3>4
    <2>2. CASE i # j
      <3>1. \A v \in Workers : Answers(v, i) => Answers(v, i)'
        BY <1>1, <1>12, <1>13, <2>2 DEF Answers
      <3>2. \A k \in DOMAIN waiting : Job(waiting[k]) = i
               => \E l \in DOMAIN waiting' : Job(waiting'[l]) = i
        BY <1>3, <1>5, <1>17, <2>2
      <3> QED BY <1>1, <1>15, <2>2, <3>1, <3>2 DEF Inv, Counts
    <2> QED BY <2>1, <2>2
  <1> QED BY <1>18, <1>19, <1>20, <1>21, <1>22, <1>23 DEF Inv

LEMMA HeartbeatKeeps ==
    ASSUME Inv, NEW w \in Workers, Heartbeat(w)
    PROVE  Inv'
  <1>1. pc[w] # "idle" /\ Track(held[w].id, "active") /\ UNCHANGED Rest
    BY DEF Heartbeat, Rest, broker, worker, jobs
  <1>2. "active" \in Statuses \ Final
    BY DEF Statuses, Final
  <1> QED BY <1>1, <1>2, HeldIs, RecordKeeps

LEMMA FailureKeeps ==
    ASSUME Inv, NEW w \in Workers, StartFails(w) \/ HandlerFails(w) \/ HandlerTimesOut(w)
    PROVE  Inv'
  <1>1. /\ pc[w] \in {"running"} /\ Goto(w, "failing") /\ UNCHANGED <<Queue, held, jobs>>
        /\ UNCHANGED tracker \/ Track(held[w].id, "timeout")
    BY DEF StartFails, HandlerFails, HandlerTimesOut, Queue, broker
  <1>2. "timeout" \in Statuses \ Final
    BY DEF Statuses, Final
  <1>3. Quiet
    BY <1>1, <1>2, SameIsQuiet, TrackIsQuiet
  <1> QED BY <1>1, <1>3, FailKeeps

LEMMA HandlerSucceedsKeeps ==
    ASSUME Inv, NEW w \in Workers, HandlerSucceeds(w)
    PROVE  Inv'
  <1>1. /\ pc[w] \in {"running", "failing"} /\ Goto(w, "acking")
        /\ closed' = closed \union {Job(held[w])} /\ failed' = failed
        /\ UNCHANGED <<Queue, held, tries, tracker>>
    BY DEF HandlerSucceeds, Queue, broker
  <1> QED BY <1>1, CloseKeeps

LEMMA GiveUpKeeps ==
    ASSUME Inv, NEW w \in Workers, GiveUp(w)
    PROVE  Inv'
  <1>1. /\ pc[w] \in {"failing"} /\ Goto(w, "ackFinal")
        /\ NextAttempts(held[w]) >= MaxAttempts
        /\ closed' = closed \union {Job(held[w])} /\ failed' = failed \union {Job(held[w])}
        /\ UNCHANGED <<Queue, held, tries, tracker>>
    BY DEF GiveUp, Queue, broker
  <1>2. InHand(held[w], ids, tries, closed)
    BY <1>1 DEF Inv, Slots
  <1>3. tries[Job(held[w])] = MaxAttempts
    BY <1>1, <1>2, WorkerAssumption DEF InHand, Numbered, Msg, NextAttempts
  <1> QED BY <1>1, <1>3, CloseKeeps

LEMMA AckKeeps ==
    ASSUME Inv, InMemory, NEW w \in Workers, AckEarly(w) \/ Complete(w) \/ AckFailed(w)
    PROVE  Inv'
  <1>1. /\ pc[w] \in {"ackEarly", "acking", "ackRetry", "ackFinal"} /\ BackToIdle(w)
        /\ UNCHANGED <<Queue, jobs>>
        /\ UNCHANGED tracker
           \/ \E s \in {"completed", "failed", "pending"} : Track(held[w].id, s)
    BY DEF AckEarly, Complete, AckFailed, Ack, InMemory, Queue
  <1>2. /\ tracker' \in [Ids -> Statuses]
        /\ \A i \in Ids : i # held[w].id => tracker'[i] = tracker[i]
    <2>1. {"completed", "failed", "pending"} \subseteq Statuses
      BY DEF Statuses
    <2>2. CASE UNCHANGED tracker
      BY <2>2 DEF Inv, Shapes
    <2>3. CASE \E s \in {"completed", "failed", "pending"} : Track(held[w].id, s)
      BY <2>1, <2>3, TrackIs DEF Inv
    <2> QED BY <1>1, <2>2, <2>3
  <1> QED BY <1>1, <1>2, FinishKeeps

\* A worker puts its job back into the queue, under a new id.
LEMMA PutBackKeeps ==
    ASSUME Inv, InMemory, NEW w \in Workers, pc[w] \in {"early", "failing"}, NEW m \in Msg,
           m.id = held[w].id, m.attempts = tries[Job(held[w])], m.attempts < MaxAttempts,
           Enqueue(m), NEW l \in {"ackEarly", "ackRetry"}, Goto(w, l),
           UNCHANGED <<parked, jobs, held>>
    PROVE  Inv'
  <1> DEFINE j == Job(held[w])
             n == held[w].id[2]
  <1>1. /\ j \in Jobs /\ held[w].id = <<j, n>> /\ n \in Nat /\ n <= ids[j] /\ j \notin closed
    BY HeldIs DEF Inv, Slots, Waits, InHand, Numbered, Msg
  <1>2. m \in [id : Jobs \X Nat, attempts : Nat, due : BOOLEAN, unique : BOOLEAN]
    BY DEF Msg
  <1>3. Answers(w, j)
    BY DEF Answers
  <1>4. \A k \in DOMAIN waiting : Job(waiting[k]) # j
    BY <1>3 DEF Inv, OneCopy
  <1>5. \A v \in Workers : v # w => ~Answers(v, j)
    BY <1>1, <1>3 DEF Inv, OneCopy
  <1>6. /\ pc' \in [Workers -> Labels] /\ pc'[w] = l
        /\ \A v \in Workers : v # w => pc'[v] = pc[v]
    BY DEF Goto, Inv, Shapes, Labels
  <1>7. ASSUME NEW v \in Workers
        PROVE  ~(pc'[v] \in {"early", "running", "failing"} /\ Job(held'[v]) = j)
    <2>1. CASE v = w
      BY <1>6, <2>1
    <2>2. CASE v # w
      BY <1>5, <1>6, <2>2 DEF Answers
    <2> QED BY <2>1, <2>2
  <1>8. \A v \in Workers : pc'[v] # pc[v] => /\ pc[v] # "idle" /\ Job(held[v]) = j
                                             /\ pc'[v] \in {"ackEarly", "ackRetry"}
    BY <1>6
  <1> HIDE DEF j, n
  <1>9. PICK c \in Msg :
              /\ c.id = <<j, ids[j] + 1>> /\ c.attempts = m.attempts
              /\ Adds(j, c) /\ hidden' = hidden
              /\ tracker' \in [Ids -> Statuses]
              /\ \A i \in Ids : i # c.id => tracker'[i] = tracker[i]
              /\ \A i \in Ids : i = c.id => tracker'[i] \notin Final
    BY <1>1, <1>2, EnqueueIs
  <1>10. c.attempts = tries[j] /\ c.attempts < MaxAttempts
    BY <1>9 DEF j
  <1>11. ASSUME NEW i \in Jobs, i = j
         PROVE  \A v \in Workers : ~Answers(v, i)'
    BY <1>7, <1>11 DEF Answers
  <1> QED BY <1>1, <1>4, <1>6, <1>8, <1>9, <1>10, <1>11, AddKeeps DEF jobs

LEMMA RequeueEarlyKeeps ==
    ASSUME Inv, InMemory, NEW w \in Workers, RequeueEarly(w)
    PROVE  Inv'
  <1>1. /\ pc[w] \in {"early"} /\ Enqueue(held[w]) /\ Goto(w, "ackEarly")
        /\ UNCHANGED <<parked, jobs, held>>
    BY NoFailure DEF RequeueEarly
  <1>2. Waits(held[w], ids, tries, closed)
    BY <1>1 DEF Inv, Slots
  <1>3. /\ held[w] \in Msg /\ held[w].attempts = tries[Job(held[w])]
        /\ held[w].attempts < MaxAttempts
    BY <1>2 DEF Waits, Numbered
  <1> QED BY <1>1, <1>3, PutBackKeeps

LEMMA RetryMessageIs ==
    ASSUME NEW m \in Msg
    PROVE  /\ RetryMessage(m) \in Msg /\ RetryMessage(m).id = m.id
           /\ RetryMessage(m).attempts = m.attempts + 1
  <1> DEFINE a == [m EXCEPT !.attempts = m.attempts + 1]
  <1>1. a \in Msg /\ a.id = m.id /\ a.attempts = m.attempts + 1
    BY DEF Msg
  <1>2. RetryMessage(m) = [a EXCEPT !.due = FALSE]
    BY DEF RetryMessage, NextAttempts
  <1> HIDE DEF a
  <1> QED BY <1>1, <1>2 DEF Msg

LEMMA RetryKeeps ==
    ASSUME Inv, InMemory, NEW w \in Workers, Retry(w)
    PROVE  Inv'
  <1>1. /\ pc[w] \in {"failing"} /\ NextAttempts(held[w]) < MaxAttempts
        /\ Enqueue(RetryMessage(held[w])) /\ Goto(w, "ackRetry")
        /\ UNCHANGED <<parked, jobs, held>>
    BY NoFailure DEF Retry
  <1>2. InHand(held[w], ids, tries, closed)
    BY <1>1 DEF Inv, Slots
  <1>3. /\ RetryMessage(held[w]) \in Msg /\ RetryMessage(held[w]).id = held[w].id
        /\ RetryMessage(held[w]).attempts = held[w].attempts + 1
    BY <1>2, RetryMessageIs DEF InHand, Numbered
  <1>4. held[w].attempts + 1 = tries[Job(held[w])] /\ held[w].attempts + 1 < MaxAttempts
    BY <1>1, <1>2 DEF InHand, NextAttempts
  <1> QED BY <1>1, <1>3, <1>4, PutBackKeeps

-----------------------------------------------------------------------------
(* The theorems *)

\* Producers leave the attempts of a payload unset.
Unset == InitialAttempts = 0

LEMMA StepKeeps ==
    ASSUME Unset, Inv, InMemory, [Next]_<<driver, vars>>
    PROVE  Inv' /\ InMemory'
  <1>1. CASE UNCHANGED <<driver, vars>>
    <2>1. UNCHANGED <<driver, Rest, tracker>>
      BY <1>1 DEF vars, Rest, broker, worker, jobs
    <2> QED BY <2>1 DEF Rest, Inv, InMemory, Shapes, Slots, OneCopy, OneId, Records,
                        Counts, Answers
  <1>2. CASE Next
    <2>1. InMemory'
      BY <1>2 DEF Next, InMemory
    <2>2. \A w \in Workers : ~Crash(w)
      BY DEF Crash, InMemory
    <2>3. ASSUME NEW w \in Workers, WorkerStep(w) PROVE Inv'
      BY <2>3, DequeueKeeps, RequeueEarlyKeeps, AckKeeps, HandlerSucceedsKeeps,
         FailureKeeps, RetryKeeps, GiveUpKeeps DEF WorkerStep
    <2>4. Inv'
      BY <1>2, <2>2, <2>3, ProduceKeeps, RecoverKeeps, BecomesDueKeeps, ReappearsKeeps,
         ReconcileKeeps, HeartbeatKeeps, FailureKeeps DEF Next, Unset
    <2> QED BY <2>1, <2>4
  <1> QED BY <1>1, <1>2

\* The invariant speaks of deployments with the in-memory driver.
MemInv == driver = "memory" => Inv

LEMMA Invariance ==
    ASSUME Unset
    PROVE  Spec => []MemInv
  <1>1. Init => MemInv
    BY InitInv DEF MemInv, InMemory
  <1>2. MemInv /\ [Next]_<<driver, vars>> => MemInv'
    <2> SUFFICES ASSUME MemInv, [Next]_<<driver, vars>>, driver' = "memory" PROVE Inv'
      BY DEF MemInv
    <2>1. driver = "memory"
      BY DEF Next
    <2> QED BY <2>1, StepKeeps DEF MemInv, InMemory
  <1> QED BY <1>1, <1>2, PTL DEF Spec

\* A job gets as many attempts as the worker allows before it fails for good, and
\* never more, however often its message is retried or delivered early, for
\* any number of workers and jobs (in memory).
THEOREM AttemptsAreBudgeted ==
    ASSUME Unset
    PROVE  Spec => []AttemptBudget
  <1>1. ASSUME MemInv, InMemory, NEW j \in Jobs
        PROVE  tries[j] <= MaxAttempts /\ (j \in failed => tries[j] = MaxAttempts)
    BY <1>1 DEF MemInv, InMemory, Inv, Counts
  <1>2. MemInv => AttemptBudget
    BY <1>1 DEF AttemptBudget, InMemory
  <1> QED BY <1>2, Invariance, PTL

\* Whoever answers for an open job does so alone: the two sets that Copies counts
\* are empty but for one element of one of them.
LEMMA OneAnswer ==
    ASSUME Inv, NEW j \in Jobs
    PROVE  Copies(j) = IF Produced(j) /\ j \notin closed THEN 1 ELSE 0
  <1> DEFINE M == {k \in DOMAIN waiting : Job(waiting[k]) = j}
             W == {w \in Workers : Answers(w, j)}
  <1>1. Copies(j) = Cardinality(M) + Cardinality(W)
    BY DEF Copies
  <1>2. Cardinality({}) = 0 /\ \A x : Cardinality({x}) = 1
    BY FS_EmptySet, FS_Singleton
  <1>3. \A k, l \in M : k = l
    BY DEF Inv, OneCopy
  <1>4. \A v, w \in W : v = w
    BY DEF Inv, OneCopy
  <1>5. M = {} \/ W = {}
    BY DEF Inv, OneCopy
  <1>6. Produced(j) <=> ids[j] > 0
    BY ProducedIs
  <1>7. ids[j] \in Nat
    BY DEF Inv, Shapes
  <1>8. ASSUME j \in closed \/ ids[j] = 0
        PROVE  M = {} /\ W = {}
    <2>1. \A m : Numbered(m, ids) => m.id[2] \in Nat \ {0} /\ m.id[2] <= ids[Job(m)]
      BY DEF Numbered, Msg
    <2>2. \A m : /\ Waits(m, ids, tries, closed) => Job(m) # j
                 /\ InHand(m, ids, tries, closed) => Job(m) # j
      BY <1>8, <2>1 DEF Waits, InHand
    <2>3. \A k \in DOMAIN waiting : Job(waiting[k]) # j
      BY <2>2 DEF Inv, Slots
    <2>4. \A w \in Workers : ~Answers(w, j)
      BY <2>2 DEF Inv, Slots, Answers
    <2> QED BY <2>3, <2>4
  <1>9. ASSUME j \notin closed, ids[j] > 0
        PROVE  M # {} \/ W # {}
    BY <1>9 DEF Inv, Counts
  <1>10. ASSUME NEW S, S # {}, \A x, y \in S : x = y
         PROVE  Cardinality(S) = 1
    <2>1. PICK x : S = {x}
      BY <1>10
    <2> QED BY <1>2, <2>1
  <1> HIDE DEF M, W
  <1>11. CASE j \in closed \/ ids[j] = 0
    BY <1>1, <1>2, <1>6, <1>8, <1>11
  <1>12. CASE ~(j \in closed \/ ids[j] = 0)
    <2>1. ids[j] > 0
      BY <1>7, <1>12
    <2>2. \/ M = {} /\ Cardinality(W) = 1
          \/ W = {} /\ Cardinality(M) = 1
      BY <1>3, <1>4, <1>5, <1>9, <1>10, <1>12, <2>1
    <2> QED BY <1>1, <1>2, <1>6, <1>12, <2>1, <2>2
  <1> QED BY <1>11, <1>12

\* A job is neither lost nor duplicated in memory: until it is closed exactly one
\* message or worker answers for it, and none afterwards.
THEOREM JobsConserved ==
    ASSUME Unset
    PROVE  Spec => []Conserved
  <1>1. MemInv => Conserved
    BY OneAnswer DEF MemInv, Conserved
  <1> QED BY <1>1, Invariance, PTL

\* A record that is closed is not written to by any step.
LEMMA FinalStays ==
    ASSUME Unset, Inv, InMemory, Next, NEW id \in Ids, tracker[id] \in Final
    PROVE  tracker'[id] = tracker[id]
  <1>1. /\ \A k \in DOMAIN waiting : waiting[k].id # id
        /\ \A w \in Workers : pc[w] # "idle" => held[w].id # id
        /\ id[2] <= ids[id[1]] /\ id[1] \in Jobs
    BY DEF Inv, Records, Ids
  <1>2. ASSUME NEW i, NEW status, Track(i, status), i # id
        PROVE  tracker'[id] = tracker[id]
    BY <1>2 DEF Track, Inv, Shapes
  <1>3. ASSUME NEW j \in Jobs, NEW m, NEW n \in Nat,
               m \in [id : Jobs \X Nat, attempts : Nat, due : BOOLEAN, unique : BOOLEAN],
               m.id = <<j, n>>, n <= ids[j], Enqueue(m)
        PROVE  tracker'[id] = tracker[id]
    <2>1. PICK c \in Msg : /\ c.id = <<j, ids[j] + 1>>
                           /\ \A i \in Ids : i # c.id => tracker'[i] = tracker[i]
      BY <1>3, EnqueueIs
    <2>2. ids[j] \in Nat
      BY DEF Inv, Shapes
    <2>3. id # c.id
      BY <1>1, <2>1, <2>2
    <2> QED BY <2>1, <2>3
  <1>4. ASSUME NEW j \in Jobs, Produce(j) PROVE tracker'[id] = tracker[id]
    <2>1. Enqueue(New(j)) /\ ids[j] \in Nat
      BY <1>4, NoFailure DEF Produce, Inv, Shapes
    <2>2. /\ New(j) \in [id : Jobs \X Nat, attempts : Nat, due : BOOLEAN, unique : BOOLEAN]
          /\ New(j).id = <<j, 0>>
      BY WorkerAssumption DEF New
    <2> QED BY <1>3, <2>1, <2>2
  <1>5. ASSUME NEW w \in Workers, RequeueEarly(w) \/ Retry(w)
        PROVE  tracker'[id] = tracker[id]
    <2>1. /\ pc[w] \in {"early", "failing"}
          /\ Enqueue(held[w]) \/ Enqueue(RetryMessage(held[w]))
      BY <1>5, NoFailure DEF RequeueEarly, Retry
    <2>2. PICK m \in Msg : m.id = held[w].id /\ Enqueue(m)
      BY <2>1, HeldIs, RetryMessageIs
    <2>3. /\ Job(held[w]) \in Jobs /\ held[w].id = <<Job(held[w]), held[w].id[2]>>
          /\ held[w].id[2] \in Nat /\ held[w].id[2] <= ids[Job(held[w])]
      BY <2>1, HeldIs DEF Numbered, Msg
    <2>4. m \in [id : Jobs \X Nat, attempts : Nat, due : BOOLEAN, unique : BOOLEAN]
      BY DEF Msg
    <2> QED BY <1>3, <2>2, <2>3, <2>4
  <1>6. ASSUME NEW w \in Workers, Dequeue(w) PROVE tracker'[id] = tracker[id]
    <2>1. waiting # <<>> /\ waiting \in Seq(Msg)
      BY <1>6 DEF Dequeue, Inv, Shapes
    <2>2. Head(waiting).id # id
      BY <1>1, <2>1, TailSeq
    <2>3. tracker' = tracker \/ Track(Head(waiting).id, "active")
      BY <1>6 DEF Dequeue
    <2> QED BY <1>2, <2>2, <2>3
  <1>7. ASSUME NEW w \in Workers,
               \/ AckEarly(w) \/ Complete(w) \/ AckFailed(w) \/ StartFails(w)
               \/ HandlerFails(w) \/ HandlerTimesOut(w) \/ HandlerSucceeds(w)
               \/ GiveUp(w) \/ Heartbeat(w)
        PROVE  tracker'[id] = tracker[id]
    <2>1. pc[w] # "idle" /\ (tracker' = tracker \/ \E s : Track(held[w].id, s))
      BY <1>7 DEF AckEarly, Complete, AckFailed, StartFails, HandlerFails,
                  HandlerTimesOut, HandlerSucceeds, GiveUp, Heartbeat
    <2> QED BY <1>1, <1>2, <2>1
  <1>8. ASSUME NEW i \in Ids, NEW s \in {"stalled", "timeout"}, Reconcile(i, s)
        PROVE  tracker'[id] = tracker[id]
    <2>1. Track(i, s) /\ i # id
      BY <1>8 DEF Reconcile, Final
    <2> QED BY <1>2, <2>1
  <1>9. BecomesDue => tracker' = tracker
    BY DEF BecomesDue
  <1>10. /\ parked = {} /\ hidden = {}
         /\ \A w \in Workers : ~Crash(w)
    BY DEF Inv, Shapes, Crash, InMemory
  <1> QED BY <1>4, <1>5, <1>6, <1>7, <1>8, <1>9, <1>10 DEF Next, WorkerStep

\* In memory a record that says completed or failed is final: no heartbeat,
\* reconciliation, retry or late acknowledgement reopens it.
THEOREM ClosedIsFinal ==
    ASSUME Unset
    PROVE  Spec => FinalStatus
  <1> DEFINE Stays == driver = "memory" =>
                 \A id \in Ids : tracker[id] \in {"completed", "failed"}
                                    => tracker'[id] = tracker[id]
  <1>1. MemInv /\ [Next]_<<driver, vars>> => [Stays]_vars
    BY FinalStays DEF MemInv, InMemory, Final
  <1>2. [][Stays]_vars <=> FinalStatus
    BY DEF FinalStatus
  <1> HIDE DEF Stays
  <1> QED BY <1>1, <1>2, Invariance, PTL DEF Spec

-----------------------------------------------------------------------------
(* Types, with either driver *)

\* A worker that is not idle holds a message.
Typed == TypeOK /\ \A w \in Workers : pc[w] # "idle" => held[w] \in Message

LEMMA QueueTypes ==
    ASSUME NEW s \in Seq(Message), NEW c \in Message
    PROVE  /\ Append(s, c) \in Seq(Message)
           /\ s # <<>> => Tail(s) \in Seq(Message) /\ Head(s) \in Message
           /\ \A k \in DOMAIN s : s[k] \in Message
  OBVIOUS

LEMMA TrackTypes ==
    ASSUME tracker \in [Ids -> Statuses], NEW id, NEW status \in Statuses, Track(id, status)
    PROVE  tracker' \in [Ids -> Statuses]
  BY DEF Track

LEMMA EnqueueTypes ==
    ASSUME TypeOK, NEW m \in Message, Enqueue(m)
    PROVE  /\ waiting' \in Seq(Message) /\ hidden' = hidden
           /\ ids' \in [Jobs -> Nat] /\ tracker' \in [Ids -> Statuses]
  <1> DEFINE id == NewId(m)
             c == [m EXCEPT !.id = id]
  <1>1. Job(m) \in Jobs /\ ids \in [Jobs -> Nat] /\ waiting \in Seq(Message)
        /\ tracker \in [Ids -> Statuses]
    BY DEF TypeOK, Message, Job
  <1>2. id \in Jobs \X Nat
    BY <1>1 DEF NewId, Message
  <1>3. c \in Message
    BY <1>2 DEF Message
  <1>4. /\ waiting' = waiting \/ waiting' = Append(waiting, c)
        /\ ids' = ids \/ ids' = [ids EXCEPT ![Job(m)] = @ + 1]
        /\ tracker' = tracker \/ Track(id, "pending")
        /\ hidden' = hidden
    BY DEF Enqueue
  <1> HIDE DEF c, id
  <1>5. waiting' \in Seq(Message)
    BY <1>1, <1>3, <1>4, QueueTypes
  <1>6. ids' \in [Jobs -> Nat]
    BY <1>1, <1>4
  <1>7. tracker' \in [Ids -> Statuses]
    BY <1>1, <1>4, TrackTypes DEF Statuses
  <1> QED BY <1>4, <1>5, <1>6, <1>7

LEMMA FaultTypes ==
    ASSUME TypeOK, NEW kind, Fault(kind)
    PROVE  faults' \in Nat
  BY DEF TypeOK, Fault

LEMMA EnqueueFailsTypes ==
    ASSUME TypeOK, NEW m \in Message, EnqueueFails(m)
    PROVE  /\ waiting' = waiting /\ hidden' = hidden
           /\ parked' \subseteq Message /\ ids' \in [Jobs -> Nat]
           /\ tracker' \in [Ids -> Statuses]
           /\ early' = early /\ faults' \in Nat
  <1> DEFINE id == IF m.unique THEN m.id ELSE <<Job(m), ids[Job(m)] + 1>>
             c == [m EXCEPT !.id = id]
  <1>1. Job(m) \in Jobs /\ ids \in [Jobs -> Nat] /\ parked \subseteq Message
        /\ tracker \in [Ids -> Statuses]
    BY DEF TypeOK, Message, Job
  <1>2. id \in Jobs \X Nat
    BY <1>1 DEF Message
  <1>3. c \in Message
    BY <1>2 DEF Message
  <1>4. /\ parked' = parked \union {c} /\ Track(id, "pending_recovery")
        /\ ids' = ids \/ ids' = [ids EXCEPT ![Job(m)] = @ + 1]
        /\ waiting' = waiting /\ hidden' = hidden /\ early' = early /\ Fault("enqueue")
    BY DEF EnqueueFails
  <1> HIDE DEF c, id
  <1>5. ids' \in [Jobs -> Nat]
    BY <1>1, <1>4
  <1>6. tracker' \in [Ids -> Statuses]
    BY <1>1, <1>4, TrackTypes DEF Statuses
  <1> QED BY <1>1, <1>3, <1>4, <1>5, <1>6, FaultTypes

\* t is s without its element at k.
Shrinks(s, k, t) ==
    /\ t \in Seq(Message)
    /\ \A i \in DOMAIN t : \E n \in DOMAIN s : t[i] = s[n]
    /\ \A n \in DOMAIN s : n # k => \E i \in DOMAIN t : t[i] = s[n]

LEMMA RemovalOf ==
    ASSUME NEW s \in Seq(Message), NEW k \in DOMAIN s, NEW t,
           t = SubSeq(s, 1, k - 1) \o SubSeq(s, k + 1, Len(s))
    PROVE  Shrinks(s, k, t)
  <1> DEFINE a == SubSeq(s, 1, k - 1)
             b == SubSeq(s, k + 1, Len(s))
  <1>1. /\ DOMAIN s = 1..Len(s) /\ Len(s) \in Nat /\ k \in Int /\ k >= 1 /\ k <= Len(s)
        /\ \A i \in 1..Len(s) : s[i] \in Message
    OBVIOUS
  <1>2. /\ a \in Seq(Message) /\ Len(a) = k - 1
        /\ \A i \in 1..(k - 1) : a[i] = s[i]
    <2>1. 1 \in Int /\ k - 1 \in Int /\ \A i \in 1..(k - 1) : s[i] \in Message
      BY <1>1
    <2>2. /\ SubSeq(s, 1, k - 1) \in Seq(Message)
          /\ Len(SubSeq(s, 1, k - 1)) = IF 1 <= k - 1 THEN k - 1 - 1 + 1 ELSE 0
          /\ \A i \in 1..(k - 1 - 1 + 1) : SubSeq(s, 1, k - 1)[i] = s[1 + i - 1]
      BY <2>1, SubSeqProperties
    <2> HIDE DEF a, b
    <2>3. /\ a \in Seq(Message)
          /\ Len(a) = IF 1 <= k - 1 THEN k - 1 - 1 + 1 ELSE 0
          /\ \A i \in 1..(k - 1 - 1 + 1) : a[i] = s[1 + i - 1]
      BY <2>2 DEF a
    <2> QED BY <1>1, <2>3
  <1>3. /\ b \in Seq(Message) /\ Len(b) = Len(s) - k
        /\ \A i \in 1..(Len(s) - k) : b[i] = s[k + i]
    <2>1. k + 1 \in Int /\ Len(s) \in Int /\ \A i \in (k + 1)..Len(s) : s[i] \in Message
      BY <1>1
    <2>2. /\ SubSeq(s, k + 1, Len(s)) \in Seq(Message)
          /\ Len(SubSeq(s, k + 1, Len(s))) = IF k + 1 <= Len(s) THEN Len(s) - (k + 1) + 1 ELSE 0
          /\ \A i \in 1..(Len(s) - (k + 1) + 1) :
                SubSeq(s, k + 1, Len(s))[i] = s[k + 1 + i - 1]
      BY <2>1, SubSeqProperties
    <2> HIDE DEF a, b
    <2>3. /\ b \in Seq(Message)
          /\ Len(b) = IF k + 1 <= Len(s) THEN Len(s) - (k + 1) + 1 ELSE 0
          /\ \A i \in 1..(Len(s) - (k + 1) + 1) : b[i] = s[k + 1 + i - 1]
      BY <2>2 DEF b
    <2>4. Len(b) = Len(s) - k
      BY <1>1, <2>3
    <2>5. ASSUME NEW i \in 1..(Len(s) - k) PROVE b[i] = s[k + i]
      <3>1. i \in 1..(Len(s) - (k + 1) + 1) /\ k + 1 + i - 1 = k + i
        BY <1>1
      <3> QED BY <2>3, <3>1
    <2> QED BY <2>3, <2>4, <2>5
  <1>4. t = a \o b
    OBVIOUS
  <1> HIDE DEF a, b
  <1>5. /\ t \in Seq(Message) /\ Len(t) = Len(a) + Len(b)
        /\ \A i \in 1..(Len(a) + Len(b)) :
              t[i] = IF i <= Len(a) THEN a[i] ELSE b[i - Len(a)]
    <2>1. a \in Seq(Message) /\ b \in Seq(Message)
      BY <1>2, <1>3
    <2>2. /\ a \o b \in Seq(Message) /\ Len(a \o b) = Len(a) + Len(b)
          /\ \A i \in 1..(Len(a) + Len(b)) :
                (a \o b)[i] = IF i <= Len(a) THEN a[i] ELSE b[i - Len(a)]
      BY <2>1, ConcatProperties
    <2> QED BY <1>4, <2>2
  <1>6. DOMAIN t = 1..(Len(s) - 1)
    BY <1>1, <1>2, <1>3, <1>5
  <1>7. ASSUME NEW i \in 1..(Len(s) - 1)
        PROVE  t[i] = IF i < k THEN s[i] ELSE s[i + 1]
    <2>1. i \in 1..(Len(a) + Len(b))
      BY <1>1, <1>2, <1>3
    <2>2. t[i] = IF i <= k - 1 THEN a[i] ELSE b[i - (k - 1)]
      BY <1>2, <1>5, <2>1
    <2>3. CASE i < k
      BY <1>1, <1>2, <2>2, <2>3
    <2>4. CASE ~(i < k)
      <3>3. /\ i \in Int /\ k \in Int /\ Len(s) \in Int
            /\ i <= Len(s) - 1 /\ i >= k
        BY <1>1, <2>4
      <3>4. i - (k - 1) >= 1 /\ i - (k - 1) <= Len(s) - k /\ i - (k - 1) \in Int
        BY <3>3
      <3>1. i - (k - 1) \in 1..(Len(s) - k) /\ k + (i - (k - 1)) = i + 1 /\ ~(i <= k - 1)
        BY <3>3, <3>4
      <3>2. t[i] = b[i - (k - 1)] /\ b[i - (k - 1)] = s[k + (i - (k - 1))]
        BY <1>3, <2>2, <3>1
      <3> QED BY <2>4, <3>1, <3>2
    <2> QED BY <2>3, <2>4
  <1>8. ASSUME NEW i \in DOMAIN t PROVE \E n \in DOMAIN s : t[i] = s[n]
    <2>1. i \in 1..(Len(s) - 1) /\ i \in DOMAIN s /\ i + 1 \in DOMAIN s
      BY <1>1, <1>6
    <2> QED BY <1>7, <2>1
  <1>9. ASSUME NEW n \in DOMAIN s, n # k PROVE \E i \in DOMAIN t : t[i] = s[n]
    <2>1. CASE n < k
      <3>1. n \in 1..(Len(s) - 1) /\ n \in DOMAIN t
        BY <1>1, <1>6, <2>1
      <3> QED BY <1>7, <2>1, <3>1
    <2>2. CASE n > k
      <3>1. n - 1 \in DOMAIN t /\ n - 1 \in 1..(Len(s) - 1)
        BY <1>1, <1>6, <2>2
      <3>3. ~(n - 1 < k) /\ n - 1 + 1 = n
        BY <1>1, <2>2
      <3>2. t[n - 1] = s[n - 1 + 1] /\ n - 1 + 1 = n
        BY <1>7, <3>1, <3>3
      <3> QED BY <3>1, <3>2
    <2>3. n < k \/ n > k
      BY <1>1, <1>9
    <2> QED BY <2>1, <2>2, <2>3
  <1> QED BY <1>5, <1>8, <1>9 DEF Shrinks

LEMMA AckTypes ==
    ASSUME TypeOK, NEW m, Ack(m)
    PROVE  waiting' \in Seq(Message) /\ hidden' \subseteq Message
  <1>1. waiting \in Seq(Message) /\ hidden \subseteq Message
    BY DEF TypeOK
  <1>2. CASE driver = "redis"
    <2>1. Without(m.id)
      BY <1>2 DEF Ack
    <2>2. ASSUME NEW k \in DOMAIN waiting,
                 waiting' = SubSeq(waiting, 1, k - 1) \o SubSeq(waiting, k + 1, Len(waiting))
          PROVE  waiting' \in Seq(Message)
      BY <1>1, <2>2, RemovalOf DEF Shrinks
    <2> QED BY <1>1, <2>1, <2>2 DEF Without
  <1>3. CASE driver # "redis"
    BY <1>1, <1>3 DEF Ack
  <1> QED BY <1>2, <1>3

\* The parts of Typed: what workers hold, and the rest.
Hands ==
    /\ pc \in [Workers -> Labels]
    /\ held \in [Workers -> Message \union {NoMessage}]
    /\ \A w \in Workers : pc[w] # "idle" => held[w] \in Message

Stores ==
    /\ driver \in Drivers
    /\ waiting \in Seq(Message) /\ hidden \subseteq Message
    /\ ids \in [Jobs -> Nat]
    /\ tries \in [Jobs -> Nat]
    /\ failed \subseteq closed /\ closed \subseteq Jobs /\ accepted \subseteq Jobs
    /\ parked \subseteq Message
    /\ tracker \in [Ids -> Statuses]
    /\ early \in [Jobs -> Nat] /\ faults \in Nat

LEMMA TypedIs ==
    /\ Typed <=> (Hands /\ Stores)
    /\ Typed' <=> (Hands' /\ Stores')
    /\ Typed => TypeOK
  BY DEF Typed, TypeOK, Hands, Stores, Labels

LEMMA HandsStay == Hands /\ UNCHANGED worker => Hands'
  BY DEF Hands, worker

LEMMA HandsGo ==
    ASSUME Hands, NEW w \in Workers, pc[w] # "idle", NEW l \in Labels,
           Goto(w, l), held' = held
    PROVE  Hands'
  BY DEF Hands, Goto

LEMMA HandsOpen ==
    ASSUME Hands, NEW w \in Workers, BackToIdle(w)
    PROVE  Hands'
  <1>1. /\ pc' = [pc EXCEPT ![w] = "idle"]
        /\ held' = [held EXCEPT ![w] = NoMessage]
    BY DEF BackToIdle, Goto
  <1>2. pc' \in [Workers -> Labels] /\ held' \in [Workers -> Message \union {NoMessage}]
    BY <1>1 DEF Hands, Labels
  <1>3. \A v \in Workers : pc'[v] # "idle" => pc[v] # "idle" /\ held'[v] = held[v]
    BY <1>1 DEF Hands
  <1> QED BY <1>2, <1>3 DEF Hands

\* A job of a typed message, and what a retry makes of the message.
LEMMA MessageIs ==
    ASSUME NEW m \in Message
    PROVE  /\ Job(m) \in Jobs
           /\ m.id = <<Job(m), m.id[2]>> /\ m.id[2] \in Nat
           /\ RetryMessage(m) \in Message
           /\ RetryMessage(m).id = m.id /\ RetryMessage(m).unique = m.unique
           /\ RetryMessage(m).attempts = m.attempts + 1
  <1>1. Job(m) \in Jobs /\ m.id = <<Job(m), m.id[2]>> /\ m.id[2] \in Nat
    BY DEF Message, Job
  <1> DEFINE a == [m EXCEPT !.attempts = m.attempts + 1]
  <1>2. /\ a \in Message /\ a.id = m.id /\ a.unique = m.unique
        /\ a.attempts = m.attempts + 1
    BY DEF Message
  <1>3. RetryMessage(m) = [a EXCEPT !.due = FALSE]
    BY DEF RetryMessage, NextAttempts, Message
  <1> HIDE DEF a
  <1>4. /\ [a EXCEPT !.due = FALSE] \in Message
        /\ [a EXCEPT !.due = FALSE].id = a.id
        /\ [a EXCEPT !.due = FALSE].unique = a.unique
        /\ [a EXCEPT !.due = FALSE].attempts = a.attempts
    BY <1>2 DEF Message
  <1> QED BY <1>1, <1>2, <1>3, <1>4

LEMMA InitTyped == Init => Typed
  <1> SUFFICES ASSUME Init PROVE Typed
    OBVIOUS
  <1>1. Hands
    BY DEF Init, Hands, Labels
  <1>2. Stores
    BY DEF Init, Stores, Statuses
  <1> QED BY <1>1, <1>2, TypedIs

LEMMA ProduceTyped ==
    ASSUME Typed, NEW j \in Jobs, Produce(j), driver' = driver
    PROVE  Typed'
  <1>1. New(j) \in Message
    BY WorkerAssumption DEF New, Message
  <1>2. Hands /\ Stores /\ TypeOK
    BY TypedIs
  <1>3. /\ UNCHANGED <<worker, tries, closed, failed>>
        /\ accepted' \subseteq Jobs
    BY <1>2 DEF Produce, Stores
  <1>4. Hands'
    BY <1>2, <1>3, HandsStay
  <1>5. CASE Enqueue(New(j)) /\ UNCHANGED <<parked, bounds>>
    <2>1. /\ waiting' \in Seq(Message) /\ hidden' = hidden
          /\ ids' \in [Jobs -> Nat] /\ tracker' \in [Ids -> Statuses]
      BY <1>1, <1>2, <1>5, EnqueueTypes
    <2> QED BY <1>2, <1>3, <1>4, <1>5, <2>1, TypedIs DEF Stores, bounds
  <1>6. CASE EnqueueFails(New(j))
    <2>1. /\ waiting' = waiting /\ hidden' = hidden
          /\ parked' \subseteq Message /\ ids' \in [Jobs -> Nat]
          /\ tracker' \in [Ids -> Statuses]
          /\ early' = early /\ faults' \in Nat
      BY <1>1, <1>2, <1>6, EnqueueFailsTypes
    <2> QED BY <1>2, <1>3, <1>4, <2>1, TypedIs DEF Stores
  <1> QED BY <1>4, <1>5, <1>6, TypedIs DEF Produce

LEMMA RecoverTyped ==
    ASSUME Typed, NEW m \in parked, Recover(m), driver' = driver
    PROVE  Typed'
  <1>1. Hands /\ Stores /\ TypeOK
    BY TypedIs
  <1>2. Hands'
    BY <1>1, HandsStay DEF Recover
  <1> DEFINE n == IF m.attempts > 0 THEN m.attempts ELSE 3
             r == [m EXCEPT !.attempts = n, !.due = FALSE, !.unique = TRUE]
  <1>3. m \in Message /\ n \in Nat
    BY <1>1 DEF Stores, Message
  <1> HIDE DEF n
  <1>4. r \in Message
    BY <1>3 DEF Message
  <1>5. /\ waiting' = waiting \/ waiting' = Append(waiting, r)
        /\ Track(m.id, "enqueued")
        /\ parked' \subseteq parked
        /\ UNCHANGED <<hidden, ids, jobs, bounds>>
    BY DEF Recover, n
  <1> HIDE DEF r
  <1>6. waiting' \in Seq(Message)
    BY <1>1, <1>4, <1>5, QueueTypes DEF Stores
  <1>7. tracker' \in [Ids -> Statuses]
    BY <1>1, <1>5, TrackTypes DEF Stores, Statuses
  <1>8. Stores'
    BY <1>1, <1>5, <1>6, <1>7 DEF Stores, jobs, bounds
  <1> QED BY <1>2, <1>8, TypedIs

LEMMA TimeTyped ==
    ASSUME Typed, driver' = driver,
           BecomesDue \/ (\E m \in hidden : Reappears(m))
    PROVE  Typed'
  <1>1. Hands /\ Stores /\ TypeOK
    BY TypedIs
  <1>2. Hands'
    BY <1>1, HandsStay DEF BecomesDue, Reappears
  <1>3. ASSUME BecomesDue PROVE Stores'
    <2>1. PICK k \in DOMAIN waiting : waiting' = [waiting EXCEPT ![k].due = TRUE]
      BY <1>3 DEF BecomesDue
    <2>2. waiting \in Seq(Message) /\ waiting[k] \in Message
      BY <1>1 DEF Stores
    <2> DEFINE c == [waiting[k] EXCEPT !.due = TRUE]
    <2>3. c \in Message
      BY <2>2 DEF Message
    <2>4. waiting' = [waiting EXCEPT ![k] = c]
      BY <2>1
    <2> HIDE DEF c
    <2>5. waiting' \in Seq(Message)
      BY <2>2, <2>3, <2>4
    <2> QED BY <1>1, <1>3, <2>5 DEF BecomesDue, Stores, jobs, bounds
  <1>4. ASSUME NEW m \in hidden, Reappears(m) PROVE Stores'
    <2>1. /\ m \in Message /\ waiting' = Append(waiting, m) /\ hidden' \subseteq hidden
          /\ UNCHANGED <<ids, jobs, parked, tracker, bounds>>
      BY <1>1, <1>4 DEF Reappears, Stores
    <2>2. waiting' \in Seq(Message)
      BY <1>1, <2>1, QueueTypes DEF Stores
    <2> QED BY <1>1, <2>1, <2>2 DEF Stores, jobs, bounds
  <1> QED BY <1>2, <1>3, <1>4, TypedIs

LEMMA RecordTyped ==
    ASSUME Typed, driver' = driver, NEW id, NEW status \in Statuses, Track(id, status),
           UNCHANGED <<broker, worker, jobs, parked, bounds>>
    PROVE  Typed'
  <1>1. Hands /\ Stores
    BY TypedIs
  <1>2. Hands'
    BY <1>1, HandsStay
  <1>3. tracker' \in [Ids -> Statuses]
    BY <1>1, TrackTypes DEF Stores
  <1>4. Stores'
    BY <1>1, <1>3 DEF Stores, broker, jobs, bounds
  <1> QED BY <1>2, <1>4, TypedIs

LEMMA DequeueTyped ==
    ASSUME Typed, driver' = driver, NEW w \in Workers, Dequeue(w)
    PROVE  Typed'
  <1>1. Hands /\ Stores
    BY TypedIs
  <1> DEFINE m == Head(waiting)
  <1>2. /\ m \in Message /\ waiting' = Tail(waiting) /\ Tail(waiting) \in Seq(Message)
        /\ hidden' = hidden \/ hidden' = hidden \union {m}
        /\ held' = [held EXCEPT ![w] = m]
        /\ Goto(w, "running") \/ Goto(w, "early")
        /\ tries' = tries \/ tries' = [tries EXCEPT ![Job(m)] = @ + 1]
        /\ tracker' = tracker \/ Track(m.id, "active")
        /\ early' = early \/ early' = [early EXCEPT ![Job(m)] = @ + 1]
        /\ UNCHANGED <<ids, accepted, closed, failed, parked, faults>>
    BY <1>1, QueueTypes DEF Dequeue, Stores
  <1> HIDE DEF m
  <1>3. Hands'
    <2>1. pc' = [pc EXCEPT ![w] = "running"] \/ pc' = [pc EXCEPT ![w] = "early"]
      BY <1>2 DEF Goto
    <2>2. pc' \in [Workers -> Labels]
      BY <1>1, <2>1 DEF Hands, Labels
    <2>3. held' \in [Workers -> Message \union {NoMessage}] /\ held'[w] = m
      BY <1>1, <1>2 DEF Hands
    <2>4. \A v \in Workers : v # w => pc'[v] = pc[v] /\ held'[v] = held[v]
      BY <1>1, <1>2, <2>1 DEF Hands
    <2> QED BY <1>1, <1>2, <2>2, <2>3, <2>4 DEF Hands
  <1>4. tracker' \in [Ids -> Statuses]
    BY <1>1, <1>2, TrackTypes DEF Stores, Statuses
  <1>5. waiting' \in Seq(Message) /\ hidden' \subseteq Message
    BY <1>1, <1>2 DEF Stores
  <1>6. tries' \in [Jobs -> Nat] /\ early' \in [Jobs -> Nat]
    <2>1. Job(m) \in Jobs /\ tries \in [Jobs -> Nat] /\ early \in [Jobs -> Nat]
      BY <1>1, <1>2, MessageIs DEF Stores
    <2>2. ASSUME NEW f \in [Jobs -> Nat], NEW j \in Jobs
          PROVE  [f EXCEPT ![j] = @ + 1] \in [Jobs -> Nat]
      OBVIOUS
    <2>3. tries' = tries \/ tries' = [tries EXCEPT ![Job(m)] = @ + 1]
      BY <1>2
    <2>4. early' = early \/ early' = [early EXCEPT ![Job(m)] = @ + 1]
      BY <1>2
    <2> QED BY <2>1, <2>2, <2>3, <2>4
  <1>7. Stores'
    BY <1>1, <1>2, <1>4, <1>5, <1>6 DEF Stores
  <1> QED BY <1>3, <1>7, TypedIs

\* A worker that sends its message, or the retry of it, again.
LEMMA SendTyped ==
    ASSUME Typed, driver' = driver, NEW w \in Workers, pc[w] # "idle", NEW m \in Message,
           NEW l \in Labels, UNCHANGED jobs,
           \/ Enqueue(m) /\ Goto(w, l) /\ UNCHANGED <<held, parked, bounds>>
           \/ EnqueueFails(m) /\ BackToIdle(w)
    PROVE  Typed'
  <1>1. Hands /\ Stores /\ TypeOK
    BY TypedIs
  <1>2. CASE Enqueue(m) /\ Goto(w, l) /\ UNCHANGED <<held, parked, bounds>>
    <2>1. /\ waiting' \in Seq(Message) /\ hidden' = hidden
          /\ ids' \in [Jobs -> Nat] /\ tracker' \in [Ids -> Statuses]
      BY <1>1, <1>2, EnqueueTypes
    <2>2. Hands'
      BY <1>1, <1>2, HandsGo
    <2>3. Stores'
      BY <1>1, <1>2, <2>1 DEF Stores, bounds, jobs
    <2> QED BY <2>2, <2>3, TypedIs
  <1>3. CASE EnqueueFails(m) /\ BackToIdle(w)
    <2>1. /\ waiting' = waiting /\ hidden' = hidden
          /\ parked' \subseteq Message /\ ids' \in [Jobs -> Nat]
          /\ tracker' \in [Ids -> Statuses]
          /\ early' = early /\ faults' \in Nat
      BY <1>1, <1>3, EnqueueFailsTypes
    <2>2. Hands'
      BY <1>1, <1>3, HandsOpen
    <2>3. Stores'
      BY <1>1, <2>1 DEF Stores, jobs
    <2> QED BY <2>2, <2>3, TypedIs
  <1> QED BY <1>2, <1>3

LEMMA SendsTyped ==
    ASSUME Typed, driver' = driver, NEW w \in Workers, RequeueEarly(w) \/ Retry(w)
    PROVE  Typed'
  <1>1. pc[w] # "idle" /\ held[w] \in Message
    BY DEF RequeueEarly, Retry, Typed
  <1>2. RetryMessage(held[w]) \in Message
    BY <1>1, MessageIs
  <1>3. "ackEarly" \in Labels /\ "ackRetry" \in Labels
    BY DEF Labels
  <1>4. CASE RequeueEarly(w)
    <2>1. \/ Enqueue(held[w]) /\ Goto(w, "ackEarly") /\ UNCHANGED <<held, parked, bounds>>
          \/ EnqueueFails(held[w]) /\ BackToIdle(w)
      BY <1>4 DEF RequeueEarly
    <2>2. UNCHANGED jobs
      BY <1>4 DEF RequeueEarly
    <2> QED BY <1>1, <1>3, <2>1, <2>2, SendTyped
  <1>5. CASE Retry(w)
    <2>1. \/ /\ Enqueue(RetryMessage(held[w])) /\ Goto(w, "ackRetry")
             /\ UNCHANGED <<held, parked, bounds>>
          \/ EnqueueFails(RetryMessage(held[w])) /\ BackToIdle(w)
      BY <1>5 DEF Retry
    <2>2. UNCHANGED jobs
      BY <1>5 DEF Retry
    <2> QED BY <1>1, <1>2, <1>3, <2>1, <2>2, SendTyped
  <1> QED BY <1>4, <1>5

\* The steps that ack.
LEMMA AcksTyped ==
    ASSUME Typed, driver' = driver, NEW w \in Workers,
           AckEarly(w) \/ Complete(w) \/ AckFailed(w)
    PROVE  Typed'
  <1>1. Hands /\ Stores /\ TypeOK
    BY TypedIs
  <1>2. /\ Ack(held[w]) /\ BackToIdle(w)
        /\ tracker' = tracker \/ (\E s \in Statuses : Track(held[w].id, s))
        /\ UNCHANGED <<ids, jobs, parked, bounds>>
    BY DEF AckEarly, Complete, AckFailed, Statuses
  <1>3. waiting' \in Seq(Message) /\ hidden' \subseteq Message
    BY <1>1, <1>2, AckTypes
  <1>4. Hands'
    BY <1>1, <1>2, HandsOpen
  <1>5. tracker' \in [Ids -> Statuses]
    BY <1>1, <1>2, TrackTypes DEF Stores
  <1>6. Stores'
    BY <1>1, <1>2, <1>3, <1>5 DEF Stores, jobs, bounds
  <1> QED BY <1>4, <1>6, TypedIs

\* The handler settles, or its worker dies.
LEMMA SettleTyped ==
    ASSUME Typed, driver' = driver, NEW w \in Workers,
           \/ StartFails(w) \/ HandlerSucceeds(w) \/ HandlerFails(w)
           \/ HandlerTimesOut(w) \/ GiveUp(w) \/ Crash(w)
    PROVE  Typed'
  <1>1. Hands /\ Stores /\ TypeOK
    BY TypedIs
  <1>2. /\ pc[w] # "idle"
        /\ \/ \E l \in {"failing", "acking", "ackFinal"} : Goto(w, l) /\ held' = held
           \/ BackToIdle(w)
        /\ tracker' = tracker \/ (\E s \in Statuses : Track(held[w].id, s))
        /\ closed' = closed \/ closed' = closed \union {Job(held[w])}
        /\ failed' = failed \/ (/\ failed' = failed \union {Job(held[w])}
                               /\ closed' = closed \union {Job(held[w])})
        /\ faults' = faults \/ (\E k : Fault(k))
        /\ UNCHANGED <<waiting, hidden, ids, tries, accepted, parked, early>>
    BY DEF StartFails, HandlerSucceeds, HandlerFails, HandlerTimesOut, GiveUp, Crash,
           Statuses, broker, jobs, bounds
  <1>3. Hands'
    BY <1>1, <1>2, HandsGo, HandsOpen DEF Labels
  <1>4. Job(held[w]) \in Jobs
    BY <1>1, <1>2, MessageIs DEF Hands
  <1>5. tracker' \in [Ids -> Statuses]
    BY <1>1, <1>2, TrackTypes DEF Stores
  <1>6. faults' \in Nat
    BY <1>1, <1>2, FaultTypes DEF Stores
  <1>7. failed' \subseteq closed' /\ closed' \subseteq Jobs
    BY <1>1, <1>2, <1>4 DEF Stores
  <1>8. Stores'
    BY <1>1, <1>2, <1>5, <1>6, <1>7 DEF Stores
  <1> QED BY <1>3, <1>8, TypedIs

LEMMA StepTyped == Typed /\ [Next]_<<driver, vars>> => Typed'
  <1> SUFFICES ASSUME Typed, [Next]_<<driver, vars>> PROVE Typed'
    OBVIOUS
  <1>1. CASE UNCHANGED <<driver, vars>>
    BY <1>1 DEF Typed, TypeOK, vars, broker, worker, jobs, bounds
  <1>2. CASE Next
    <2>1. driver' = driver
      BY <1>2 DEF Next
    <2>2. ASSUME NEW id, NEW s \in {"stalled", "timeout"}, Reconcile(id, s) PROVE Typed'
      BY <2>1, <2>2, RecordTyped DEF Reconcile, Statuses
    <2>3. ASSUME NEW w \in Workers, Heartbeat(w) PROVE Typed'
      BY <2>1, <2>3, RecordTyped DEF Heartbeat, Statuses
    <2>4. ASSUME NEW w \in Workers, WorkerStep(w) PROVE Typed'
      BY <2>1, <2>4, DequeueTyped, SendsTyped, AcksTyped, SettleTyped DEF WorkerStep
    <2> QED BY <1>2, <2>1, <2>2, <2>3, <2>4, ProduceTyped, RecoverTyped, TimeTyped,
               SettleTyped DEF Next
  <1> QED BY <1>1, <1>2

LEMMA TypedInvariance == Spec => []Typed
  BY InitTyped, StepTyped, PTL DEF Spec

\* The types of the variables, with either driver and every fault.
THEOREM TypesAreKept == Spec => []TypeOK
  BY TypedInvariance, TypedIs, PTL

-----------------------------------------------------------------------------
(* Redis: no open job that reached the queue is out of it *)

\* What matters of a message that is in the queue or hidden, whichever of the two.
Face(m) == [id |-> m.id, attempts |-> m.attempts, unique |-> m.unique]
FaceSet == [id : Jobs \X Nat, attempts : Nat, unique : BOOLEAN]
Faces == {Face(waiting[k]) : k \in DOMAIN waiting} \union {Face(m) : m \in hidden}

\* n numbers a message of j in F that does not name its id: the driver made it.
First(F, j, n) == \E f \in F : f.id = <<j, n>> /\ ~f.unique

\* The messages of a job with a uniqueId name their id; the ids of all others
\* were made by the driver, numbered from 1.
Own(m, is) == IF Job(m) \in UniqueJobs THEN m.unique
              ELSE m.id[2] > 0 /\ m.id[2] <= is[Job(m)]

Owned ==
    /\ \A f \in Faces : Own(f, ids)
    /\ \A m \in parked : Own(m, ids)
    /\ \A w \in Workers : pc[w] # "idle" => Own(held[w], ids)

\* The messages put back by the daemon share no id with the others.
Apart ==
    \A f \in Faces : ~f.unique =>
        /\ \A m \in parked : m.id # f.id
        /\ \A g \in Faces : g.unique => g.id # f.id
        /\ \A w \in Workers : pc[w] # "idle" /\ held[w].unique => held[w].id # f.id

\* A worker about to ack a message of an open job has seen its successor added,
\* unless the message names its id.
Succeeded ==
    \A w \in Workers :
        /\ pc[w] \in {"acking", "ackFinal"} => Job(held[w]) \in closed
        /\ pc[w] \in {"ackEarly", "ackRetry"} /\ ~held[w].unique
              /\ Job(held[w]) \notin closed =>
                 \E n \in Nat : n > held[w].id[2] /\ First(Faces, Job(held[w]), n)

Alive == \A j \in accepted \ (closed \union UniqueJobs) : \E n \in Nat : First(Faces, j, n)

RedisInv == Owned /\ Apart /\ Succeeded /\ Alive

LEMMA FaceIs ==
    ASSUME NEW m
    PROVE  /\ Face(m).id = m.id /\ Face(m).attempts = m.attempts
           /\ Face(m).unique = m.unique /\ Job(Face(m)) = Job(m)
           /\ \A is : Own(Face(m), is) <=> Own(m, is)
           /\ m \in Message => Face(m) \in FaceSet
  BY DEF Face, Job, Own, Message, FaceSet

LEMMA FacesTyped ==
    ASSUME Typed
    PROVE  /\ Faces \subseteq FaceSet
           /\ \A f \in Faces : /\ Job(f) \in Jobs /\ f.id[2] \in Nat
                                /\ f.id = <<Job(f), f.id[2]>>
  <1>1. waiting \in Seq(Message) /\ hidden \subseteq Message
    BY DEF Typed, TypeOK
  <1>2. \A k \in DOMAIN waiting : waiting[k] \in Message
    BY <1>1, QueueTypes, WorkerAssumption
  <1>3. Faces \subseteq FaceSet
    BY <1>1, <1>2, FaceIs DEF Faces
  <1>4. \A f \in FaceSet : /\ Job(f) \in Jobs /\ f.id[2] \in Nat
                            /\ f.id = <<Job(f), f.id[2]>>
    BY DEF FaceSet, Job
  <1> QED BY <1>3, <1>4

LEMMA InQueueIs ==
    ASSUME NEW id
    PROVE  InQueue(id) <=> \E f \in Faces : f.id = id
  BY FaceIs DEF InQueue, Faces

LEMMA InitRedis == Init => RedisInv
  <1> SUFFICES ASSUME Init PROVE RedisInv
    OBVIOUS
  <1>1. waiting = <<>> /\ DOMAIN waiting = {} /\ hidden = {} /\ parked = {} /\ accepted = {}
    BY DEF Init
  <1>2. Faces = {}
    BY <1>1 DEF Faces
  <1>3. \A w \in Workers : pc[w] = "idle"
    BY DEF Init
  <1> QED BY <1>1, <1>2, <1>3 DEF RedisInv, Owned, Apart, Succeeded, Alive

\* A worker's move in a step that leaves the messages where they are.
Moves(w) ==
    pc'[w] # "idle" =>
        /\ \/ pc[w] # "idle" /\ held'[w] = held[w]
           \/ Face(held'[w]) \in Faces
        /\ pc'[w] \in {"ackEarly", "ackRetry"} => pc'[w] = pc[w] /\ held'[w] = held[w]
        /\ pc'[w] \in {"acking", "ackFinal"} => Job(held'[w]) \in closed'

\* A step that leaves the messages where they are.
LEMMA MoveKeeps ==
    ASSUME RedisInv, Faces' = Faces, ids' = ids, parked' = parked, accepted' = accepted,
           closed \subseteq closed', \A w \in Workers : Moves(w)
    PROVE  RedisInv'
  <1>1. ASSUME NEW w \in Workers, pc'[w] # "idle"
        PROVE  \/ pc[w] # "idle" /\ held'[w] = held[w]
               \/ Face(held'[w]) \in Faces
    BY <1>1 DEF Moves
  <1>2. Owned'
    <2>1. ASSUME NEW w \in Workers, pc'[w] # "idle" PROVE Own(held'[w], ids)
      BY <1>1, <2>1, FaceIs DEF RedisInv, Owned
    <2> QED BY <2>1 DEF RedisInv, Owned
  <1>3. Apart'
    <2>1. ASSUME NEW f \in Faces, ~f.unique, NEW w \in Workers, pc'[w] # "idle",
                 held'[w].unique
          PROVE  held'[w].id # f.id
      BY <1>1, <2>1, FaceIs DEF RedisInv, Apart
    <2> QED BY <2>1 DEF RedisInv, Apart
  <1>4. Succeeded'
    BY DEF RedisInv, Succeeded, Moves
  <1>5. Alive'
    BY DEF RedisInv, Alive
  <1> QED BY <1>2, <1>3, <1>4, <1>5 DEF RedisInv

\* A worker that is done with a message of j, or waits for the ack of it.
Sends(v, j) ==
    \/ pc'[v] = pc[v] /\ held'[v] = held[v]
    \/ pc'[v] = "idle"
    \/ /\ pc'[v] \in {"ackEarly", "ackRetry"} /\ held'[v] = held[v]
       /\ pc[v] # "idle" /\ Job(held[v]) = j

\* The next id of j is used.
NextId(j) == /\ ids' \in [Jobs -> Nat] /\ ids'[j] = ids[j] + 1
             /\ \A i \in Jobs : i # j => ids'[i] = ids[i]

LEMMA NextIdIs ==
    ASSUME Typed, Owned, NEW j \in Jobs \ UniqueJobs, NextId(j)
    PROVE  /\ \A i \in Jobs : ids[i] \in Nat /\ ids'[i] \in Nat /\ ids[i] <= ids'[i]
           /\ \A f \in Faces : Own(f, ids') /\ f.id # <<j, ids[j] + 1>>
           /\ \A m \in parked : Own(m, ids') /\ m.id # <<j, ids[j] + 1>>
           /\ \A w \in Workers : pc[w] # "idle" =>
                 /\ Own(held[w], ids') /\ held[w].id # <<j, ids[j] + 1>>
                 /\ Job(held[w]) \in Jobs /\ held[w].id[2] \in Nat
                 /\ ~held[w].unique => held[w].id[2] <= ids[Job(held[w])]
  <1>1. ids \in [Jobs -> Nat] /\ parked \subseteq Message
    BY DEF Typed, TypeOK
  <1>2. \A i \in Jobs : ids[i] \in Nat /\ ids'[i] \in Nat /\ ids[i] <= ids'[i]
    BY <1>1 DEF NextId
  <1>3. ASSUME NEW m, m.id = <<Job(m), m.id[2]>>, Job(m) \in Jobs, m.id[2] \in Nat, Own(m, ids)
        PROVE  Own(m, ids') /\ m.id # <<j, ids[j] + 1>>
    <2>1. CASE Job(m) \in UniqueJobs
      BY <1>3, <2>1 DEF Own
    <2>2. CASE Job(m) \notin UniqueJobs
      BY <1>2, <1>3, <2>2 DEF Own
    <2> QED BY <2>1, <2>2
  <1>4. \A f \in Faces : Own(f, ids') /\ f.id # <<j, ids[j] + 1>>
    BY <1>3, FacesTyped DEF Owned
  <1>5. \A m \in parked : Own(m, ids') /\ m.id # <<j, ids[j] + 1>>
    BY <1>1, <1>3, MessageIs DEF Owned
  <1>6. ASSUME NEW w \in Workers, pc[w] # "idle"
        PROVE  /\ Own(held[w], ids') /\ held[w].id # <<j, ids[j] + 1>>
               /\ Job(held[w]) \in Jobs /\ held[w].id[2] \in Nat
               /\ ~held[w].unique => held[w].id[2] <= ids[Job(held[w])]
    <2>1. held[w] \in Message /\ Own(held[w], ids)
      BY <1>6 DEF Typed, Owned
    <2>2. ~held[w].unique => held[w].id[2] <= ids[Job(held[w])]
      BY <2>1 DEF Own
    <2> QED BY <1>3, <2>1, <2>2, MessageIs
  <1> QED BY <1>2, <1>4, <1>5, <1>6

\* A message is added under a new id.
LEMMA FreshKeeps ==
    ASSUME Typed, RedisInv, NEW j \in Jobs \ UniqueJobs, NextId(j),
           NEW c \in FaceSet, c.id = <<j, ids[j] + 1>>, ~c.unique,
           Faces' = Faces \union {c}, parked' = parked, closed' = closed,
           accepted' \subseteq accepted \union {j},
           \A v \in Workers : Sends(v, j)
    PROVE  RedisInv'
  <1>1. /\ \A i \in Jobs : ids[i] \in Nat /\ ids'[i] \in Nat /\ ids[i] <= ids'[i]
        /\ \A f \in Faces : Own(f, ids') /\ f.id # c.id
        /\ \A m \in parked : Own(m, ids') /\ m.id # c.id
        /\ \A w \in Workers : pc[w] # "idle" =>
              /\ Own(held[w], ids') /\ held[w].id # c.id
              /\ Job(held[w]) \in Jobs /\ held[w].id[2] \in Nat
              /\ ~held[w].unique => held[w].id[2] <= ids[Job(held[w])]
    BY NextIdIs DEF RedisInv
  <1>2. Job(c) = j /\ c.id[2] = ids[j] + 1 /\ ids'[j] = ids[j] + 1
    BY DEF Job, NextId
  <1>3. Own(c, ids')
    BY <1>1, <1>2 DEF Own
  <1>4. \A v \in Workers : pc'[v] # "idle" => pc[v] # "idle" /\ held'[v] = held[v]
    BY DEF Sends
  <1>5. Owned'
    BY <1>1, <1>3, <1>4 DEF Owned
  <1>6. Apart'
    BY <1>1, <1>4 DEF RedisInv, Apart
  <1>7. First(Faces', j, ids[j] + 1) /\ ids[j] + 1 \in Nat
    BY <1>1 DEF First
  <1>8. ASSUME NEW i \in Jobs, NEW n, First(Faces, i, n) PROVE First(Faces', i, n)
    BY <1>8 DEF First
  <1>9. Succeeded'
    <2>1. ASSUME NEW w \in Workers, pc'[w] \in {"ackEarly", "ackRetry"}, ~held[w].unique,
                 Job(held[w]) \notin closed
          PROVE  \E n \in Nat : n > held[w].id[2] /\ First(Faces', Job(held[w]), n)
      <3>1. pc[w] # "idle" /\ Job(held[w]) \in Jobs
        BY <1>1, <1>4, <2>1
      <3>2. CASE Job(held[w]) = j
        BY <1>1, <1>7, <2>1, <3>1, <3>2
      <3>3. CASE Job(held[w]) # j
        <4>1. pc[w] \in {"ackEarly", "ackRetry"}
          BY <2>1, <3>3 DEF Sends
        <4> QED BY <1>8, <2>1, <3>1, <4>1 DEF RedisInv, Succeeded
      <3> QED BY <3>2, <3>3
    <2>2. ASSUME NEW w \in Workers, pc'[w] \in {"acking", "ackFinal"}
          PROVE  Job(held[w]) \in closed
      BY <2>2 DEF Sends, RedisInv, Succeeded
    <2> QED BY <1>4, <2>1, <2>2 DEF Succeeded
  <1>10. Alive'
    <2>1. accepted \subseteq Jobs
      BY DEF Typed, TypeOK
    <2> QED BY <1>7, <1>8, <2>1 DEF RedisInv, Alive
  <1> QED BY <1>5, <1>6, <1>9, <1>10 DEF RedisInv

\* A failed enqueue is recorded under a new id.
LEMMA FreshParkKeeps ==
    ASSUME Typed, RedisInv, NEW j \in Jobs \ UniqueJobs, NextId(j),
           NEW c, c.id = <<j, ids[j] + 1>>,
           Faces' = Faces, parked' = parked \union {c}, closed' = closed,
           accepted' = accepted,
           \A v \in Workers : Sends(v, j) /\ (pc'[v] # "idle" => pc'[v] = pc[v])
    PROVE  RedisInv'
  <1>1. /\ \A i \in Jobs : ids[i] \in Nat /\ ids'[i] \in Nat /\ ids[i] <= ids'[i]
        /\ \A f \in Faces : Own(f, ids') /\ f.id # c.id
        /\ \A m \in parked : Own(m, ids') /\ m.id # c.id
        /\ \A w \in Workers : pc[w] # "idle" => Own(held[w], ids') /\ held[w].id # c.id
    BY NextIdIs DEF RedisInv
  <1>2. Job(c) = j /\ c.id[2] = ids[j] + 1 /\ ids'[j] = ids[j] + 1
    BY DEF Job, NextId
  <1>3. Own(c, ids')
    BY <1>1, <1>2 DEF Own
  <1>4. \A v \in Workers : pc'[v] # "idle" =>
           pc[v] # "idle" /\ pc'[v] = pc[v] /\ held'[v] = held[v]
    BY DEF Sends
  <1>5. Owned'
    BY <1>1, <1>3, <1>4 DEF Owned
  <1>6. Apart'
    BY <1>1, <1>4 DEF RedisInv, Apart
  <1>7. Succeeded'
    BY <1>4 DEF RedisInv, Succeeded
  <1>8. Alive'
    BY DEF RedisInv, Alive
  <1> QED BY <1>5, <1>6, <1>7, <1>8 DEF RedisInv

\* A message that names its id, which no other message has, is added, recorded for
\* recovery or taken from the record, or was there.
LEMMA NamedKeeps ==
    ASSUME Typed, RedisInv,
           NEW c, c.unique, Own(c, ids), \A f \in Faces : ~f.unique => f.id # c.id,
           Faces \subseteq Faces', Faces' \subseteq Faces \union {c},
           NEW d, d.id = c.id, d.unique,
           parked' \subseteq parked \union {d},
           ids' = ids, closed' = closed, accepted' \subseteq accepted \union UniqueJobs,
           \A v \in Workers : pc'[v] # "idle" =>
              /\ pc[v] # "idle" /\ held'[v] = held[v]
              /\ pc'[v] = pc[v] \/ (pc'[v] \in {"ackEarly", "ackRetry"} /\ held[v].unique)
    PROVE  RedisInv'
  <1>1. Own(d, ids)
    BY DEF Own, Job
  <1>2. Owned'
    BY <1>1 DEF RedisInv, Owned
  <1>3. Apart'
    BY DEF RedisInv, Apart
  <1>4. ASSUME NEW i, NEW n, First(Faces, i, n) PROVE First(Faces', i, n)
    BY <1>4 DEF First
  <1>5. Succeeded'
    BY <1>4 DEF RedisInv, Succeeded
  <1>6. Alive'
    BY <1>4 DEF RedisInv, Alive
  <1> QED BY <1>2, <1>3, <1>5, <1>6 DEF RedisInv

\* A worker acks: what has the id of its message leaves the queue.
LEMMA RemovalKeeps ==
    ASSUME Typed, RedisInv, NEW w \in Workers,
           pc[w] \in {"ackEarly", "acking", "ackRetry", "ackFinal"},
           Faces' \subseteq Faces, \A f \in Faces : f.id # held[w].id => f \in Faces',
           parked' = parked, ids' = ids, closed' = closed, accepted' = accepted,
           pc'[w] = "idle", \A v \in Workers : v # w => pc'[v] = pc[v] /\ held'[v] = held[v]
    PROVE  RedisInv'
  <1>1. \A v \in Workers : pc'[v] # "idle" =>
           pc[v] # "idle" /\ pc'[v] = pc[v] /\ held'[v] = held[v]
    OBVIOUS
  <1>2. Owned'
    BY <1>1 DEF RedisInv, Owned
  <1>3. Apart'
    BY <1>1 DEF RedisInv, Apart
  <1>4. pc[w] # "idle" /\ held[w].id = <<Job(held[w]), held[w].id[2]>> /\ held[w].id[2] \in Nat
    BY MessageIs DEF Typed
  <1>5. ASSUME NEW i \in Jobs, NEW n \in Nat, i \notin closed, First(Faces, i, n)
        PROVE  \E l \in Nat : l >= n /\ First(Faces', i, l)
    <2>1. PICK f \in Faces : f.id = <<i, n>> /\ ~f.unique
      BY <1>5 DEF First
    <2>2. CASE f.id # held[w].id
      BY <2>1, <2>2 DEF First
    <2>3. CASE f.id = held[w].id
      <3>1. i = Job(held[w]) /\ n = held[w].id[2] /\ ~held[w].unique
        BY <1>4, <2>1, <2>3 DEF RedisInv, Apart
      <3>2. pc[w] \in {"ackEarly", "ackRetry"}
        BY <1>5, <3>1 DEF RedisInv, Succeeded
      <3>3. PICK l \in Nat : l > n /\ First(Faces, i, l)
        BY <1>5, <3>1, <3>2 DEF RedisInv, Succeeded
      <3>4. PICK g \in Faces : g.id = <<i, l>> /\ ~g.unique
        BY <3>3 DEF First
      <3>5. g.id # held[w].id
        BY <1>4, <3>1, <3>3, <3>4
      <3> QED BY <3>3, <3>4, <3>5 DEF First
    <2> QED BY <2>2, <2>3
  <1>6. Succeeded'
    <2>1. ASSUME NEW v \in Workers, pc'[v] \in {"ackEarly", "ackRetry"}, ~held[v].unique,
                 Job(held[v]) \notin closed
          PROVE  \E n \in Nat : n > held[v].id[2] /\ First(Faces', Job(held[v]), n)
      <3>1. pc[v] = pc'[v] /\ pc[v] # "idle" /\ held[v] \in Message
        BY <1>1, <2>1 DEF Typed
      <3>2. Job(held[v]) \in Jobs /\ held[v].id[2] \in Nat
        BY <3>1, MessageIs
      <3>3. PICK n \in Nat : n > held[v].id[2] /\ First(Faces, Job(held[v]), n)
        BY <2>1, <3>1 DEF RedisInv, Succeeded
      <3>4. PICK l \in Nat : l >= n /\ First(Faces', Job(held[v]), l)
        BY <1>5, <2>1, <3>2, <3>3
      <3>5. l > held[v].id[2]
        BY <3>2, <3>3, <3>4
      <3> QED BY <3>4, <3>5
    <2> QED BY <1>1, <2>1 DEF RedisInv, Succeeded
  <1>7. Alive'
    <2>1. accepted \subseteq Jobs
      BY DEF Typed, TypeOK
    <2> QED BY <1>5, <2>1 DEF RedisInv, Alive
  <1> QED BY <1>2, <1>3, <1>6, <1>7 DEF RedisInv

\* How the operations on the queue change Faces.
LEMMA FacesAppend ==
    ASSUME Typed, NEW m \in Message, waiting' = Append(waiting, m), hidden' = hidden
    PROVE  Faces' = Faces \union {Face(m)}
  <1>1. waiting \in Seq(Message)
    BY DEF Typed, TypeOK
  <1>2. /\ \A k \in DOMAIN waiting : k \in DOMAIN waiting' /\ waiting'[k] = waiting[k]
        /\ Len(waiting) + 1 \in DOMAIN waiting' /\ waiting'[Len(waiting) + 1] = m
        /\ \A k \in DOMAIN waiting' : k \in DOMAIN waiting \/ k = Len(waiting) + 1
    BY <1>1
  <1>3. {Face(waiting'[k]) : k \in DOMAIN waiting'}
           = {Face(waiting[k]) : k \in DOMAIN waiting} \union {Face(m)}
    BY <1>2
  <1> QED BY <1>3 DEF Faces

LEMMA FacesTail ==
    ASSUME Typed, waiting # <<>>
    PROVE  /\ Face(Head(waiting)) \in Faces
           /\ (waiting' = Tail(waiting) /\ hidden' = hidden \union {Head(waiting)}) => Faces' = Faces
  <1>1. waiting \in Seq(Message)
    BY DEF Typed, TypeOK
  <1>2. 1 \in DOMAIN waiting /\ Head(waiting) = waiting[1]
    BY <1>1
  <1>3. /\ \A k \in DOMAIN Tail(waiting) : k + 1 \in DOMAIN waiting /\ Tail(waiting)[k] = waiting[k + 1]
        /\ \A k \in DOMAIN waiting : k # 1 =>
              k - 1 \in DOMAIN Tail(waiting) /\ Tail(waiting)[k - 1] = waiting[k]
    BY <1>1
  <1>4. Face(Head(waiting)) \in Faces
    BY <1>2 DEF Faces
  <1>5. ASSUME waiting' = Tail(waiting), hidden' = hidden \union {Head(waiting)}
        PROVE  Faces' = Faces
    <2>1. \A f \in Faces' : f \in Faces
      BY <1>3, <1>4, <1>5 DEF Faces
    <2>2. \A f \in Faces : f \in Faces'
      BY <1>2, <1>3, <1>5 DEF Faces
    <2> QED BY <2>1, <2>2
  <1> QED BY <1>4, <1>5

LEMMA FacesReappear ==
    ASSUME Typed, NEW m \in hidden, waiting' = Append(waiting, m), hidden' = hidden \ {m}
    PROVE  Faces' = Faces
  <1>1. waiting \in Seq(Message)
    BY DEF Typed, TypeOK
  <1>2. /\ \A k \in DOMAIN waiting : k \in DOMAIN waiting' /\ waiting'[k] = waiting[k]
        /\ Len(waiting) + 1 \in DOMAIN waiting' /\ waiting'[Len(waiting) + 1] = m
        /\ \A k \in DOMAIN waiting' : k \in DOMAIN waiting \/ k = Len(waiting) + 1
    BY <1>1
  <1>3. \A f \in Faces' : f \in Faces
    BY <1>2 DEF Faces
  <1>4. \A f \in Faces : f \in Faces'
    BY <1>2 DEF Faces
  <1> QED BY <1>3, <1>4

LEMMA FacesDue ==
    ASSUME Typed, BecomesDue
    PROVE  Faces' = Faces
  <1>1. PICK k \in DOMAIN waiting : waiting' = [waiting EXCEPT ![k].due = TRUE]
    BY DEF BecomesDue
  <1>2. hidden' = hidden /\ waiting \in Seq(Message) /\ waiting[k] \in Message
    BY DEF BecomesDue, Typed, TypeOK
  <1> DEFINE c == [waiting[k] EXCEPT !.due = TRUE]
  <1>3. c.id = waiting[k].id /\ c.attempts = waiting[k].attempts /\ c.unique = waiting[k].unique
    BY <1>2 DEF Message
  <1>4. Face(c) = Face(waiting[k])
    BY <1>3 DEF Face
  <1>5. waiting' = [waiting EXCEPT ![k] = c]
    BY <1>1
  <1> HIDE DEF c
  <1>6. DOMAIN waiting' = DOMAIN waiting
    BY <1>2, <1>5
  <1>7. \A i \in DOMAIN waiting : Face(waiting'[i]) = Face(waiting[i])
    BY <1>2, <1>4, <1>5
  <1>8. {Face(waiting'[i]) : i \in DOMAIN waiting'} = {Face(waiting[i]) : i \in DOMAIN waiting}
    BY <1>6, <1>7
  <1> QED BY <1>2, <1>8 DEF Faces

LEMMA FacesAck ==
    ASSUME Typed, driver = "redis", NEW m, Ack(m)
    PROVE  /\ Faces' \subseteq Faces
           /\ \A f \in Faces : f.id # m.id => f \in Faces'
  <1>1. Without(m.id) /\ waiting \in Seq(Message)
    BY DEF Ack, Typed, TypeOK
  <1>2. /\ \A i \in DOMAIN waiting' : \E n \in DOMAIN waiting : waiting'[i] = waiting[n]
        /\ \A n \in DOMAIN waiting : waiting[n].id # m.id =>
              \E i \in DOMAIN waiting' : waiting'[i] = waiting[n]
    <2>1. CASE \E k \in DOMAIN waiting : waiting[k].id = m.id
      <3>1. PICK k \in DOMAIN waiting :
               /\ waiting[k].id = m.id
               /\ waiting' = SubSeq(waiting, 1, k - 1) \o SubSeq(waiting, k + 1, Len(waiting))
        BY <1>1, <2>1 DEF Without
      <3>3. waiting' = SubSeq(waiting, 1, k - 1) \o SubSeq(waiting, k + 1, Len(waiting))
        BY <3>1
      <3>2. Shrinks(waiting, k, waiting')
        BY <1>1, <3>3, RemovalOf
      <3> QED BY <3>1, <3>2 DEF Shrinks
    <2>2. CASE ~\E k \in DOMAIN waiting : waiting[k].id = m.id
      BY <1>1, <2>2 DEF Without
    <2> QED BY <2>1, <2>2
  <1>3. hidden' = {x \in hidden : x.id # m.id}
    BY <1>1 DEF Without
  <1>4. \A f \in Faces' : f \in Faces
    BY <1>2, <1>3 DEF Faces
  <1>5. ASSUME NEW f \in Faces, f.id # m.id PROVE f \in Faces'
    <2>1. CASE \E n \in DOMAIN waiting : f = Face(waiting[n])
      <3>1. PICK n \in DOMAIN waiting : f = Face(waiting[n])
        BY <2>1
      <3>2. waiting[n].id # m.id
        BY <1>5, <3>1, FaceIs
      <3> QED BY <1>2, <3>1, <3>2 DEF Faces
    <2>2. CASE \E x \in hidden : f = Face(x)
      <3>1. PICK x \in hidden : f = Face(x)
        BY <2>2
      <3>2. x \in hidden'
        BY <1>3, <1>5, <3>1, FaceIs
      <3> QED BY <3>1, <3>2 DEF Faces
    <2> QED BY <2>1, <2>2 DEF Faces
  <1> QED BY <1>4, <1>5

\* Queue.enqueue() with Redis: a message that names no id gets the next one.
LEMMA EnqueueAdds ==
    ASSUME Typed, NEW m \in Message, ~m.unique, m.id[2] <= ids[Job(m)], Enqueue(m)
    PROVE  /\ NextId(Job(m))
           /\ \E c \in FaceSet : /\ c.id = <<Job(m), ids[Job(m)] + 1>> /\ ~c.unique
                                 /\ Faces' = Faces \union {c}
  <1> DEFINE j == Job(m)
             id == <<j, ids[j] + 1>>
             c == [m EXCEPT !.id = id]
  <1>1. j \in Jobs /\ m.id = <<j, m.id[2]>> /\ m.id[2] \in Nat /\ ids \in [Jobs -> Nat]
    BY MessageIs DEF Typed, TypeOK
  <1>2. NewId(m) = id /\ id # m.id /\ id \in Jobs \X Nat
    <2>1. NewId(m) = id
      BY DEF NewId
    <2>2. id # m.id /\ id \in Jobs \X Nat
      BY <1>1
    <2> QED BY <2>1, <2>2
  <1>3. /\ waiting' = Append(waiting, c) /\ hidden' = hidden
        /\ ids' = [ids EXCEPT ![j] = @ + 1]
    BY <1>2 DEF Enqueue
  <1>4. c \in Message /\ c.id = id /\ c.unique = m.unique
    BY <1>2 DEF Message
  <1> HIDE DEF c
  <1>5. NextId(j)
    BY <1>1, <1>3 DEF NextId
  <1>6. Faces' = Faces \union {Face(c)}
    BY <1>3, <1>4, FacesAppend
  <1>7. Face(c) \in FaceSet /\ Face(c).id = id /\ ~Face(c).unique
    BY <1>4, FaceIs
  <1> QED BY <1>5, <1>6, <1>7

\* ... and one that names its id is added under it, or was there.
LEMMA EnqueueAgain ==
    ASSUME Typed, driver = "redis", NEW m \in Message, m.unique, Enqueue(m)
    PROVE  /\ ids' = ids
           /\ Faces' = Faces \/ Faces' = Faces \union {Face(m)}
  <1>1. NewId(m) = m.id /\ m.id \in Jobs \X Nat
    BY DEF NewId, Message
  <1> DEFINE c == [m EXCEPT !.id = m.id]
  <1>2. c = m
    BY DEF Message
  <1>3. /\ waiting' = waiting \/ waiting' = Append(waiting, c)
        /\ hidden' = hidden /\ ids' = ids
    BY <1>1 DEF Enqueue
  <1> HIDE DEF c
  <1>5. CASE waiting' = waiting
    BY <1>3, <1>5 DEF Faces
  <1>6. CASE waiting' = Append(waiting, c)
    BY <1>2, <1>3, <1>6, FacesAppend
  <1> QED BY <1>3, <1>5, <1>6

\* Queue.enqueue() fails: a message is recorded under the next id, or its own.
LEMMA EnqueueFailsIs ==
    ASSUME Typed, NEW m \in Message, EnqueueFails(m)
    PROVE  /\ Faces' = Faces
           /\ ~m.unique => NextId(Job(m))
           /\ m.unique => ids' = ids
           /\ \E c : /\ c.id = (IF m.unique THEN m.id ELSE <<Job(m), ids[Job(m)] + 1>>)
                     /\ c.unique = m.unique
                     /\ parked' = parked \union {c}
  <1> DEFINE j == Job(m)
             id == IF m.unique THEN m.id ELSE <<j, ids[j] + 1>>
             c == [m EXCEPT !.id = id]
  <1>1. j \in Jobs /\ ids \in [Jobs -> Nat]
    BY MessageIs DEF Typed, TypeOK
  <1>3. /\ waiting' = waiting /\ hidden' = hidden
        /\ ids' = IF m.unique THEN ids ELSE [ids EXCEPT ![j] = @ + 1]
        /\ parked' = parked \union {c}
    BY DEF EnqueueFails
  <1>4. c.id = id /\ c.unique = m.unique
    BY DEF Message
  <1>6. Faces' = Faces
    BY <1>3 DEF Faces
  <1>7. /\ ~m.unique => NextId(j)
        /\ m.unique => ids' = ids
    BY <1>1, <1>3 DEF NextId
  <1> HIDE DEF c
  <1> QED BY <1>3, <1>4, <1>6, <1>7

-----------------------------------------------------------------------------
(* The steps with Redis *)

LEMMA ProduceRedis ==
    ASSUME Typed, RedisInv, driver = "redis", NEW j \in Jobs, Produce(j)
    PROVE  RedisInv'
  <1> DEFINE m == New(j)
  <1>1. /\ m \in Message /\ m.id = <<j, 0>> /\ m.id[2] = 0 /\ Job(m) = j
        /\ m.unique = (j \in UniqueJobs)
    <2>1. m \in Message
      BY WorkerAssumption DEF New, Message
    <2>2. m.id = <<j, 0>> /\ m.unique = (j \in UniqueJobs)
      BY DEF New
    <2> QED BY <2>1, <2>2 DEF Job
  <1>2. /\ closed' = closed /\ pc' = pc /\ held' = held
        /\ \/ Enqueue(m) /\ accepted' = accepted \union {j} /\ parked' = parked
           \/ EnqueueFails(m) /\ accepted' = accepted
    BY DEF Produce, worker
  <1> HIDE DEF m
  <1>3. \A v \in Workers : Sends(v, j)
    BY <1>2 DEF Sends
  <1>4. ids[j] \in Nat
    BY DEF Typed, TypeOK
  <1>5. CASE j \notin UniqueJobs
    <2>1. ~m.unique
      BY <1>1, <1>5
    <2>2. CASE Enqueue(m) /\ accepted' = accepted \union {j} /\ parked' = parked
      <3>1. /\ NextId(j)
            /\ \E c \in FaceSet : /\ c.id = <<j, ids[j] + 1>> /\ ~c.unique
                                  /\ Faces' = Faces \union {c}
        BY <1>1, <1>4, <2>1, <2>2, EnqueueAdds
      <3> QED BY <1>2, <1>3, <1>5, <2>2, <3>1, FreshKeeps
    <2>3. CASE EnqueueFails(m) /\ accepted' = accepted
      <3>1. /\ NextId(j) /\ Faces' = Faces
            /\ \E c : c.id = <<j, ids[j] + 1>> /\ parked' = parked \union {c}
        BY <1>1, <2>1, <2>3, EnqueueFailsIs
      <3> QED BY <1>2, <1>3, <1>5, <2>3, <3>1, FreshParkKeeps
    <2> QED BY <1>2, <2>2, <2>3
  <1>6. CASE j \in UniqueJobs
    <2>1. m.unique
      BY <1>1, <1>6
    <2>2. Face(m).id = m.id /\ Face(m).unique /\ Own(Face(m), ids)
      BY <1>1, <1>6, <2>1, FaceIs DEF Own
    <2>3. \A f \in Faces : ~f.unique => f.id # m.id
      <3>1. ASSUME NEW f \in Faces, ~f.unique, f.id = m.id PROVE FALSE
        <4>1. Job(f) = j
          BY <1>1, <3>1 DEF Job
        <4> QED BY <1>6, <3>1, <4>1 DEF RedisInv, Owned, Own
      <3> QED BY <3>1
    <2>4. CASE Enqueue(m) /\ accepted' = accepted \union {j} /\ parked' = parked
      <3>1. ids' = ids /\ (Faces' = Faces \/ Faces' = Faces \union {Face(m)})
        BY <1>1, <2>1, <2>4, EnqueueAgain
      <3> QED BY <1>2, <1>6, <2>1, <2>2, <2>3, <2>4, <3>1, NamedKeeps
    <2>5. CASE EnqueueFails(m) /\ accepted' = accepted
      <3>1. /\ ids' = ids /\ Faces' = Faces
            /\ \E c : c.id = m.id /\ c.unique = m.unique /\ parked' = parked \union {c}
        BY <1>1, <2>1, <2>5, EnqueueFailsIs
      <3>2. PICK c : c.id = m.id /\ c.unique = m.unique /\ parked' = parked \union {c}
        BY <3>1
      <3> QED BY <1>2, <2>1, <2>2, <2>3, <2>5, <3>1, <3>2, NamedKeeps
    <2> QED BY <1>2, <2>4, <2>5
  <1> QED BY <1>5, <1>6

LEMMA RecoverRedis ==
    ASSUME Typed, RedisInv, NEW m \in parked, Recover(m)
    PROVE  RedisInv'
  <1> DEFINE n == IF m.attempts > 0 THEN m.attempts ELSE 3
             r == [m EXCEPT !.attempts = n, !.due = FALSE, !.unique = TRUE]
  <1>1. m \in Message /\ n \in Nat /\ Own(m, ids)
    BY DEF Typed, TypeOK, Message, RedisInv, Owned
  <1> HIDE DEF n
  <1>3. r \in Message /\ r.id = m.id /\ r.unique
    BY <1>1 DEF Message
  <1>4. /\ waiting' = IF InQueue(m.id) THEN waiting ELSE Append(waiting, r)
        /\ parked' = parked \ {m}
        /\ UNCHANGED <<hidden, ids, worker, jobs>>
    BY DEF Recover, n
  <1> HIDE DEF r
  <1>6. Faces' = Faces \/ Faces' = Faces \union {Face(r)}
    BY <1>3, <1>4, FacesAppend DEF Faces
  <1>7. /\ Face(r).id = m.id /\ Face(r).unique
        /\ Own(Face(r), ids)
    <2>1. Face(r).id = m.id /\ Face(r).unique /\ Job(Face(r)) = Job(m)
      BY <1>3, FaceIs DEF Job
    <2> QED BY <1>1, <2>1 DEF Own
  <1>8. \A f \in Faces : ~f.unique => f.id # m.id
    BY DEF RedisInv, Apart
  <1>9. /\ ids' = ids /\ closed' = closed /\ pc' = pc /\ held' = held
        /\ accepted' = accepted /\ parked' \subseteq parked
    BY <1>4 DEF worker, jobs
  <1> QED BY <1>3, <1>6, <1>7, <1>8, <1>9, NamedKeeps

\* A worker that sends its message, or the retry of it, again.
LEMMA SendRedis ==
    ASSUME Typed, RedisInv, driver = "redis", NEW w \in Workers, pc[w] # "idle",
           NEW m \in Message, m.id = held[w].id, m.unique = held[w].unique,
           NEW l \in {"ackEarly", "ackRetry"}, UNCHANGED jobs,
           \/ Enqueue(m) /\ Goto(w, l) /\ UNCHANGED <<held, parked, bounds>>
           \/ EnqueueFails(m) /\ BackToIdle(w)
    PROVE  RedisInv'
  <1> DEFINE j == Job(held[w])
  <1>1. Own(held[w], ids) /\ held[w] \in Message /\ Job(m) = j /\ j \in Jobs
    <2>1. Own(held[w], ids) /\ held[w] \in Message /\ Job(m) = j
      BY DEF Typed, RedisInv, Owned, Job
    <2> QED BY <2>1, MessageIs
  <1>2. closed' = closed /\ accepted' = accepted /\ pc \in [Workers -> Labels]
    BY DEF jobs, Typed, TypeOK, Labels
  <1>3. /\ Goto(w, l) => pc'[w] = l /\ \A v \in Workers : v # w => pc'[v] = pc[v]
        /\ BackToIdle(w) => pc'[w] = "idle" /\ \A v \in Workers : v # w => pc'[v] = pc[v]
    BY <1>2 DEF Goto, BackToIdle
  <1>4. BackToIdle(w) => \A v \in Workers : v # w => held'[v] = held[v]
    BY DEF BackToIdle, Typed, TypeOK
  <1>5. ~m.unique => j \in Jobs \ UniqueJobs /\ m.id[2] <= ids[Job(m)]
    BY <1>1 DEF Own
  <1>6. m.unique =>
           /\ Face(m).id = m.id /\ Face(m).unique /\ Own(Face(m), ids)
           /\ \A f \in Faces : ~f.unique => f.id # m.id
    <2>1. Own(m, ids)
      BY <1>1 DEF Own
    <2>2. m.unique => \A f \in Faces : ~f.unique => f.id # m.id
      BY DEF RedisInv, Apart
    <2> QED BY <2>1, <2>2, FaceIs
  <1>7. CASE Enqueue(m) /\ Goto(w, l) /\ UNCHANGED <<held, parked, bounds>>
    <2>1. CASE ~m.unique
      <3>1. /\ NextId(j)
            /\ \E c \in FaceSet : /\ c.id = <<j, ids[j] + 1>> /\ ~c.unique
                                  /\ Faces' = Faces \union {c}
        BY <1>1, <1>5, <1>7, <2>1, EnqueueAdds
      <3>2. \A v \in Workers : Sends(v, j)
        BY <1>3, <1>7 DEF Sends
      <3> QED BY <1>2, <1>5, <1>7, <2>1, <3>1, <3>2, FreshKeeps
    <2>2. CASE m.unique
      <3>1. ids' = ids /\ (Faces' = Faces \/ Faces' = Faces \union {Face(m)})
        BY <1>1, <1>7, <2>2, EnqueueAgain
      <3>2. \A v \in Workers : pc'[v] # "idle" =>
               /\ pc[v] # "idle" /\ held'[v] = held[v]
               /\ pc'[v] = pc[v] \/ (pc'[v] \in {"ackEarly", "ackRetry"} /\ held[v].unique)
        BY <1>3, <1>7, <2>2
      <3> QED BY <1>2, <1>6, <1>7, <2>2, <3>1, <3>2, NamedKeeps
    <2> QED BY <2>1, <2>2
  <1>8. CASE EnqueueFails(m) /\ BackToIdle(w)
    <2>1. /\ Faces' = Faces
          /\ ~m.unique => NextId(j)
          /\ m.unique => ids' = ids
      BY <1>1, <1>8, EnqueueFailsIs
    <2>2. PICK c : /\ c.id = (IF m.unique THEN m.id ELSE <<j, ids[j] + 1>>)
                   /\ c.unique = m.unique
                   /\ parked' = parked \union {c}
      BY <1>1, <1>8, EnqueueFailsIs
    <2>3. CASE ~m.unique
      <3>1. \A v \in Workers : Sends(v, j) /\ (pc'[v] # "idle" => pc'[v] = pc[v])
        BY <1>3, <1>4, <1>8 DEF Sends
      <3> QED BY <1>2, <1>5, <2>1, <2>2, <2>3, <3>1, FreshParkKeeps
    <2>4. CASE m.unique
      <3>1. \A v \in Workers : pc'[v] # "idle" =>
               pc[v] # "idle" /\ held'[v] = held[v] /\ pc'[v] = pc[v]
        BY <1>3, <1>4, <1>8
      <3> QED BY <1>2, <1>6, <2>1, <2>2, <2>4, <3>1, NamedKeeps
    <2> QED BY <2>3, <2>4
  <1> QED BY <1>7, <1>8

LEMMA SendsRedis ==
    ASSUME Typed, RedisInv, driver = "redis", NEW w \in Workers,
           RequeueEarly(w) \/ Retry(w)
    PROVE  RedisInv'
  <1>1. pc[w] # "idle" /\ held[w] \in Message
    BY DEF RequeueEarly, Retry, Typed
  <1>2. CASE RequeueEarly(w)
    <2>2. \/ Enqueue(held[w]) /\ Goto(w, "ackEarly") /\ UNCHANGED <<held, parked, bounds>>
          \/ EnqueueFails(held[w]) /\ BackToIdle(w)
      BY <1>2 DEF RequeueEarly
    <2>3. UNCHANGED jobs
      BY <1>2 DEF RequeueEarly
    <2> QED BY <1>1, <2>2, <2>3, SendRedis
  <1>3. CASE Retry(w)
    <2>2. \/ /\ Enqueue(RetryMessage(held[w])) /\ Goto(w, "ackRetry")
             /\ UNCHANGED <<held, parked, bounds>>
          \/ EnqueueFails(RetryMessage(held[w])) /\ BackToIdle(w)
      BY <1>3 DEF Retry
    <2>3. UNCHANGED jobs
      BY <1>3 DEF Retry
    <2>4. /\ RetryMessage(held[w]) \in Message /\ RetryMessage(held[w]).id = held[w].id
          /\ RetryMessage(held[w]).unique = held[w].unique
      BY <1>1, MessageIs
    <2> QED BY <1>1, <2>2, <2>3, <2>4, SendRedis
  <1> QED BY <1>2, <1>3

\* The steps that ack.
LEMMA AcksRedis ==
    ASSUME Typed, RedisInv, driver = "redis", NEW w \in Workers,
           AckEarly(w) \/ Complete(w) \/ AckFailed(w)
    PROVE  RedisInv'
  <1>1. /\ pc[w] \in {"ackEarly", "acking", "ackRetry", "ackFinal"}
        /\ Ack(held[w]) /\ BackToIdle(w)
        /\ UNCHANGED <<ids, jobs, parked>>
    BY DEF AckEarly, Complete, AckFailed
  <1>2. Faces' \subseteq Faces /\ \A f \in Faces : f.id # held[w].id => f \in Faces'
    BY <1>1, FacesAck
  <1>3. /\ pc'[w] = "idle"
        /\ \A v \in Workers : v # w => pc'[v] = pc[v] /\ held'[v] = held[v]
    BY <1>1 DEF BackToIdle, Goto, Typed, TypeOK
  <1>6. ids' = ids /\ closed' = closed /\ accepted' = accepted /\ parked' = parked
    BY <1>1 DEF jobs
  <1> QED BY <1>1, <1>2, <1>3, <1>6, RemovalKeeps

LEMMA DequeueRedis ==
    ASSUME Typed, RedisInv, driver = "redis", NEW w \in Workers, Dequeue(w)
    PROVE  RedisInv'
  <1> DEFINE m == Head(waiting)
  <1>1. /\ waiting # <<>> /\ pc[w] = "idle"
        /\ waiting' = Tail(waiting) /\ hidden' = hidden \union {m}
        /\ held' = [held EXCEPT ![w] = m]
        /\ Goto(w, "running") \/ Goto(w, "early")
        /\ UNCHANGED <<ids, accepted, closed, parked>>
    BY DEF Dequeue
  <1>2. Faces' = Faces /\ Face(m) \in Faces
    BY <1>1, FacesTail
  <1> HIDE DEF m
  <1>5. /\ held'[w] = m /\ \A v \in Workers : v # w => held'[v] = held[v]
        /\ pc'[w] \in {"running", "early"} /\ \A v \in Workers : v # w => pc'[v] = pc[v]
    BY <1>1 DEF Goto, Typed, TypeOK
  <1>6. ASSUME NEW v \in Workers PROVE Moves(v)
    <2>1. CASE v = w
      BY <1>2, <1>5, <2>1 DEF Moves
    <2>2. CASE v # w
      BY <1>1, <1>5, <2>2 DEF Moves, RedisInv, Succeeded
    <2> QED BY <2>1, <2>2
  <1> QED BY <1>1, <1>2, <1>6, MoveKeeps

\* A step that moves no message; a worker that was busy goes idle or on.
LEMMA QuietRedis ==
    ASSUME Typed, RedisInv, NEW w \in Workers, pc[w] # "idle",
           UNCHANGED <<waiting, hidden, ids, parked, accepted>>, closed \subseteq closed',
           \/ pc' = pc /\ held' = held
           \/ BackToIdle(w)
           \/ Goto(w, "failing") /\ held' = held
           \/ /\ \E l \in {"acking", "ackFinal"} : Goto(w, l)
              /\ held' = held /\ Job(held[w]) \in closed'
    PROVE  RedisInv'
  <1>1. Faces' = Faces /\ ids' = ids /\ parked' = parked /\ accepted' = accepted
    BY DEF Faces
  <1>4. /\ \A v \in Workers : v # w => pc'[v] = pc[v] /\ held'[v] = held[v]
        /\ \/ pc'[w] = pc[w] /\ held'[w] = held[w]
           \/ pc'[w] = "idle"
           \/ pc'[w] = "failing" /\ held'[w] = held[w]
           \/ pc'[w] \in {"acking", "ackFinal"} /\ held'[w] = held[w] /\ Job(held[w]) \in closed'
    BY DEF BackToIdle, Goto, Typed, TypeOK
  <1>5. ASSUME NEW v \in Workers, pc'[v] = pc[v], held'[v] = held[v] PROVE Moves(v)
    BY <1>5 DEF Moves, RedisInv, Succeeded
  <1>6. Moves(w)
    <2>1. CASE pc'[w] = pc[w] /\ held'[w] = held[w]
      BY <1>5, <2>1
    <2>2. CASE ~(pc'[w] = pc[w] /\ held'[w] = held[w])
      BY <1>4, <2>2 DEF Moves
    <2> QED BY <2>1, <2>2
  <1>7. \A v \in Workers : Moves(v)
    BY <1>4, <1>5, <1>6
  <1> QED BY <1>1, <1>7, MoveKeeps

LEMMA SettleRedis ==
    ASSUME Typed, RedisInv, NEW w \in Workers,
           \/ StartFails(w) \/ HandlerSucceeds(w) \/ HandlerFails(w)
           \/ HandlerTimesOut(w) \/ GiveUp(w) \/ Crash(w) \/ Heartbeat(w)
    PROVE  RedisInv'
  <1>1. /\ pc[w] # "idle" /\ UNCHANGED <<waiting, hidden, ids, parked, accepted>>
        /\ closed \subseteq closed'
    BY DEF StartFails, HandlerSucceeds, HandlerFails, HandlerTimesOut, GiveUp, Crash,
           Heartbeat, broker, jobs
  <1>3. \/ pc' = pc /\ held' = held
        \/ BackToIdle(w)
        \/ Goto(w, "failing") /\ held' = held
        \/ /\ \E l \in {"acking", "ackFinal"} : Goto(w, l)
           /\ held' = held /\ Job(held[w]) \in closed'
    BY DEF StartFails, HandlerSucceeds, HandlerFails, HandlerTimesOut, GiveUp, Crash,
           Heartbeat, worker
  <1> QED BY <1>1, <1>3, QuietRedis

\* Time passes, and records are reconciled.
LEMMA TimeRedis ==
    ASSUME Typed, RedisInv,
           \/ BecomesDue \/ (\E m \in hidden : Reappears(m))
           \/ \E id \in Ids, s \in {"stalled", "timeout"} : Reconcile(id, s)
    PROVE  RedisInv'
  <1>1. /\ ids' = ids /\ parked' = parked /\ closed' = closed /\ accepted' = accepted
        /\ pc' = pc /\ held' = held
    BY DEF BecomesDue, Reappears, Reconcile, broker, worker, jobs
  <1>2. Faces' = Faces
    <2>1. CASE BecomesDue
      BY <2>1, FacesDue
    <2>2. CASE \E m \in hidden : Reappears(m)
      BY <2>2, FacesReappear DEF Reappears
    <2>3. CASE \E id \in Ids, s \in {"stalled", "timeout"} : Reconcile(id, s)
      BY <2>3 DEF Reconcile, broker, Faces
    <2> QED BY <2>1, <2>2, <2>3
  <1>4. \A v \in Workers : Moves(v)
    BY <1>1 DEF Moves, RedisInv, Succeeded
  <1> QED BY <1>1, <1>2, <1>4, MoveKeeps

\* The invariant speaks of deployments with Redis.
KeptInv == Typed /\ (driver = "redis" => RedisInv)

LEMMA StepKept ==
    ASSUME KeptInv, [Next]_<<driver, vars>>
    PROVE  KeptInv'
  <1>1. Typed'
    BY StepTyped DEF KeptInv
  <1>2. driver' = driver
    BY DEF Next
  <1>3. ASSUME driver = "redis" PROVE RedisInv'
    <2>1. Typed /\ RedisInv
      BY <1>3 DEF KeptInv
    <2>2. CASE UNCHANGED <<driver, vars>>
      <3>1. /\ Faces' = Faces /\ ids' = ids /\ parked' = parked /\ closed' = closed
            /\ pc' = pc /\ held' = held /\ accepted' = accepted
        BY <2>2 DEF vars, broker, worker, jobs, Faces
      <3>2. \A v \in Workers : Moves(v)
        BY <2>1, <3>1 DEF Moves, RedisInv, Succeeded
      <3> QED BY <2>1, <3>1, <3>2, MoveKeeps
    <2>3. CASE Next
      <3>1. ASSUME NEW w \in Workers, WorkerStep(w) PROVE RedisInv'
        BY <1>3, <2>1, <3>1, DequeueRedis, SendsRedis, AcksRedis, SettleRedis DEF WorkerStep
      <3>2. CASE \E j \in Jobs : Produce(j)
        BY <1>3, <2>1, <3>2, ProduceRedis
      <3>3. CASE \E m \in parked : Recover(m)
        BY <2>1, <3>3, RecoverRedis
      <3>4. CASE BecomesDue
        BY <2>1, <3>4, TimeRedis
      <3>5. CASE \E m \in hidden : Reappears(m)
        BY <2>1, <3>5, TimeRedis
      <3>6. CASE \E id \in Ids, s \in {"stalled", "timeout"} : Reconcile(id, s)
        BY <2>1, <3>6, TimeRedis
      <3>7. ASSUME NEW w \in Workers, Heartbeat(w) \/ StartFails(w) \/ Crash(w) PROVE RedisInv'
        BY <2>1, <3>7, SettleRedis
      <3> QED BY <2>3, <3>1, <3>2, <3>3, <3>4, <3>5, <3>6, <3>7 DEF Next
    <2> QED BY <2>2, <2>3
  <1> QED BY <1>1, <1>2, <1>3 DEF KeptInv

\* With Redis a job that reached the queue under an id the driver made, and is open,
\* is in the queue or hidden in it, whatever worker crashes, answers late or cannot
\* add the retry, and whatever the daemon puts back: for any number of jobs,
\* workers and faults.
THEOREM OpenJobsAreKept == Spec => []Durable
  <1>1. Init => KeptInv
    BY InitTyped, InitRedis DEF KeptInv
  <1>2. KeptInv /\ [Next]_<<driver, vars>> => KeptInv'
    BY StepKept
  <1>3. KeptInv => Durable
    <2> SUFFICES ASSUME KeptInv, driver = "redis", NEW j \in accepted \ (closed \union UniqueJobs)
                 PROVE  \/ \E k \in DOMAIN waiting : Job(waiting[k]) = j
                        \/ \E m \in hidden : Job(m) = j
      BY DEF Durable
    <2>1. \E f \in Faces : Job(f) = j
      BY DEF KeptInv, RedisInv, Alive, First, Job
    <2> QED BY <2>1, FaceIs DEF Faces
  <1> QED BY <1>1, <1>2, <1>3, PTL DEF Spec
=============================================================================
