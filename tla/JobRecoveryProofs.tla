-------------------------- MODULE JobRecoveryProofs --------------------------
(* Proofs about JobRecovery: the types of its variables, the attempts among   *)
(* them, that no job without a deduplication id is ever lost silently, and    *)
(* that a job on which nothing overlaps is executed once and stays set aside  *)
(* until it is replayed, for any number of jobs and of runs of the daemon.    *)
EXTENDS JobRecovery, TLAPS

Frame == [at : {"idle", "decide", "status", "acquire", "add"}, rec : Record]

\* A record has not counted more attempts than it may.
GoodRec(rec) == rec \in Record /\ rec.attempts <= MaxOf(rec)

\* The deduplication path is taken by jobs with a deduplication id, and a run
\* that goes on to enqueue found attempts left on the record it works from.
GoodFrame(c, j, f) ==
    /\ f \in Frame
    /\ f.at \in {"status", "acquire"} => j \in Dedup
    /\ c \in Runs /\ f.at \in {"status", "acquire", "add"} => f.rec.attempts < MaxOf(f.rec)
    /\ GoodRec(f.rec)

Records == record \in [Jobs -> Record] /\ \A j \in Jobs : GoodRec(record[j])

Frames ==
    /\ frame \in [Callers -> [Jobs -> Frame]]
    /\ \A c \in Callers, j \in Jobs : GoodFrame(c, j, frame[c][j])

Broker ==
    /\ queued \subseteq Jobs /\ added \in [Jobs -> Nat]
    /\ \A j \in queued : added[j] > 0

Others ==
    /\ lock \subseteq Dedup /\ executed \in [Jobs -> Nat]
    /\ submits \in [Jobs -> Nat] /\ replays \in [Jobs -> Nat]
    /\ unanswered \subseteq Jobs /\ doubled \subseteq Jobs

\* What is known of one job; Accounted says it of those outside Dedup.
AccountedFor(j) ==
    /\ submits[j] > 0 =>
          \/ added[j] > 0
          \/ \E c \in Callers : At(c, j) # "idle"
          \/ record[j].status \in {"pending_recovery", "dead_letter", "manual_review"}
    /\ record[j].status = "enqueued" => added[j] > 0

Inv == Records /\ Frames /\ Broker /\ Others /\ Accounted

-----------------------------------------------------------------------------
(* Records, frames and the queue *)

LEMMA Unfolded == Accounted <=> \A j \in Jobs \ Dedup : AccountedFor(j)
  BY DEF Accounted, AccountedFor

LEMMA InvTypes == Inv => TypeOK
  BY DEF Inv, Records, Frames, Broker, Others, TypeOK, GoodRec, Frame

LEMMA RecordChange ==
    ASSUME Records, NEW j \in Jobs, NEW rec, GoodRec(rec), Write(j, rec)
    PROVE  Records' /\ record'[j] = rec /\ \A i \in Jobs : i # j => record'[i] = record[i]
  <1>1. rec \in Record
    BY DEF GoodRec
  <1>2. record' = [record EXCEPT ![j] = rec] /\ record \in [Jobs -> Record]
    BY DEF Write, Records
  <1>3. record' \in [Jobs -> Record] /\ record'[j] = rec
        /\ \A i \in Jobs : i # j => record'[i] = record[i]
    BY <1>1, <1>2
  <1> QED BY <1>3 DEF Records, GoodRec, MaxOf

LEMMA FrameChange ==
    ASSUME Frames, NEW c \in Callers, NEW j \in Jobs, NEW f, GoodFrame(c, j, f),
           frame' = [frame EXCEPT ![c][j] = f]
    PROVE  /\ Frames' /\ frame'[c][j] = f
           /\ \A d \in Callers, i \in Jobs : i # j => At(d, i)' = At(d, i)
  <1>1. f \in Frame
    BY DEF GoodFrame
  <1>2. /\ frame' \in [Callers -> [Jobs -> Frame]] /\ frame'[c][j] = f
        /\ \A d \in Callers, i \in Jobs : <<d, i>> # <<c, j>> => frame'[d][i] = frame[d][i]
    BY <1>1 DEF Frames
  <1>3. ASSUME NEW d \in Callers, NEW i \in Jobs PROVE GoodFrame(d, i, frame'[d][i])
    BY <1>2 DEF Frames
  <1>4. \A d \in Callers, i \in Jobs : i # j => frame'[d][i] = frame[d][i]
    BY <1>2
  <1> QED BY <1>2, <1>3, <1>4 DEF Frames, At, GoodFrame, GoodRec, MaxOf

LEMMA IdleGood ==
    /\ \A c, j : GoodFrame(c, j, Idle)
    /\ GoodRec(NoRecord) /\ Idle.at = "idle"
  BY DEF Idle, NoRecord, GoodFrame, GoodRec, Frame, Record, Statuses, MaxOf

\* A call returns.
LEMMA Returns ==
    ASSUME Frames, NEW c \in Callers, NEW j \in Jobs, Return(c, j)
    PROVE  /\ Frames'
           /\ \A d \in Callers, i \in Jobs : i # j => At(d, i)' = At(d, i)
  BY IdleGood, FrameChange DEF Return

\* A call goes on, with the record it works from.
LEMMA GoesOn ==
    ASSUME Frames, NEW c \in Callers, NEW j \in Jobs, NEW l, Goto(c, j, l),
           l \in {"status", "acquire", "add"}, l # "add" => j \in Dedup,
           c \in Runs => frame[c][j].rec.attempts < MaxOf(frame[c][j].rec)
    PROVE  /\ Frames' /\ At(c, j)' # "idle"
           /\ \A d \in Callers, i \in Jobs : i # j => At(d, i)' = At(d, i)
  <1> DEFINE f == [frame[c][j] EXCEPT !.at = l]
  <1>1. GoodFrame(c, j, frame[c][j]) /\ frame[c][j] \in Frame
    BY DEF Frames, GoodFrame
  <1>2. /\ f \in Frame /\ f.at = l /\ f.rec = frame[c][j].rec
    BY <1>1 DEF Frame
  <1>3. frame' = [frame EXCEPT ![c][j] = f]
    BY DEF Goto
  <1> HIDE DEF f
  <1>4. GoodFrame(c, j, f)
    BY <1>1, <1>2 DEF GoodFrame
  <1>5. /\ Frames' /\ frame'[c][j] = f
        /\ \A d \in Callers, i \in Jobs : i # j => At(d, i)' = At(d, i)
    BY <1>3, <1>4, FrameChange
  <1> QED BY <1>2, <1>5 DEF At

LEMMA EntryOf == \A j : /\ Entry(j) \in {"status", "acquire", "add"}
                        /\ Entry(j) # "add" => j \in Dedup
  BY DEF Entry

\* What enqueue() and its callers write into a record.
LEMMA TrackedGood ==
    ASSUME Inv, NEW c \in Callers, NEW j \in Jobs
    PROVE  /\ GoodRec(Tracked(c, j)) /\ Tracked(c, j).attempts = 0
           /\ c \in Runs => Tracked(c, j).max = MaxOf(frame[c][j].rec)
  <1>1. GoodRec(record[j]) /\ record[j] \in Record
    BY DEF Inv, Records
  <1>2. frame[c][j].rec \in Record
    BY DEF Inv, Frames, Frame
  <1>3. MaxOf(frame[c][j].rec) \in Nat /\ MaxOf(frame[c][j].rec) > 0
    BY <1>2 DEF MaxOf, Record
  <1>4. PayloadAttempts(c, j) \in Nat
        /\ (c \in Runs => PayloadAttempts(c, j) = MaxOf(frame[c][j].rec))
    BY <1>3, RecoveryAssumption DEF PayloadAttempts
  <1> HIDE DEF PayloadAttempts
  <1>5. "pending" \in Statuses
    BY DEF Statuses
  <1> DEFINE m == IF PayloadAttempts(c, j) > 0 THEN PayloadAttempts(c, j) ELSE record[j].max
             t == [status |-> "pending", attempts |-> 0, max |-> m, fatal |-> record[j].fatal]
  <1>6. m \in Nat /\ (c \in Runs => m = MaxOf(frame[c][j].rec))
    BY <1>1, <1>3, <1>4 DEF Record
  <1>7. record[j].fatal \in BOOLEAN
    BY <1>1 DEF Record
  <1>8. Tracked(c, j) = t
    <2> DEFINE r == record[j]
    <2>1. Tracked(c, j) = [r EXCEPT !.status = "pending", !.attempts = 0, !.max = m]
      BY DEF Tracked
    <2>2. r \in Record
      BY <1>1
    <2>3. t = [status |-> "pending", attempts |-> 0, max |-> m, fatal |-> r.fatal]
      OBVIOUS
    <2> HIDE DEF m, r, t
    <2> QED BY <2>1, <2>2, <2>3 DEF Record
  <1> HIDE DEF m
  <1>9. t \in Record /\ t.attempts = 0 /\ t.max = m
    BY <1>5, <1>6, <1>7 DEF Record
  <1> HIDE DEF t
  <1>10. GoodRec(t)
    BY <1>6, <1>9 DEF GoodRec, MaxOf
  <1> QED BY <1>6, <1>8, <1>9, <1>10

\* A record whose status alone changes.
LEMMA StatusGood ==
    ASSUME NEW rec, GoodRec(rec), NEW s \in Statuses
    PROVE  GoodRec([rec EXCEPT !.status = s]) /\ [rec EXCEPT !.status = s].status = s
  BY DEF GoodRec, Record, MaxOf

LEMMA SuccessGood ==
    ASSUME Inv, NEW c \in Callers, NEW j \in Jobs
    PROVE  GoodRec(AfterSuccess(c, j))
  <1> DEFINE rec == IF record[j].status = "pending_recovery" THEN record[j] ELSE Tracked(c, j)
  <1>1. GoodRec(rec)
    BY TrackedGood DEF Inv, Records
  <1>2. "dead_letter" \in Statuses /\ "enqueued" \in Statuses
    BY DEF Statuses
  <1>3. GoodRec([rec EXCEPT !.status = "dead_letter"])
        /\ GoodRec([rec EXCEPT !.status = "enqueued"])
    BY <1>1, <1>2, StatusGood
  <1> HIDE DEF rec
  <1>4. AfterSuccess(c, j) \in {rec, [rec EXCEPT !.status = "dead_letter"],
                                [rec EXCEPT !.status = "enqueued"]}
    BY DEF AfterSuccess, rec
  <1> QED BY <1>1, <1>3, <1>4

LEMMA DuplicateGood ==
    ASSUME Inv, NEW c \in Callers, NEW j \in Jobs
    PROVE  GoodRec(AfterDuplicate(c, j))
  <1>1. GoodRec(record[j])
    BY DEF Inv, Records
  <1>2. "dead_letter" \in Statuses /\ "enqueued" \in Statuses
    BY DEF Statuses
  <1>3. GoodRec([record[j] EXCEPT !.status = "dead_letter"])
        /\ GoodRec([record[j] EXCEPT !.status = "enqueued"])
    BY <1>1, <1>2, StatusGood
  <1> QED BY <1>1, <1>3 DEF AfterDuplicate

\* The daemon counts one attempt more, and there was one left.
LEMMA FailureGood ==
    ASSUME Inv, NEW c \in Callers, NEW j \in Jobs, NEW fatal \in BOOLEAN,
           At(c, j) = "add"
    PROVE  /\ GoodRec(AfterFailure(c, j, fatal))
           /\ AfterFailure(c, j, fatal).status = "pending_recovery"
  <1>1. /\ GoodRec(Tracked(c, j)) /\ Tracked(c, j) \in Record
        /\ c \in Runs => Tracked(c, j).max = MaxOf(frame[c][j].rec)
    BY TrackedGood DEF GoodRec
  <1>2. /\ frame[c][j].rec \in Record
        /\ c \in Runs => frame[c][j].rec.attempts < MaxOf(frame[c][j].rec)
    BY DEF Inv, Frames, GoodFrame, Frame, At
  <1>3. /\ frame[c][j].rec.attempts \in Nat /\ frame[c][j].rec.max \in Nat
        /\ MaxOf(frame[c][j].rec) \in Nat /\ MaxOf(frame[c][j].rec) > 0
    BY <1>2 DEF Record, MaxOf
  <1> DEFINE n == IF c \in Runs THEN frame[c][j].rec.attempts + 1 ELSE 0
             m == MaxOf(frame[c][j].rec)
             t == Tracked(c, j)
  <1>4. n \in Nat /\ (c \in Runs => n <= m /\ t.max = m) /\ (c \notin Runs => n = 0)
    BY <1>1, <1>2, <1>3
  <1>5. AfterFailure(c, j, fatal) =
          [t EXCEPT !.status = "pending_recovery", !.fatal = fatal, !.attempts = n]
    BY DEF AfterFailure
  <1>6. t \in Record /\ m \in Nat /\ m > 0 /\ "pending_recovery" \in Statuses
    BY <1>1, <1>3 DEF Statuses
  <1> HIDE DEF n, m, t
  <1> DEFINE a == [status |-> "pending_recovery", attempts |-> n, max |-> t.max, fatal |-> fatal]
  <1>7. AfterFailure(c, j, fatal) = a
    BY <1>5, <1>6 DEF Record
  <1>8. a \in Record /\ a.attempts = n /\ a.max = t.max /\ a.status = "pending_recovery"
    BY <1>4, <1>6 DEF Record
  <1> HIDE DEF a
  <1>9. GoodRec(a)
    BY <1>4, <1>6, <1>8 DEF GoodRec, MaxOf, Record
  <1> QED BY <1>7, <1>8, <1>9

\* BullMQ has the job now, or had it.
LEMMA Puts ==
    ASSUME Broker, NEW j \in Jobs, PutInQueue(j)
    PROVE  Broker' /\ added'[j] > 0 /\ \A i \in Jobs : added'[i] >= added[i]
  <1>1. added \in [Jobs -> Nat] /\ queued \subseteq Jobs /\ \A i \in queued : added[i] > 0
    BY DEF Broker
  <1>2. added' \in [Jobs -> Nat] /\ added'[j] > 0
        /\ \A i \in Jobs : added'[i] >= added[i] /\ (i # j => added'[i] = added[i])
    BY <1>1 DEF PutInQueue
  <1>3. queued' = queued \union {j}
    BY DEF PutInQueue
  <1> QED BY <1>1, <1>2, <1>3 DEF Broker

\* A step on one job leaves the account of the others as it is.
LEMMA AccountKept ==
    ASSUME Inv, NEW j \in Jobs, j \notin Dedup => AccountedFor(j)',
           added \in [Jobs -> Nat], added' \in [Jobs -> Nat],
           \A i \in Jobs : i # j => /\ record'[i] = record[i] /\ submits'[i] = submits[i]
                                    /\ added'[i] >= added[i],
           \A d \in Callers, i \in Jobs : i # j => At(d, i)' = At(d, i)
    PROVE  Accounted'
  <1> SUFFICES ASSUME NEW i \in Jobs \ Dedup, i # j PROVE AccountedFor(i)'
    BY DEF Accounted, AccountedFor
  <1>1. AccountedFor(i)
    BY Unfolded DEF Inv
  <1>2. added'[i] >= added[i] /\ added[i] \in Nat /\ added'[i] \in Nat
    OBVIOUS
  <1>3. added[i] > 0 => added'[i] > 0
    BY <1>2
  <1> QED BY <1>1, <1>3 DEF AccountedFor

-----------------------------------------------------------------------------
(* The actions *)

LEMMA InitInv == Init => Inv
  <1> SUFFICES ASSUME Init PROVE Inv
    OBVIOUS
  <1>1. Records
    BY IdleGood DEF Init, Records, GoodRec
  <1>2. Idle \in Frame
    BY IdleGood DEF GoodFrame
  <1>3. Frames
    BY <1>2, IdleGood DEF Init, Frames
  <1>4. Broker /\ Others
    BY DEF Init, Broker, Others
  <1>5. NoRecord.status = "none"
    BY DEF NoRecord
  <1>6. Accounted
    BY <1>5 DEF Init, Accounted
  <1> QED BY <1>1, <1>3, <1>4, <1>6 DEF Inv

LEMMA SubmitKeeps ==
    ASSUME Inv, NEW j \in Jobs, Submit(j)
    PROVE  Inv'
  <1> USE DEF Submit, Inv
  <1>1. "submit" \in Callers /\ "submit" \notin Runs
    BY RecoveryAssumption DEF Callers
  <1>2. /\ Frames' /\ At("submit", j)' # "idle"
        /\ \A d \in Callers, i \in Jobs : i # j => At(d, i)' = At(d, i)
    BY <1>1, EntryOf, GoesOn
  <1>3. Records' /\ Broker'
    BY DEF Records, Broker, brk
  <1>4. Others' /\ \A i \in Jobs : i # j => submits'[i] = submits[i]
    BY DEF Others
  <1>5. AccountedFor(j)' \/ j \in Dedup
    BY <1>1, <1>2, Unfolded DEF AccountedFor, brk
  <1>6. Accounted'
    BY <1>2, <1>4, <1>5, AccountKept DEF Broker, brk
  <1> QED BY <1>2, <1>3, <1>4, <1>6

LEMMA ReplayKeeps ==
    ASSUME Inv, NEW j \in Jobs, Replay(j)
    PROVE  Inv'
  <1> USE DEF Replay, Inv, brk
  <1>1. "replay" \in Callers /\ "replay" \notin Runs
    BY RecoveryAssumption DEF Callers
  <1> DEFINE f == [at |-> Entry(j), rec |-> record[j]]
  <1>2. GoodFrame("replay", j, f) /\ f.at # "idle"
    BY <1>1, EntryOf DEF Records, GoodFrame, GoodRec, Frame
  <1>3. frame' = [frame EXCEPT !["replay"][j] = f]
    OBVIOUS
  <1> HIDE DEF f
  <1>4. /\ Frames' /\ At("replay", j)' # "idle"
        /\ \A d \in Callers, i \in Jobs : i # j => At(d, i)' = At(d, i)
    <2>1. /\ Frames' /\ frame'["replay"][j] = f
          /\ \A d \in Callers, i \in Jobs : i # j => At(d, i)' = At(d, i)
      BY <1>1, <1>2, <1>3, FrameChange
    <2>2. At("replay", j)' # "idle"
      BY <1>2, <2>1 DEF At
    <2> QED BY <2>1, <2>2
  <1>5. Records' /\ Broker' /\ Others'
    BY DEF Records, Broker, Others
  <1>6. AccountedFor(j)' \/ j \in Dedup
    BY <1>1, <1>4, Unfolded DEF AccountedFor
  <1>7. Accounted'
    BY <1>4, <1>6, AccountKept DEF Broker
  <1> QED BY <1>4, <1>5, <1>7

LEMMA ScanKeeps ==
    ASSUME Inv, NEW r \in Runs, NEW j \in Jobs, Scan(r, j)
    PROVE  Inv'
  <1> USE DEF Scan, Inv, brk, bounds
  <1>1. r \in Callers
    BY DEF Callers
  <1> DEFINE f == [at |-> "decide", rec |-> record[j]]
  <1>2. GoodFrame(r, j, f) /\ f.at # "idle"
    BY DEF Records, GoodFrame, GoodRec, Frame
  <1>3. frame' = [frame EXCEPT ![r][j] = f]
    OBVIOUS
  <1> HIDE DEF f
  <1>4. /\ Frames' /\ At(r, j)' # "idle"
        /\ \A d \in Callers, i \in Jobs : i # j => At(d, i)' = At(d, i)
    <2>1. /\ Frames' /\ frame'[r][j] = f
          /\ \A d \in Callers, i \in Jobs : i # j => At(d, i)' = At(d, i)
      BY <1>1, <1>2, <1>3, FrameChange
    <2>2. At(r, j)' # "idle"
      BY <1>2, <2>1 DEF At
    <2> QED BY <2>1, <2>2
  <1>5. Records' /\ Broker' /\ Others'
    BY DEF Records, Broker, Others
  <1>6. AccountedFor(j)' \/ j \in Dedup
    BY <1>1, <1>4, Unfolded DEF AccountedFor
  <1>7. Accounted'
    BY <1>4, <1>6, AccountKept DEF Broker
  <1> QED BY <1>4, <1>5, <1>7

\* A job set aside is accounted for by its record, one to enqueue by its call.
LEMMA DecideKeeps ==
    ASSUME Inv, NEW r \in Runs, NEW j \in Jobs, Decide(r, j)
    PROVE  Inv'
  <1> USE DEF Inv, brk, bounds
  <1>1. r \in Callers /\ GoodRec(record[j])
    BY DEF Callers, Records
  <1>2. "dead_letter" \in Statuses /\ "manual_review" \in Statuses
    BY DEF Statuses
  <1>3. Broker' /\ Others' /\ UNCHANGED <<added, submits>>
    BY DEF Decide, Broker, Others
  <1>4. CASE \E s \in {"dead_letter", "manual_review"} :
                Write(j, [record[j] EXCEPT !.status = s]) /\ Return(r, j)
    <2> PICK s \in {"dead_letter", "manual_review"} :
                Write(j, [record[j] EXCEPT !.status = s]) /\ Return(r, j)
      BY <1>4
    <2>1. GoodRec([record[j] EXCEPT !.status = s]) /\ [record[j] EXCEPT !.status = s].status = s
      BY <1>1, <1>2, StatusGood
    <2>2. /\ Records' /\ record'[j].status = s
          /\ \A i \in Jobs : i # j => record'[i] = record[i]
      BY <2>1, RecordChange
    <2>3. Frames' /\ \A d \in Callers, i \in Jobs : i # j => At(d, i)' = At(d, i)
      BY <1>1, Returns
    <2>4. AccountedFor(j)'
      BY <2>2 DEF AccountedFor
    <2>5. Accounted'
      BY <1>3, <2>2, <2>3, <2>4, AccountKept DEF Broker
    <2> QED BY <1>3, <2>2, <2>3, <2>5
  <1>5. CASE ~Exhausted(frame[r][j].rec) /\ Goto(r, j, Entry(j)) /\ UNCHANGED record
    <2>1. frame[r][j].rec.attempts < MaxOf(frame[r][j].rec)
      <3>1. frame[r][j].rec \in Record
        BY <1>1 DEF Frames, GoodFrame, GoodRec
      <3> QED BY <1>5, <3>1 DEF Exhausted, Record, MaxOf
    <2>2. /\ Frames' /\ At(r, j)' # "idle"
          /\ \A d \in Callers, i \in Jobs : i # j => At(d, i)' = At(d, i)
      BY <1>1, <1>5, <2>1, EntryOf, GoesOn
    <2>3. Records'
      BY <1>5 DEF Records
    <2>4. AccountedFor(j)' \/ j \in Dedup
      BY <1>1, <1>3, <1>5, <2>2, Unfolded DEF AccountedFor
    <2>5. Accounted'
      BY <1>3, <1>5, <2>2, <2>4, AccountKept DEF Broker
    <2> QED BY <1>3, <2>2, <2>3, <2>5
  <1> QED BY <1>4, <1>5 DEF Decide

\* Deduplication is for the jobs Accounted does not speak of.
LEMMA LockStepKeeps ==
    ASSUME Inv, NEW c \in Callers, NEW j \in Jobs,
           CheckLock(c, j) \/ AcquireLock(c, j)
    PROVE  Inv'
  <1> USE DEF Inv, brk, bounds
  <1>1. /\ j \in Dedup
        /\ c \in Runs => frame[c][j].rec.attempts < MaxOf(frame[c][j].rec)
    BY DEF CheckLock, AcquireLock, Frames, GoodFrame, At
  <1>2. Broker' /\ Others' /\ UNCHANGED <<added, submits>>
    BY <1>1 DEF CheckLock, AcquireLock, Broker, Others
  <1>3. /\ Records' /\ Frames'
        /\ \A i \in Jobs : i # j => record'[i] = record[i]
        /\ \A d \in Callers, i \in Jobs : i # j => At(d, i)' = At(d, i)
    <2>1. CASE Write(j, AfterDuplicate(c, j)) /\ Return(c, j)
      BY <2>1, DuplicateGood, RecordChange, Returns
    <2>2. CASE (Goto(c, j, "acquire") \/ Goto(c, j, "add")) /\ UNCHANGED record
      <3>1. Records'
        BY <2>2 DEF Records
      <3> QED BY <1>1, <2>2, <3>1, GoesOn
    <2> QED BY <2>1, <2>2 DEF CheckLock, AcquireLock
  <1>4. Accounted'
    BY <1>1, <1>2, <1>3, AccountKept DEF Broker
  <1> QED BY <1>2, <1>3, <1>4

LEMMA AddSucceedsKeeps ==
    ASSUME Inv, NEW c \in Callers, NEW j \in Jobs, AddSucceeds(c, j)
    PROVE  Inv'
  <1> USE DEF Inv, bounds
  <1>1. Broker' /\ added'[j] > 0 /\ \A i \in Jobs : added'[i] >= added[i]
    BY Puts DEF AddSucceeds
  <1>2. Records' /\ \A i \in Jobs : i # j => record'[i] = record[i]
    BY SuccessGood, RecordChange DEF AddSucceeds
  <1>3. Frames' /\ \A d \in Callers, i \in Jobs : i # j => At(d, i)' = At(d, i)
    BY Returns DEF AddSucceeds
  <1>4. Others' /\ UNCHANGED submits
    BY DEF AddSucceeds, Others
  <1>5. AccountedFor(j)'
    BY <1>1 DEF AccountedFor
  <1>6. Accounted'
    BY <1>1, <1>2, <1>3, <1>4, <1>5, AccountKept DEF Broker
  <1> QED BY <1>1, <1>2, <1>3, <1>4, <1>6

\* After a failure the record awaits recovery, whoever called.
LEMMA AddFailsKeeps ==
    ASSUME Inv, NEW c \in Callers, NEW j \in Jobs, AddFails(c, j)
    PROVE  Inv'
  <1> USE DEF Inv, bounds
  <1>1. Broker' /\ \A i \in Jobs : added'[i] >= added[i]
    <2>1. CASE UNCHANGED brk
      BY <2>1 DEF Broker, brk
    <2>2. CASE PutInQueue(j)
      BY <2>2, Puts
    <2> QED BY <2>1, <2>2 DEF AddFails
  <1>2. PICK fatal \in BOOLEAN : Write(j, AfterFailure(c, j, fatal))
    BY DEF AddFails, Fails
  <1>3. GoodRec(AfterFailure(c, j, fatal)) /\ AfterFailure(c, j, fatal).status = "pending_recovery"
    BY FailureGood DEF AddFails
  <1>4. /\ Records' /\ record'[j].status = "pending_recovery"
        /\ \A i \in Jobs : i # j => record'[i] = record[i]
    BY <1>2, <1>3, RecordChange
  <1>5. Frames' /\ \A d \in Callers, i \in Jobs : i # j => At(d, i)' = At(d, i)
    BY Returns DEF AddFails, Fails
  <1>6. Others' /\ UNCHANGED submits
    BY DEF AddFails, Others
  <1>7. AccountedFor(j)'
    BY <1>4 DEF AccountedFor
  <1>8. Accounted'
    BY <1>1, <1>4, <1>5, <1>6, <1>7, AccountKept DEF Broker
  <1> QED BY <1>1, <1>4, <1>5, <1>6, <1>8

LEMMA OutsideKeeps ==
    ASSUME Inv, NEW j \in Jobs, LockExpires(j) \/ Execute(j)
    PROVE  Inv'
  <1> USE DEF Inv, brk, bounds, LockExpires, Execute
  <1>1. UNCHANGED <<record, frame, added, submits, replays>>
    OBVIOUS
  <1>2. Broker'
    BY DEF Broker
  <1>3. Others'
    BY DEF Others
  <1>4. Records' /\ Frames' /\ Accounted'
    BY <1>1 DEF Records, Frames, Accounted, At
  <1> QED BY <1>2, <1>3, <1>4

LEMMA NextKeeps == Inv /\ [Next]_vars => Inv'
  <1> SUFFICES ASSUME Inv, [Next]_vars PROVE Inv'
    OBVIOUS
  <1>1. CASE UNCHANGED vars
    BY <1>1 DEF Inv, Records, Frames, Broker, Others, Accounted, At, vars, brk, bounds
  <1>2. CASE Next
    BY <1>2, SubmitKeeps, ReplayKeeps, ScanKeeps, DecideKeeps, LockStepKeeps,
       AddSucceedsKeeps, AddFailsKeeps, OutsideKeeps DEF Next, Step
  <1> QED BY <1>1, <1>2

LEMMA Invariance == Spec => []Inv
  BY InitInv, NextKeeps, PTL DEF Spec

\* The variables have their types, and a record never counts more attempts than
\* its maximum, although runs of the daemon overlap and each writes its own count.
THEOREM TypeCorrect == Spec => []TypeOK
  BY InvTypes, Invariance, PTL

\* No job without a deduplication id is lost silently, whatever fails and however
\* many runs, replays and submissions overlap.
THEOREM JobsAccounted == Spec => []Accounted
  <1>1. Inv => Accounted
    BY DEF Inv
  <1> QED BY <1>1, Invariance, PTL

-----------------------------------------------------------------------------
(* A job by itself: one call at a time, and what it may still add *)

\* The status of a record while a call works on its job, if nobody else does.
StatusDuring(c) == IF c = "submit" THEN "none"
                   ELSE IF c = "replay" THEN "dead_letter" ELSE "pending_recovery"

Busy(j) == \E c \in Callers : At(c, j) # "idle"

\* Who works on a job does so alone and on the record it expects.
Turn(j) ==
    /\ submits[j] <= 1
    /\ submits[j] = 0 => /\ record[j].status = "none" /\ added[j] = 0 /\ replays[j] = 0
                         /\ \A c \in Callers : At(c, j) = "idle"
    /\ \A c \in Callers : At(c, j) # "idle" => record[j].status = StatusDuring(c)
    /\ \A c, d \in Callers : At(c, j) # "idle" /\ At(d, j) # "idle" => c = d

\* How often a job may be put in the queue.
Allowed(n) == IF n > 1 THEN n ELSE 1

\* What is left of the allowance, for a call at work, a job that awaits recovery,
\* and a dead letter that may be replayed; and what workers took of it.
Budget(j) ==
    /\ added[j] <= Allowed(replays[j])
    /\ Busy(j) \/ record[j].status = "pending_recovery"
          => added[j] + 1 <= Allowed(replays[j])
    /\ At("replay", j) # "idle" => replays[j] > 0
    /\ record[j].status = "dead_letter" /\ ~Busy(j) => added[j] <= replays[j]
    /\ executed[j] <= added[j] /\ (j \in queued => executed[j] + 1 <= added[j])

Turns == \A j \in Jobs \ doubled : Turn(j)
Budgets == \A j \in Jobs \ (doubled \union unanswered) : Budget(j)

\* A step of the system is a step on one job.
On(j) ==
    \/ Submit(j) \/ Replay(j) \/ LockExpires(j) \/ Execute(j)
    \/ \E r \in Runs : Scan(r, j) \/ Decide(r, j)
    \/ \E c \in Callers : Step(c, j)

\* A call moves, and no other one.
Moves(c, j, l) ==
    \A d \in Callers, i \in Jobs :
        At(d, i)' = IF d = c /\ i = j THEN l ELSE At(d, i)

LEMMA FrameMoves ==
    ASSUME Frames, NEW c \in Callers, NEW j \in Jobs, NEW f,
           frame' = [frame EXCEPT ![c][j] = f]
    PROVE  Moves(c, j, f.at) /\ frame'[c][j] = f
  BY DEF Frames, At, Moves

LEMMA GotoMoves ==
    ASSUME Frames, NEW c \in Callers, NEW j \in Jobs, NEW l, Goto(c, j, l)
    PROVE  Moves(c, j, l)
  <1> DEFINE f == [frame[c][j] EXCEPT !.at = l]
  <1>1. frame[c][j] \in Frame
    BY DEF Frames
  <1>2. f.at = l
    BY <1>1 DEF Frame
  <1>3. frame' = [frame EXCEPT ![c][j] = f]
    BY DEF Goto
  <1> HIDE DEF f
  <1> QED BY <1>2, <1>3, FrameMoves

LEMMA ReturnMoves ==
    ASSUME Frames, NEW c \in Callers, NEW j \in Jobs, Return(c, j)
    PROVE  Moves(c, j, "idle") /\ frame'[c][j] = Idle
  <1>1. frame' = [frame EXCEPT ![c][j] = Idle] /\ Idle.at = "idle"
    BY IdleGood DEF Return
  <1>2. Moves(c, j, Idle.at) /\ frame'[c][j] = Idle
    BY <1>1, FrameMoves
  <1> QED BY <1>1, <1>2

\* What a step leaves alone.
Untouched(i) ==
    /\ record'[i] = record[i] /\ submits'[i] = submits[i] /\ replays'[i] = replays[i]
    /\ added'[i] = added[i] /\ executed'[i] = executed[i]
    /\ (i \in queued' <=> i \in queued)
    /\ \A c \in Callers : At(c, i)' = At(c, i)

LEMMA UntouchedKeeps ==
    ASSUME NEW i \in Jobs, Untouched(i)
    PROVE  (Turn(i) => Turn(i)') /\ (Budget(i) => Budget(i)')
  <1>1. /\ record'[i] = record[i] /\ submits'[i] = submits[i] /\ replays'[i] = replays[i]
        /\ added'[i] = added[i] /\ executed'[i] = executed[i]
        /\ (i \in queued' <=> i \in queued)
        /\ \A c \in Callers : At(c, i)' = At(c, i)
    BY DEF Untouched
  <1>2. "replay" \in Callers
    BY DEF Callers
  <1>3. Busy(i)' <=> Busy(i)
    BY <1>1 DEF Busy
  <1>4. ASSUME Turn(i) PROVE Turn(i)'
    BY <1>1, <1>4 DEF Turn
  <1>5. ASSUME Budget(i) PROVE Budget(i)'
    BY <1>1, <1>2, <1>3, <1>5 DEF Budget
  <1> QED BY <1>4, <1>5

\* A step on one job does not touch another.
LEMMA Elsewhere ==
    ASSUME Inv, NEW j \in Jobs, On(j), NEW i \in Jobs, i # j
    PROVE  Untouched(i)
  <1>1. /\ record \in [Jobs -> Record] /\ added \in [Jobs -> Nat]
        /\ executed \in [Jobs -> Nat] /\ submits \in [Jobs -> Nat]
        /\ replays \in [Jobs -> Nat] /\ Frames
    BY DEF Inv, Records, Broker, Others
  <1>2. "submit" \in Callers /\ "replay" \in Callers /\ Runs \subseteq Callers
    BY DEF Callers
  <1>3. record'[i] = record[i]
    BY <1>1 DEF On, Submit, Replay, LockExpires, Execute, Scan, Decide, Step, CheckLock,
                AcquireLock, AddSucceeds, AddFails, Fails, Write
  <1>4. submits'[i] = submits[i] /\ replays'[i] = replays[i] /\ executed'[i] = executed[i]
    BY <1>1 DEF On, Submit, Replay, LockExpires, Execute, Scan, Decide, Step, CheckLock,
                AcquireLock, AddSucceeds, AddFails, bounds
  <1>5. added'[i] = added[i] /\ (i \in queued' <=> i \in queued)
    BY <1>1 DEF On, Submit, Replay, LockExpires, Execute, Scan, Decide, Step, CheckLock,
                AcquireLock, AddSucceeds, AddFails, PutInQueue, brk
  <1>6. \/ frame' = frame
        \/ \E c \in Callers : \E f : frame' = [frame EXCEPT ![c][j] = f]
        \/ \E c \in Callers : \E l : Goto(c, j, l)
    BY <1>2 DEF On, Submit, Replay, LockExpires, Execute, Scan, Decide, Step, CheckLock,
                AcquireLock, AddSucceeds, AddFails, Fails, Return
  <1>7. \A c \in Callers : At(c, i)' = At(c, i)
    <2>1. CASE frame' = frame
      BY <2>1 DEF At
    <2>2. CASE \E c \in Callers : \E l : Moves(c, j, l)
      BY <2>2 DEF Moves
    <2> QED BY <1>1, <1>6, <2>1, <2>2, FrameMoves, GotoMoves
  <1> QED BY <1>3, <1>4, <1>5, <1>7 DEF Untouched

\* The ways a step changes one job: a call starts, goes on, or returns.
Keeps(j) == (Turn(j) => Turn(j)') /\ (Turn(j) /\ Budget(j) => Budget(j)')

\* The first call is for a job nobody knew, and replay is for one set aside.
LEMMA StartsKeep ==
    ASSUME Inv, NEW j \in Jobs, Submit(j) \/ Replay(j), j \notin doubled'
    PROVE  Keeps(j)
  <1>1. /\ submits \in [Jobs -> Nat] /\ replays \in [Jobs -> Nat] /\ added \in [Jobs -> Nat]
        /\ executed \in [Jobs -> Nat] /\ Frames
    BY DEF Inv, Others, Broker
  <1>2. "submit" \in Callers /\ "replay" \in Callers /\ Entry(j) # "idle"
    BY EntryOf DEF Callers
  <1>3. UNCHANGED <<record, queued, added, executed>>
    BY DEF Submit, Replay, brk
  <1>4. CASE Submit(j)
    <2>1. /\ At("submit", j) = "idle" /\ ~(submits[j] > 0)
          /\ submits'[j] = submits[j] + 1 /\ replays'[j] = replays[j]
          /\ Moves("submit", j, Entry(j))
      BY <1>1, <1>2, <1>4, GotoMoves DEF Submit
    <2>2. submits[j] = 0 /\ submits'[j] = 1
      BY <1>1, <2>1
    <2>3. ASSUME Turn(j)
          PROVE  /\ record[j].status = "none" /\ added[j] = 0 /\ replays[j] = 0
                 /\ \A c \in Callers : At(c, j) = "idle"
      BY <2>2, <2>3 DEF Turn
    <2>4. ASSUME Turn(j)
          PROVE  \A c \in Callers : At(c, j)' = IF c = "submit" THEN Entry(j) ELSE "idle"
      BY <2>1, <2>3, <2>4 DEF Moves
    <2>5. ASSUME Turn(j) PROVE Turn(j)'
      BY <1>3, <2>2, <2>3, <2>4, <2>5 DEF Turn, StatusDuring
    <2>6. ASSUME Turn(j), Budget(j) PROVE Budget(j)'
      BY <1>1, <1>2, <1>3, <2>1, <2>3, <2>4, <2>6 DEF Budget, Busy, Allowed
    <2> QED BY <2>5, <2>6 DEF Keeps
  <1>5. CASE Replay(j)
    <2> DEFINE f == [at |-> Entry(j), rec |-> record[j]]
    <2>1. frame' = [frame EXCEPT !["replay"][j] = f] /\ f.at = Entry(j)
      BY <1>5 DEF Replay
    <2>2. Moves("replay", j, f.at)
      BY <1>1, <1>2, <2>1, FrameMoves
    <2>3. /\ At("replay", j) = "idle" /\ record[j].status = "dead_letter"
          /\ submits'[j] = submits[j] /\ replays'[j] = replays[j] + 1
          /\ Moves("replay", j, Entry(j))
      BY <1>1, <1>5, <2>1, <2>2 DEF Replay
    <2>4. ASSUME Turn(j) PROVE \A c \in Callers : At(c, j) = "idle"
      BY <2>3, <2>4 DEF Turn, StatusDuring
    <2>5. ASSUME Turn(j)
          PROVE  \A c \in Callers : At(c, j)' = IF c = "replay" THEN Entry(j) ELSE "idle"
      BY <2>3, <2>4, <2>5 DEF Moves
    <2>6. ASSUME Turn(j) PROVE Turn(j)'
      BY <1>3, <2>3, <2>4, <2>5, <2>6 DEF Turn, StatusDuring
    <2>7. ASSUME Turn(j), Budget(j) PROVE Budget(j)'
      <3>1. ~Busy(j)
        BY <2>4, <2>7 DEF Busy
      <3>2. added[j] <= replays[j]
        BY <2>3, <2>7, <3>1 DEF Budget
      <3>3. added[j] + 1 <= Allowed(replays[j] + 1) /\ replays[j] + 1 > 0
        BY <1>1, <3>2 DEF Allowed
      <3>4. Busy(j)'
        BY <1>2, <2>5, <2>7 DEF Busy
      <3>5. executed[j] <= added[j] /\ (j \in queued => executed[j] + 1 <= added[j])
        BY <2>7 DEF Budget
      <3>6. Allowed(replays[j] + 1) \in Nat
        BY <1>1 DEF Allowed
      <3> QED BY <1>1, <1>3, <2>3, <3>3, <3>4, <3>5, <3>6 DEF Budget
    <2> QED BY <2>6, <2>7 DEF Keeps
  <1> QED BY <1>4, <1>5

\* A run of the daemon begins when nobody else works on the job.
LEMMA ScanTurn ==
    ASSUME Inv, NEW r \in Runs, NEW j \in Jobs, Scan(r, j), j \notin doubled'
    PROVE  Keeps(j)
  <1> USE DEF bounds, brk
  <1>1. /\ Frames /\ r \in Callers /\ r \notin {"submit", "replay"} /\ j \in Jobs
        /\ "replay" \in Callers
    BY RecoveryAssumption DEF Inv, Callers
  <1> DEFINE f == [at |-> "decide", rec |-> record[j]]
  <1>2. frame' = [frame EXCEPT ![r][j] = f] /\ f.at = "decide"
    BY DEF Scan
  <1> HIDE DEF f
  <1>3. Moves(r, j, f.at)
    BY <1>1, <1>2, FrameMoves
  <1>4. \A c \in Callers : At(c, j)' = IF c = r THEN "decide" ELSE At(c, j)
    BY <1>1, <1>2, <1>3 DEF Moves
  <1>5. /\ record[j].status = "pending_recovery" /\ At(r, j) = "idle"
        /\ \A q \in Runs : At(q, j) = "idle"
        /\ UNCHANGED <<record, queued, added, executed, submits, replays>>
    BY DEF Scan, Recoverable
  <1>6. ASSUME Turn(j) PROVE \A c \in Callers : At(c, j) = "idle"
    BY <1>5, <1>6 DEF Turn, StatusDuring, Callers
  <1>7. ASSUME Turn(j) PROVE Turn(j)'
    BY <1>1, <1>4, <1>5, <1>6, <1>7 DEF Turn, StatusDuring
  <1>8. ASSUME Turn(j), Budget(j) PROVE Budget(j)'
    <2>1. At("replay", j)' = "idle" /\ Busy(j)'
      BY <1>1, <1>4, <1>6, <1>8 DEF Busy
    <2> QED BY <1>5, <1>8, <2>1 DEF Budget
  <1> QED BY <1>7, <1>8 DEF Keeps

LEMMA GoesOnKeeps ==
    ASSUME Inv, NEW c \in Callers, NEW j \in Jobs, NEW l, At(c, j) # "idle", l # "idle",
           Goto(c, j, l),
           UNCHANGED <<record, queued, added, executed, submits, replays>>
    PROVE  Keeps(j)
  <1>1. \A d \in Callers : At(d, j)' = IF d = c THEN l ELSE At(d, j)
    BY GotoMoves DEF Inv, Moves
  <1>2. \A d \in Callers : At(d, j)' # "idle" <=> At(d, j) # "idle"
    BY <1>1
  <1>3. ASSUME Turn(j) PROVE Turn(j)'
    BY <1>2, <1>3 DEF Turn
  <1>4. Busy(j)' <=> Busy(j)
    BY <1>2 DEF Busy
  <1>5. "replay" \in Callers
    BY DEF Callers
  <1>6. ASSUME Budget(j) PROVE Budget(j)'
    BY <1>2, <1>4, <1>5, <1>6 DEF Budget
  <1> QED BY <1>3, <1>6 DEF Keeps

\* A call returns; unless it is the one that failed, it may have added the job.
LEMMA ReturnsKeep ==
    ASSUME Inv, NEW c \in Callers, NEW j \in Jobs, At(c, j) # "idle", Return(c, j),
           UNCHANGED <<submits, replays, executed>>,
           \/ UNCHANGED brk
           \/ PutInQueue(j) /\ (j \in unanswered' \/ record'[j].status # "pending_recovery"),
           record'[j].status = "dead_letter" => c = "replay" \/ UNCHANGED brk
    PROVE  (Turn(j) => Turn(j)') /\ (j \notin unanswered' => Keeps(j))
  <1>1. /\ added \in [Jobs -> Nat] /\ executed \in [Jobs -> Nat]
        /\ replays \in [Jobs -> Nat] /\ "replay" \in Callers
    BY DEF Inv, Broker, Others, Callers
  <1>2. \A d \in Callers : At(d, j)' = IF d = c THEN "idle" ELSE At(d, j)
    BY ReturnMoves DEF Inv, Moves
  <1>3. ASSUME Turn(j) PROVE submits[j] # 0 /\ \A d \in Callers : At(d, j)' = "idle"
    BY <1>2, <1>3 DEF Turn
  <1>4. ASSUME Turn(j) PROVE Turn(j)'
    BY <1>3, <1>4 DEF Turn
  <1>5. ASSUME Turn(j), Budget(j), j \notin unanswered' PROVE Budget(j)'
    <2> DEFINE most == Allowed(replays[j])
    <2>1. added[j] + 1 <= most /\ (c = "replay" => replays[j] > 0)
      BY <1>5 DEF Budget, Busy
    <2>2. most \in Nat /\ (replays[j] > 0 => most = replays[j])
          /\ (added[j] + 1 <= most => added[j] <= replays[j])
      BY <1>1 DEF Allowed
    <2>3. ~Busy(j)' /\ At("replay", j)' = "idle"
      BY <1>1, <1>3, <1>5 DEF Busy
    <2>4. executed[j] <= added[j] /\ (j \in queued => executed[j] + 1 <= added[j])
      BY <1>5 DEF Budget
    <2>5. Allowed(replays'[j]) = most
      OBVIOUS
    <2> HIDE DEF most
    <2>6. CASE UNCHANGED brk
      <3>1. added' = added /\ queued' = queued
        BY <2>6 DEF brk
      <3> QED BY <1>1, <2>1, <2>2, <2>3, <2>4, <2>5, <3>1 DEF Budget
    <2>7. CASE ~UNCHANGED brk
      <3>1. /\ j \in queued' /\ added'[j] = IF j \in queued THEN added[j] ELSE added[j] + 1
            /\ record'[j].status # "pending_recovery"
        BY <1>1, <1>5, <2>7 DEF PutInQueue
      <3>2. executed[j] + 1 <= added'[j] /\ added'[j] <= most /\ added'[j] \in Nat
        BY <1>1, <2>1, <2>2, <2>4, <3>1
      <3>3. record'[j].status = "dead_letter" => added'[j] <= replays[j]
        BY <2>1, <2>2, <2>7, <3>2
      <3> QED BY <1>1, <2>3, <2>5, <3>1, <3>2, <3>3 DEF Budget
    <2> QED BY <2>6, <2>7
  <1> QED BY <1>4, <1>5 DEF Keeps

LEMMA DecideTurn ==
    ASSUME Inv, NEW r \in Runs, NEW j \in Jobs, Decide(r, j)
    PROVE  (Turn(j) => Turn(j)') /\ (j \notin unanswered' => Keeps(j))
  <1>1. /\ r \in Callers /\ At(r, j) # "idle"
        /\ UNCHANGED <<queued, added, brk, executed, submits, replays>>
    BY DEF Decide, Callers, brk, bounds
  <1>2. CASE Return(r, j)
    BY <1>1, <1>2, ReturnsKeep
  <1>3. CASE Goto(r, j, Entry(j)) /\ UNCHANGED record
    BY <1>1, <1>3, EntryOf, GoesOnKeeps DEF Keeps
  <1> QED BY <1>2, <1>3 DEF Decide

\* What a call leaves in the record.
LEMMA StatusAfter ==
    ASSUME Inv, NEW c \in Callers, NEW j \in Jobs
    PROVE  /\ AfterSuccess(c, j).status = IF c \in Runs THEN "enqueued"
                 ELSE IF c = "replay" THEN "dead_letter"
                 ELSE IF record[j].status = "pending_recovery" THEN record[j].status
                 ELSE "pending"
           /\ AfterDuplicate(c, j).status = IF c \in Runs THEN "enqueued"
                 ELSE IF c = "replay" THEN "dead_letter" ELSE record[j].status
  <1>1. GoodRec(Tracked(c, j)) /\ GoodRec(record[j])
    BY TrackedGood DEF Inv, Records
  <1>2. Tracked(c, j).status = "pending"
    BY <1>1 DEF Tracked, GoodRec, Record, Inv, Records
  <1>3. {"dead_letter", "enqueued"} \subseteq Statuses
    BY DEF Statuses
  <1> DEFINE rec == IF record[j].status = "pending_recovery" THEN record[j] ELSE Tracked(c, j)
  <1>4. GoodRec(rec)
    BY <1>1
  <1>5. rec.status = IF record[j].status = "pending_recovery" THEN record[j].status
                                                              ELSE "pending"
    BY <1>2
  <1>6. AfterSuccess(c, j) = IF c = "submit" THEN rec
                             ELSE IF c = "replay" THEN [rec EXCEPT !.status = "dead_letter"]
                             ELSE [rec EXCEPT !.status = "enqueued"]
    BY DEF AfterSuccess
  <1> HIDE DEF rec
  <1>7. \A s \in {"dead_letter", "enqueued"} :
           /\ [rec EXCEPT !.status = s].status = s
           /\ [record[j] EXCEPT !.status = s].status = s
    BY <1>1, <1>3, <1>4, StatusGood
  <1>8. c \in Runs <=> c \notin {"submit", "replay"}
    BY RecoveryAssumption DEF Callers
  <1>9. AfterDuplicate(c, j).status = IF c \in Runs THEN "enqueued"
                 ELSE IF c = "replay" THEN "dead_letter" ELSE record[j].status
    BY <1>7 DEF AfterDuplicate
  <1> QED BY <1>5, <1>6, <1>7, <1>8, <1>9

LEMMA StepTurn ==
    ASSUME Inv, NEW c \in Callers, NEW j \in Jobs, Step(c, j)
    PROVE  (Turn(j) => Turn(j)') /\ (j \notin unanswered' => Keeps(j))
  <1> USE DEF bounds, brk
  <1>1. At(c, j) # "idle" /\ UNCHANGED <<submits, replays, executed>>
    BY DEF Step, CheckLock, AcquireLock, AddSucceeds, AddFails
  <1>2. \A rec : GoodRec(rec) /\ Write(j, rec) => record'[j] = rec
    BY RecordChange DEF Inv
  <1>3. CASE CheckLock(c, j) \/ AcquireLock(c, j)
    <2>1. UNCHANGED <<queued, added, brk>>
      BY <1>3 DEF CheckLock, AcquireLock
    <2>2. CASE Return(c, j)
      BY <1>1, <2>1, <2>2, ReturnsKeep
    <2>3. CASE (Goto(c, j, "acquire") \/ Goto(c, j, "add")) /\ UNCHANGED record
      BY <1>1, <2>1, <2>3, GoesOnKeeps DEF Keeps
    <2> QED BY <1>3, <2>2, <2>3 DEF CheckLock, AcquireLock
  <1>4. CASE AddSucceeds(c, j)
    <2>1. PutInQueue(j) /\ Return(c, j) /\ Write(j, AfterSuccess(c, j))
      BY <1>4 DEF AddSucceeds
    <2>2. record'[j] = AfterSuccess(c, j)
      BY <1>2, <2>1, SuccessGood
    <2>3. ASSUME Turn(j) PROVE record'[j].status # "pending_recovery"
      <3>1. record[j].status = StatusDuring(c)
        BY <1>1, <2>3 DEF Turn
      <3> QED BY <2>2, <3>1, StatusAfter, RecoveryAssumption DEF StatusDuring, Callers
    <2>4. record'[j].status = "dead_letter" => c = "replay"
      BY <2>2, StatusAfter, RecoveryAssumption DEF Callers
    <2> QED BY <1>1, <2>1, <2>3, <2>4, ReturnsKeep DEF Keeps
  <1>5. CASE AddFails(c, j)
    <2>1. Return(c, j)
      BY <1>5 DEF AddFails, Fails
    <2>4. UNCHANGED brk \/ (j \in unanswered' /\ PutInQueue(j))
      BY <1>5 DEF AddFails
    <2>2. PICK fatal \in BOOLEAN : Write(j, AfterFailure(c, j, fatal))
      BY <1>5 DEF AddFails, Fails
    <2>3. record'[j].status = "pending_recovery"
      BY <1>2, <1>5, <2>2, FailureGood DEF AddFails
    <2> QED BY <1>1, <2>1, <2>3, <2>4, ReturnsKeep
  <1> QED BY <1>3, <1>4, <1>5 DEF Step

\* A worker takes what is in the queue, and that was put there.
LEMMA OutsideTurn ==
    ASSUME Inv, NEW j \in Jobs, LockExpires(j) \/ Execute(j)
    PROVE  Keeps(j)
  <1>1. added \in [Jobs -> Nat] /\ executed \in [Jobs -> Nat]
    BY DEF Inv, Broker, Others
  <1>2. UNCHANGED <<record, frame, added, submits, replays>>
    BY DEF LockExpires, Execute, brk, bounds
  <1>3. \A c \in Callers : At(c, j)' = At(c, j)
    BY <1>2 DEF At
  <1>4. Turn(j) => Turn(j)'
    BY <1>2, <1>3 DEF Turn
  <1>5. (Busy(j)' <=> Busy(j)) /\ At("replay", j)' = At("replay", j)
    BY <1>2 DEF Busy, At
  <1>6. \/ executed' = executed /\ queued' = queued
        \/ j \in queued /\ j \notin queued' /\ executed'[j] = executed[j] + 1
    BY <1>1 DEF LockExpires, Execute, brk
  <1>7. ASSUME Budget(j) PROVE Budget(j)'
    <2>1. executed'[j] <= added[j] /\ (j \in queued' => executed'[j] + 1 <= added[j])
      BY <1>1, <1>6, <1>7 DEF Budget
    <2> QED BY <1>2, <1>5, <1>7, <2>1 DEF Budget
  <1> QED BY <1>4, <1>7 DEF Keeps

AloneInv == Inv /\ Turns /\ Budgets

\* Nothing is struck off what was recorded.
LEMMA RecordedStays ==
    ASSUME [Next]_vars
    PROVE  doubled \subseteq doubled' /\ unanswered \subseteq unanswered'
  <1>1. CASE UNCHANGED vars
    BY <1>1 DEF vars
  <1>2. ASSUME NEW j \in Jobs, On(j)
        PROVE  doubled \subseteq doubled' /\ unanswered \subseteq unanswered'
    BY <1>2 DEF On, Submit, Replay, LockExpires, Execute, Scan, Decide, Step, CheckLock,
                AcquireLock, AddSucceeds, AddFails
  <1> QED BY <1>1, <1>2 DEF Next, On

LEMMA InitAlone == Init => AloneInv
  <1> SUFFICES ASSUME Init PROVE Turns /\ Budgets
    BY InitInv DEF AloneInv
  <1>1. \A c \in Callers, j \in Jobs : At(c, j) = "idle"
    BY IdleGood DEF Init, At
  <1>2. "replay" \in Callers
    BY DEF Callers
  <1>3. NoRecord.status = "none"
    BY DEF NoRecord
  <1>4. \A j \in Jobs : Turn(j)
    BY <1>1, <1>3 DEF Init, Turn
  <1>5. \A j \in Jobs : Budget(j)
    BY <1>1, <1>2, <1>3 DEF Init, Budget, Busy, Allowed
  <1> QED BY <1>4, <1>5 DEF Turns, Budgets

LEMMA StepAlone ==
    ASSUME AloneInv, [Next]_vars
    PROVE  AloneInv'
  <1>1. Inv'
    BY NextKeeps DEF AloneInv
  <1>2. doubled \subseteq doubled' /\ unanswered \subseteq unanswered'
    BY RecordedStays
  <1>3. ASSUME NEW i \in Jobs, i \notin doubled'
        PROVE  Turn(i)' /\ (i \notin unanswered' => Budget(i)')
    <2>1. Turn(i) /\ (i \notin unanswered' => Budget(i)) /\ Inv
      BY <1>2, <1>3 DEF AloneInv, Turns, Budgets
    <2>2. CASE UNCHANGED vars
      <3>1. Untouched(i)
        BY <2>2 DEF vars, brk, bounds, Untouched, At
      <3> QED BY <2>1, <3>1, UntouchedKeeps
    <2>3. CASE Next
      <3>1. PICK j \in Jobs : On(j)
        BY <2>3 DEF Next, On
      <3>2. CASE i # j
        BY <2>1, <3>1, <3>2, Elsewhere, UntouchedKeeps
      <3>3. CASE i = j
        <4>1. (Turn(i) => Turn(i)') /\ (i \notin unanswered' => Keeps(i))
          BY <1>3, <2>1, <3>1, <3>3, StartsKeep, ScanTurn, DecideTurn, StepTurn, OutsideTurn
             DEF On, Keeps
        <4> QED BY <2>1, <4>1 DEF Keeps
      <3> QED BY <3>2, <3>3
    <2> QED BY <2>2, <2>3
  <1> QED BY <1>1, <1>3 DEF AloneInv, Turns, Budgets

LEMMA AloneInvariance == Spec => []AloneInv
  BY InitAlone, StepAlone, PTL DEF Spec

\* Failures, recovery and replay together run a job once, or once per replay, for
\* any number of jobs, of runs of the daemon and of replays, and also with a
\* deduplication lock that expires: unless the application enqueued it again, two
\* runs of the daemon overlapped on it, or BullMQ took it and the reply was lost.
THEOREM RunsOnce == Spec => []ExecutedOnce
  <1>1. ASSUME AloneInv, NEW j \in Jobs \ (doubled \union unanswered)
        PROVE  executed[j] <= IF replays[j] > 1 THEN replays[j] ELSE 1
    <2>1. executed[j] \in Nat /\ added[j] \in Nat /\ replays[j] \in Nat
      BY <1>1 DEF AloneInv, Inv, Broker, Others
    <2>2. executed[j] <= added[j] /\ added[j] <= Allowed(replays[j])
      BY <1>1 DEF AloneInv, Budgets, Budget
    <2> QED BY <2>1, <2>2 DEF Allowed
  <1>2. AloneInv => ExecutedOnce
    BY <1>1 DEF ExecutedOnce
  <1> QED BY <1>2, AloneInvariance, PTL

\* A job set aside is neither queued nor put back into recovery, except by the
\* replay an operator asked for, unless the application enqueued it twice or a run
\* of the daemon began while another one was at work on it; replies may be lost.
THEOREM SetAsideStays == Spec => SetAsideIsFinal
  <1> DEFINE Stays(j) ==
                 (/\ record[j].status \in {"dead_letter", "manual_review"}
                  /\ added'[j] > added[j] \/ record'[j].status # record[j].status)
                     => At("replay", j) = "add" /\ frame'["replay"][j] = Idle
  <1>1. ASSUME AloneInv, Next, NEW j \in Jobs \ doubled PROVE Stays(j)
    <2> SUFFICES ASSUME record[j].status \in {"dead_letter", "manual_review"},
                        added'[j] > added[j] \/ record'[j].status # record[j].status
                 PROVE  At("replay", j) = "add" /\ frame'["replay"][j] = Idle
      OBVIOUS
    <2>1. /\ Inv /\ Turn(j) /\ j \in Jobs /\ added[j] \in Nat
      BY <1>1 DEF AloneInv, Turns, Inv, Broker
    <2>2. PICK i \in Jobs : On(i)
      BY <1>1 DEF Next, On
    <2>3. On(j)
      BY <2>1, <2>2, Elsewhere DEF Untouched
    <2>4. ASSUME NEW c \in Callers, At(c, j) # "idle" PROVE c = "replay"
      BY <2>1, <2>4 DEF Turn, StatusDuring
    <2>5. ~(UNCHANGED <<record, added>>)
      BY <2>1
    <2>6. Step("replay", j)
      <3>1. \A r \in Runs : ~Scan(r, j)
        BY <2>5 DEF Scan, brk
      <3>2. \A r \in Runs : ~Decide(r, j)
        BY <2>4, RecoveryAssumption DEF Decide, Callers
      <3>3. \A c \in Callers : Step(c, j) => c = "replay"
        BY <2>4 DEF Step, CheckLock, AcquireLock, AddSucceeds, AddFails
      <3>4. ~Submit(j) /\ ~Replay(j) /\ ~LockExpires(j) /\ ~Execute(j)
        BY <2>5 DEF Submit, Replay, LockExpires, Execute, brk
      <3> QED BY <2>3, <3>1, <3>2, <3>3, <3>4 DEF On
    <2>7. "replay" \in Callers /\ "replay" \notin Runs
      BY RecoveryAssumption DEF Callers
    <2>8. record[j].status = "dead_letter"
      <3>1. At("replay", j) # "idle"
        BY <2>6 DEF Step, CheckLock, AcquireLock, AddSucceeds, AddFails
      <3> QED BY <2>1, <2>7, <3>1 DEF Turn, StatusDuring
    <2>9. ~CheckLock("replay", j) /\ ~AcquireLock("replay", j)
      <3>1. SUFFICES ASSUME CheckLock("replay", j) \/ AcquireLock("replay", j) PROVE FALSE
        OBVIOUS
      <3>2. added' = added
        BY <3>1 DEF CheckLock, AcquireLock, brk
      <3>3. record' = record \/ record'[j] = AfterDuplicate("replay", j)
        BY <2>1, <2>7, <3>1, DuplicateGood, RecordChange DEF CheckLock, AcquireLock, Inv
      <3> QED BY <2>1, <2>7, <2>8, <3>2, <3>3, StatusAfter
    <2>10. At("replay", j) = "add" /\ Return("replay", j)
      BY <2>6, <2>9 DEF Step, AddSucceeds, AddFails, Fails
    <2> QED BY <2>1, <2>7, <2>10, ReturnMoves DEF Inv
  <1>2. ASSUME AloneInv, [Next]_vars PROVE [\A j \in Jobs \ doubled : Stays(j)]_vars
    BY <1>1, <1>2
  <1>3. [][\A j \in Jobs \ doubled : Stays(j)]_vars <=> SetAsideIsFinal
    BY DEF SetAsideIsFinal
  <1> HIDE DEF Stays
  <1> QED BY <1>2, <1>3, AloneInvariance, PTL DEF Spec
=============================================================================
