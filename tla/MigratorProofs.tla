--------------------------- MODULE MigratorProofs ---------------------------
(* Proofs about Migrator: runs under a lock file exclude each other; the      *)
(* migrations table agrees with the schema unless runs overlapped or a drop   *)
(* of the tables was cut short; and the migrator implements MigrationStack    *)
(* until one of the four upsets, whatever fails, dies or is rolled back.      *)
EXTENDS Migrator, TLAPS

\* No migration is in effect twice.
Once == \A i, j \in DOMAIN schema : schema[i] = schema[j] => i = j

PlanNames(p) == {e.name : e \in plan[p]}

\* What is still to be undone is completed, what is still to be applied is not,
\* and the migration whose up() was called has a row that says so.
PlanAgrees(p) ==
    /\ pc[p] = "undoing" => \A e \in plan[p] : rows[e.name].status = "completed"
    /\ pc[p] \in {"applying", "up", "failing"} =>
          /\ op[p] \notin Undoing
          /\ \A e \in plan[p] : rows[e.name].status # "completed"
    /\ pc[p] \in {"up", "failing"} =>
          \A e \in plan[p] : IsNext(p, e) => rows[e.name].status = "running"

PlansAgree == \A p \in Procs : PlanAgrees(p)

-----------------------------------------------------------------------------
(* The lock file *)

\* A step of a run that goes on keeps the lock file.
LEMMA GoesOnKeepsLock ==
    ASSUME LockIsRun, pc \in [Procs -> Steps],
           NEW p \in Procs, pc[p] # "idle",
           NEW l \in Steps, l # "idle",
           pc' = [pc EXCEPT ![p] = l], lock' = lock
    PROVE  LockIsRun'
  BY DEF LockIsRun

\* Leaving gives the lock file back, or leaves it to nobody.
LEMMA LeavingFreesLock ==
    ASSUME LockIsRun, pc \in [Procs -> Steps],
           lock \in [Locks -> Procs \union {NoProc, Stale}],
           NEW p \in Procs, pc[p] # "idle",
           NEW x \in {NoProc, Stale},
           pc' = [pc EXCEPT ![p] = "idle"],
           lock' = [lock EXCEPT ![LockOf[p]] = x]
    PROVE  LockIsRun'
  <1> SUFFICES ASSUME NEW q \in Procs
               PROVE  pc'[q] # "idle" <=> lock'[LockOf[q]] = q
    BY DEF LockIsRun
  <1>1. x \notin Procs /\ LockOf[p] \in Locks /\ LockOf[q] \in Locks
    BY MigratorAssumption DEF Locks
  <1>2. lock[LockOf[p]] = p
    BY DEF LockIsRun
  <1>3. CASE q = p
    BY <1>1, <1>3 DEF LockIsRun
  <1>4. CASE q # p /\ LockOf[q] = LockOf[p]
    BY <1>1, <1>2, <1>4 DEF LockIsRun
  <1>5. CASE q # p /\ LockOf[q] # LockOf[p]
    BY <1>1, <1>5 DEF LockIsRun
  <1> QED BY <1>3, <1>4, <1>5

\* The types the lock needs, which hold whoever shares a database.
LockInv ==
    /\ pc \in [Procs -> Steps]
    /\ lock \in [Locks -> Procs \union {NoProc, Stale}]
    /\ LockIsRun

LEMMA LockInvInit == Init => LockInv
  <1> SUFFICES ASSUME Init PROVE LockInv
    OBVIOUS
  <1>1. \A p \in Procs : LockOf[p] \in Locks /\ NoProc # p
    BY MigratorAssumption DEF Locks
  <1> QED BY <1>1 DEF Init, LockInv, LockIsRun, Steps

LEMMA LeavesKeepsLockInv ==
    ASSUME LockInv, NEW p \in Procs, pc[p] # "idle", Leaves(p)
    PROVE  LockInv'
  <1>1. PICK l \in {NoProc, Stale} :
           /\ pc' = [pc EXCEPT ![p] = "idle"]
           /\ lock' = [lock EXCEPT ![LockOf[p]] = l]
    BY DEF Leaves, Goto
  <1>2. LockIsRun'
    BY <1>1, LeavingFreesLock DEF LockInv
  <1> QED BY <1>1, <1>2 DEF LockInv, Steps

LEMMA GoesOnKeepsLockInv ==
    ASSUME LockInv, NEW p \in Procs, pc[p] # "idle",
           NEW l \in Steps, l # "idle",
           pc' = [pc EXCEPT ![p] = l], lock' = lock
    PROVE  LockInv'
  <1>1. LockIsRun'
    BY GoesOnKeepsLock DEF LockInv
  <1> QED BY <1>1 DEF LockInv

LEMMA LockInvNext == LockInv /\ [Next]_vars => LockInv'
  <1> SUFFICES ASSUME LockInv, [Next]_vars PROVE LockInv'
    OBVIOUS
  <1>1. CASE UNCHANGED vars
    BY <1>1 DEF LockInv, LockIsRun, vars, process
  <1>2. ASSUME NEW p \in Procs, NEW o \in Operations, Acquire(p, o) PROVE LockInv'
    <2> DEFINE l == IF o = "fresh" /\ Sqlite THEN "fresh" ELSE "reading"
    <2>1. /\ pc' = [pc EXCEPT ![p] = l]
          /\ lock' = [lock EXCEPT ![LockOf[p]] = p]
          /\ lock[LockOf[p]] = NoProc
      BY <1>2 DEF Acquire, Goto
    <2>2. LockOf[p] \in Locks /\ NoProc \notin Procs
      BY MigratorAssumption DEF Locks
    <2>3. ASSUME NEW q \in Procs PROVE pc'[q] # "idle" <=> lock'[LockOf[q]] = q
      <3>1. LockOf[q] \in Locks
        BY DEF Locks
      <3>2. CASE q = p
        BY <2>1, <2>2, <3>2 DEF LockInv, Steps
      <3>3. CASE q # p /\ LockOf[q] = LockOf[p]
        BY <2>1, <2>2, <3>3 DEF LockInv, LockIsRun
      <3>4. CASE q # p /\ LockOf[q] # LockOf[p]
        BY <2>1, <2>2, <3>1, <3>4 DEF LockInv, LockIsRun
      <3> QED BY <3>2, <3>3, <3>4
    <2> QED BY <2>1, <2>2, <2>3 DEF LockInv, LockIsRun, Steps
  <1>3. ASSUME NEW p \in Procs,
               ListTables(p) \/ DropMigrationsTable(p) \/ DropsEnd(p) \/ ReadTable(p)
        PROVE  LockInv'
    <2>1. PICK l \in Steps \ {"idle"} : pc' = [pc EXCEPT ![p] = l]
      BY <1>3 DEF ListTables, DropMigrationsTable, DropsEnd, ReadTable, Goto, Steps
    <2>2. pc[p] # "idle" /\ lock' = lock
      BY <1>3 DEF ListTables, DropMigrationsTable, DropsEnd, ReadTable
    <2> QED BY <2>1, <2>2, GoesOnKeepsLockInv
  <1>4. ASSUME NEW p \in Procs, NEW e \in plan[p],
               MarkRunning(p, e) \/ Up(p, e) \/ UpFails(p, e)
        PROVE  LockInv'
    <2>1. PICK l \in Steps \ {"idle"} : pc' = [pc EXCEPT ![p] = l]
      BY <1>4 DEF MarkRunning, Up, UpFails, Goto, Steps
    <2>2. pc[p] # "idle" /\ lock' = lock
      BY <1>4 DEF MarkRunning, Up, UpFails
    <2> QED BY <2>1, <2>2, GoesOnKeepsLockInv
  <1>5. ASSUME NEW p \in Procs, NEW e \in plan[p], Down(p, e) \/ DropTable(p, e)
        PROVE  LockInv'
    BY <1>5 DEF Down, DropTable, LockInv, LockIsRun
  <1>6. ASSUME NEW p \in Procs, NEW e \in plan[p], MarkFailed(p, e) \/ DownFails(p, e)
        PROVE  LockInv'
    BY <1>6, LeavesKeepsLockInv DEF MarkFailed, DownFails
  <1>7. ASSUME NEW p \in Procs, Finish(p) \/ QueryFails(p) PROVE LockInv'
    BY <1>7, LeavesKeepsLockInv DEF Finish, QueryFails
  <1>8. ASSUME NEW p \in Procs, Crash(p) PROVE LockInv'
    <2>1. LockIsRun'
      BY <1>8, LeavingFreesLock DEF Crash, Goto, LockInv
    <2> QED BY <1>8, <2>1 DEF Crash, Goto, LockInv, Steps
  <1>9. ASSUME NEW l \in Locks, Unlock(l) \/ AcquireFails(l) PROVE LockInv'
    <2>1. PICK x \in {NoProc, Stale} :
             lock' = [lock EXCEPT ![l] = x] /\ lock[l] \in {NoProc, Stale} /\ pc' = pc
      BY <1>9 DEF Unlock, AcquireFails, process
    <2>2. ASSUME NEW q \in Procs PROVE pc'[q] # "idle" <=> lock'[LockOf[q]] = q
      <3>1. LockOf[q] \in Locks /\ NoProc # q /\ Stale # q
        BY MigratorAssumption DEF Locks
      <3> QED BY <2>1, <3>1 DEF LockInv, LockIsRun
    <2> QED BY <2>1, <2>2 DEF LockInv, LockIsRun
  <1>10. ASSUME NEW r \in Projects, NEW m \in Migrations, AddFile(r, m) PROVE LockInv'
    BY <1>10 DEF AddFile, process, LockInv, LockIsRun
  <1> QED
    BY <1>1, <1>2, <1>3, <1>4, <1>5, <1>6, <1>7, <1>8, <1>9, <1>10
    DEF Next, RunStep, PlanStep

\* A lock file belongs to a run exactly while that run goes on: withLock() and
\* MigrationLock.acquire() exclude runs, and no way out of one is taken for it.
THEOREM RunsExclude == Spec => []LockIsRun
  <1>1. LockInv => LockIsRun
    BY DEF LockInv
  <1> QED BY <1>1, LockInvInit, LockInvNext, PTL DEF Spec

-----------------------------------------------------------------------------
(* Types *)

LEMMA EntryTyped ==
    ASSUME TypeOK, NEW p \in Procs, NEW e \in plan[p]
    PROVE  e.name \in Migrations /\ rows[e.name] \in Row
  <1>1. e \in PlanEntry
    BY DEF TypeOK
  <1> QED BY <1>1 DEF TypeOK, PlanEntry

LEMMA RemovedTyped ==
    ASSUME schema \in Seq(Migrations), NEW k \in DOMAIN schema, schema' = Removed(k)
    PROVE  /\ schema' \in Seq(Migrations)
           /\ InEffect' \subseteq InEffect
           /\ InEffect \ {schema[k]} \subseteq InEffect'
  <1> DEFINE n == Len(schema)
  <1>1. n \in Nat /\ DOMAIN schema = 1..n /\ k \in 1..n
    OBVIOUS
  <1>2. schema' = [i \in 1..(n - 1) |-> IF i < k THEN schema[i] ELSE schema[i + 1]]
    BY DEF Removed
  <1>3. n - 1 \in Nat /\ DOMAIN schema' = 1..(n - 1)
    BY <1>1, <1>2
  <1>4. ASSUME NEW i \in 1..(n - 1)
        PROVE  /\ i < k => i \in 1..n /\ schema'[i] = schema[i]
               /\ ~(i < k) => i + 1 \in 1..n /\ schema'[i] = schema[i + 1]
    BY <1>1, <1>2
  <1>5. schema' \in Seq(Migrations)
    <2>1. \A i \in 1..(n - 1) : schema'[i] \in Migrations
      BY <1>1, <1>4
    <2>2. schema' \in [1..(n - 1) -> Migrations]
      BY <1>2, <2>1
    <2> QED BY <1>3, <2>2
  <1>6. InEffect' \subseteq InEffect
    BY <1>1, <1>3, <1>4 DEF InEffect
  <1>7. InEffect \ {schema[k]} \subseteq InEffect'
    <2> SUFFICES ASSUME NEW j \in 1..n, schema[j] # schema[k]
                 PROVE  \E i \in 1..(n - 1) : schema'[i] = schema[j]
      BY <1>1, <1>3 DEF InEffect
    <2>1. CASE j < k
      <3>1. j \in 1..(n - 1)
        BY <1>1, <2>1
      <3> QED BY <1>4, <2>1, <3>1
    <2>2. CASE j > k
      <3>1. j - 1 \in 1..(n - 1) /\ ~(j - 1 < k) /\ (j - 1) + 1 = j
        BY <1>1, <2>2
      <3> QED BY <1>4, <3>1
    <2> QED BY <1>1, <2>1, <2>2
  <1> QED BY <1>5, <1>6, <1>7

LEMMA LeavesTyped ==
    ASSUME TypeOK, NEW p \in Procs, Leaves(p)
    PROVE  /\ pc' \in [Procs -> Steps]
           /\ plan' \in [Procs -> SUBSET PlanEntry]
           /\ lock' \in [Locks -> Procs \union {NoProc, Stale}]
           /\ op' \in [Procs -> Operations]
           /\ batch' \in [Procs -> Nat]
  BY DEF TypeOK, Leaves, Goto, Steps

\* markStatus() changes the status of a row that exists.
LEMMA MarkedTyped ==
    ASSUME TypeOK, NEW m \in Migrations, NEW s \in Statuses \ {"none"}
    PROVE  /\ Marked(m, s) \in [Migrations -> Row]
           /\ \A n \in Migrations : /\ Marked(m, s)[n].id = rows[n].id
                                    /\ Marked(m, s)[n].batch = rows[n].batch
                                    /\ Marked(m, s)[n].status = "none"
                                          <=> rows[n].status = "none"
           /\ \A n \in Migrations \ {m} : Marked(m, s)[n] = rows[n]
           /\ rows[m].status # "none" => Marked(m, s)[m].status = s
  BY DEF TypeOK, Marked, Row

\* The rows after a step have ids the table has handed out.
IdsHandedOut == \A m \in Migrations : rows[m].status # "none" => rows[m].id \in 1..(nextId - 1)

LEMMA AcquireTyped ==
    ASSUME TypeOK, NEW p \in Procs, NEW o \in Operations, Acquire(p, o)
    PROVE  TypeOK'
  <1>1. /\ lock' = [lock EXCEPT ![LockOf[p]] = p] /\ op' = [op EXCEPT ![p] = o]
        /\ runs' = runs + 1 /\ upsets' \subseteq Upsets
    BY DEF Acquire, Upset, TypeOK, Upsets
  <1>2. lock' \in [Locks -> Procs \union {NoProc, Stale}]
    BY <1>1 DEF TypeOK
  <1>3. op' \in [Procs -> Operations] /\ runs' \in Nat
    BY <1>1 DEF TypeOK
  <1>4. pc' \in [Procs -> Steps]
    BY DEF TypeOK, Acquire, Goto, Steps
  <1> QED BY <1>1, <1>2, <1>3, <1>4 DEF TypeOK, Acquire, database

LEMMA InEffectTyped == ASSUME TypeOK PROVE InEffect \subseteq Migrations
  BY DEF TypeOK, InEffect

LEMMA EntriesTyped ==
    ASSUME TypeOK, NEW S \in SUBSET Migrations
    PROVE  /\ {Entry(m) : m \in S} \in SUBSET PlanEntry
           /\ \A m \in S : Entry(m).name = m
  <1> SUFFICES ASSUME NEW m \in S PROVE Entry(m) \in PlanEntry /\ Entry(m).name = m
    OBVIOUS
  <1>1. m \in Migrations /\ rows[m] \in Row
    BY DEF TypeOK
  <1> QED BY <1>1 DEF Entry, PlanEntry, Row

LEMMA DropTyped ==
    ASSUME TypeOK, NEW p \in Procs,
           ListTables(p) \/ DropMigrationsTable(p) \/ DropsEnd(p)
    PROVE  TypeOK'
  <1>1. CASE ListTables(p)
    <2>1. plan' \in [Procs -> SUBSET PlanEntry]
      BY <1>1, InEffectTyped, EntriesTyped DEF ListTables, TypeOK
    <2>2. pc' \in [Procs -> Steps] /\ upsets' \subseteq Upsets
      BY <1>1 DEF ListTables, TypeOK, Goto, Steps, Upsets
    <2> QED BY <1>1, <2>1, <2>2 DEF ListTables, TypeOK, database
  <1>2. CASE DropMigrationsTable(p)
    BY <1>2 DEF DropMigrationsTable, TypeOK, Goto, Steps, NoRow, Row, Statuses
  <1>3. CASE DropsEnd(p)
    BY <1>3 DEF DropsEnd, TypeOK, Goto, Steps, database
  <1> QED BY <1>1, <1>2, <1>3

LEMMA DropTableTyped ==
    ASSUME TypeOK, NEW p \in Procs, NEW e \in plan[p], DropTable(p, e)
    PROVE  TypeOK'
  <1>1. schema' \in Seq(Migrations)
    BY RemovedTyped DEF DropTable, TypeOK
  <1>2. plan' \in [Procs -> SUBSET PlanEntry]
    BY DEF DropTable, Advance, TypeOK
  <1> QED BY <1>1, <1>2 DEF DropTable, TypeOK

LEMMA ReadTableTyped ==
    ASSUME TypeOK, NEW p \in Procs, ReadTable(p)
    PROVE  TypeOK'
  <1> DEFINE S(last) == IF op[p] \in Undoing THEN ToUndo(op[p], last) ELSE Pending(p)
  <1>1. PICK last \in {rows[m].batch : m \in Completed} \union {0} :
           /\ batch' = [batch EXCEPT ![p] = last + 1]
           /\ plan' = [plan EXCEPT ![p] = {Entry(m) : m \in S(last)}]
    BY DEF ReadTable
  <1>2. last \in Nat
    BY DEF TypeOK, Row, Completed
  <1>3. S(last) \subseteq Migrations
    BY MigratorAssumption DEF ToUndo, Pending, Completed, TypeOK
  <1>4. plan' \in [Procs -> SUBSET PlanEntry] /\ batch' \in [Procs -> Nat]
    BY <1>1, <1>2, <1>3, EntriesTyped DEF TypeOK
  <1>5. upsets' \subseteq Upsets
    BY DEF ReadTable, Upset, Upsets, TypeOK
  <1>6. pc' \in [Procs -> Steps]
    BY DEF ReadTable, TypeOK, Goto, Steps
  <1> QED BY <1>4, <1>5, <1>6 DEF TypeOK, ReadTable, database

LEMMA MarkRunningTyped ==
    ASSUME TypeOK, NEW p \in Procs, NEW e \in plan[p], MarkRunning(p, e)
    PROVE  /\ TypeOK'
           /\ rows'[e.name].status = "running"
           /\ rows'[e.name].batch = batch[p]
           /\ rows'[e.name].id = IF rows[e.name].status = "none" THEN nextId ELSE rows[e.name].id
           /\ \A n \in Migrations \ {e.name} : rows'[n] = rows[n]
  <1> DEFINE m == e.name
  <1>1. m \in Migrations /\ rows[m] \in Row /\ batch[p] \in Nat /\ nextId \in Nat \ {0}
    BY EntryTyped DEF TypeOK
  <1>2. rows' = [rows EXCEPT ![m] = Running(m, batch[p])]
    BY DEF MarkRunning
  <1>3. /\ Running(m, batch[p]) \in Row /\ Running(m, batch[p]).status = "running"
        /\ Running(m, batch[p]).batch = batch[p]
        /\ Running(m, batch[p]).id = IF rows[m].status = "none" THEN nextId ELSE rows[m].id
    BY <1>1 DEF Running, Row, Statuses
  <1>4. /\ nextId' \in Nat \ {0}
        /\ nextId' = IF rows[m].status = "none" THEN nextId + 1 ELSE nextId
    BY <1>1 DEF MarkRunning
  <1>5. rows' \in [Migrations -> Row] /\ rows'[m] = Running(m, batch[p])
        /\ \A n \in Migrations \ {m} : rows'[n] = rows[n]
    BY <1>1, <1>2, <1>3 DEF TypeOK
  <1>6. ASSUME NEW n \in Migrations, rows'[n].status # "none"
        PROVE  rows'[n].id \in 1..(nextId' - 1)
    <2>1. rows[n].status # "none" => rows[n].id \in 1..(nextId - 1)
      BY DEF TypeOK
    <2>2. CASE n # m
      BY <1>1, <1>4, <1>5, <1>6, <2>1, <2>2
    <2>3. CASE n = m
      BY <1>1, <1>3, <1>4, <1>5, <2>1, <2>3
    <2> QED BY <2>2, <2>3
  <1>7. TypeOK'
    BY <1>4, <1>5, <1>6 DEF TypeOK, MarkRunning, Goto, Steps
  <1> QED BY <1>3, <1>5, <1>7

LEMMA UpTyped ==
    ASSUME TypeOK, NEW p \in Procs, NEW e \in plan[p], Up(p, e)
    PROVE  TypeOK'
  <1>1. e.name \in Migrations
    BY EntryTyped
  <1>2. rows' \in [Migrations -> Row] /\ IdsHandedOut'
    <2>1. rows' = Marked(e.name, "completed") /\ nextId' = nextId
      BY DEF Up, UpAndComplete
    <2>2. "completed" \in Statuses \ {"none"}
      BY DEF Statuses
    <2>3. \A n \in Migrations : rows'[n].id = rows[n].id /\ (rows'[n].status = "none" <=> rows[n].status = "none")
      BY <1>1, <2>1, <2>2, MarkedTyped
    <2>4. rows' \in [Migrations -> Row]
      BY <1>1, <2>1, <2>2, MarkedTyped
    <2> QED BY <2>1, <2>3, <2>4 DEF TypeOK, IdsHandedOut
  <1>3. schema' \in Seq(Migrations) /\ plan' \in [Procs -> SUBSET PlanEntry]
    BY <1>1 DEF Up, UpAndComplete, Advance, TypeOK
  <1> QED BY <1>2, <1>3 DEF TypeOK, IdsHandedOut, Up, Goto, Steps

LEMMA MarkFailedTyped ==
    ASSUME TypeOK, NEW p \in Procs, NEW e \in plan[p], MarkFailed(p, e)
    PROVE  TypeOK'
  <1>1. e.name \in Migrations
    BY EntryTyped
  <1>2. rows' \in [Migrations -> Row] /\ IdsHandedOut'
    BY <1>1, MarkedTyped DEF MarkFailed, TypeOK, IdsHandedOut, Statuses
  <1>3. upsets' = upsets
    BY DEF MarkFailed, Leaves
  <1> QED BY <1>2, <1>3, LeavesTyped DEF TypeOK, IdsHandedOut, MarkFailed

LEMMA DownTyped ==
    ASSUME TypeOK, NEW p \in Procs, NEW e \in plan[p], Down(p, e)
    PROVE  TypeOK'
  <1>1. e.name \in Migrations
    BY EntryTyped
  <1>2. rows' \in [Migrations -> Row] /\ IdsHandedOut'
    BY <1>1 DEF Down, TypeOK, IdsHandedOut, NoRow, Row, Statuses
  <1>3. schema' \in Seq(Migrations)
    BY RemovedTyped DEF Down, TypeOK
  <1>4. plan' \in [Procs -> SUBSET PlanEntry]
    BY DEF Down, Advance, TypeOK
  <1> QED BY <1>2, <1>3, <1>4 DEF TypeOK, IdsHandedOut, Down

LEMMA LeavingTyped ==
    ASSUME TypeOK, NEW p \in Procs, NEW e,
           DownFails(p, e) \/ QueryFails(p) \/ Finish(p) \/ Crash(p)
    PROVE  TypeOK'
  <1>1. UNCHANGED <<files, database, runs>> /\ faults' \in Nat /\ upsets' = upsets
    BY DEF DownFails, QueryFails, Finish, Crash, Leaves, Fault, TypeOK
  <1>2. /\ pc' \in [Procs -> Steps]
        /\ plan' \in [Procs -> SUBSET PlanEntry]
        /\ lock' \in [Locks -> Procs \union {NoProc, Stale}]
        /\ op' \in [Procs -> Operations]
        /\ batch' \in [Procs -> Nat]
    <2>1. CASE Leaves(p)
      BY <2>1, LeavesTyped
    <2>2. CASE Crash(p)
      BY <2>2 DEF Crash, Goto, TypeOK, Steps
    <2> QED BY <2>1, <2>2 DEF DownFails, QueryFails, Finish
  <1> QED BY <1>1, <1>2 DEF TypeOK, database

LEMMA OthersTyped ==
    ASSUME TypeOK,
           \/ UNCHANGED vars
           \/ \E l \in Locks : AcquireFails(l) \/ Unlock(l)
           \/ \E r \in Projects, m \in Migrations : AddFile(r, m)
           \/ \E p \in Procs : \E e \in plan[p] : UpFails(p, e)
    PROVE  TypeOK'
  <1>1. CASE UNCHANGED vars
    BY <1>1 DEF TypeOK, vars, database, process
  <1>2. ASSUME NEW l \in Locks, AcquireFails(l) \/ Unlock(l) PROVE TypeOK'
    <2>1. PICK x \in {NoProc, Stale} : lock' = [lock EXCEPT ![l] = x]
      BY <1>2 DEF AcquireFails, Unlock
    <2>2. lock' \in [Locks -> Procs \union {NoProc, Stale}]
      BY <2>1 DEF TypeOK
    <2>3. faults' \in Nat
      BY <1>2 DEF AcquireFails, Unlock, Fault, TypeOK
    <2> QED BY <1>2, <2>2, <2>3 DEF AcquireFails, Unlock, TypeOK, database, process
  <1>3. ASSUME NEW r \in Projects, NEW m \in Migrations, AddFile(r, m) PROVE TypeOK'
    BY <1>3 DEF AddFile, TypeOK, database, process
  <1>4. ASSUME NEW p \in Procs, NEW e \in plan[p], UpFails(p, e) PROVE TypeOK'
    <2>1. faults' \in Nat /\ pc' \in [Procs -> Steps]
      BY <1>4 DEF UpFails, Fault, Goto, TypeOK, Steps
    <2> QED BY <1>4, <2>1 DEF UpFails, TypeOK, database
  <1> QED BY <1>1, <1>2, <1>3, <1>4

LEMMA TypeInit == Init => TypeOK
  BY DEF Init, TypeOK, NoRow, Row, Statuses, Steps, Operations, Undoing

LEMMA TypeNext == TypeOK /\ [Next]_vars => TypeOK'
  BY AcquireTyped, DropTyped, DropTableTyped, ReadTableTyped, MarkRunningTyped, UpTyped,
     MarkFailedTyped, DownTyped, LeavingTyped, OthersTyped
  DEF Next, RunStep, PlanStep

\* The variables keep their types, and the ids of rows were handed out by the
\* migrations table, whatever runs overlap, fail or drop.
THEOREM TypeCorrect == Spec => []TypeOK
  BY TypeInit, TypeNext, PTL DEF Spec

-----------------------------------------------------------------------------
(* One run at a time, and the dropping of the tables *)

Alone == \A p, q \in Procs : p # q => pc[p] = "idle" \/ pc[q] = "idle"

\* A run that drops the tables has on its list all that is still in effect.
Drops(p) ==
    pc[p] \in {"dropping", "dropped"} =>
        /\ "torn" \in upsets
        /\ InEffect \subseteq PlanNames(p)
        /\ pc[p] = "dropped" => \A m \in Migrations : rows[m] = NoRow

DropInv == "overlap" \notin upsets => Alone /\ \A p \in Procs : Drops(p)

\* A step of the run that goes on need only keep its own list.
LEMMA OwnDropsSuffice ==
    ASSUME TypeOK, Alone, NEW p \in Procs, pc[p] # "idle",
           \A q \in Procs \ {p} : pc'[q] = pc[q], Drops(p)'
    PROVE  Alone' /\ \A q \in Procs : Drops(q)'
  <1>1. \A q \in Procs \ {p} : pc'[q] = "idle"
    BY DEF Alone
  <1>2. Alone'
    BY <1>1 DEF Alone
  <1>3. ASSUME NEW q \in Procs, q # p PROVE Drops(q)'
    <2>1. pc'[q] = "idle"
      BY <1>1, <1>3
    <2> QED BY <2>1 DEF Drops
  <1> QED BY <1>2, <1>3

LEMMA DropTableDrops ==
    ASSUME TypeOK, NEW p \in Procs, Drops(p), NEW e \in plan[p], DropTable(p, e)
    PROVE  Drops(p)'
  <1>1. /\ pc[p] \in {"dropping", "dropped"} /\ UNCHANGED <<pc, rows, upsets>>
        /\ "torn" \in upsets /\ InEffect \subseteq PlanNames(p)
        /\ pc[p] = "dropped" => \A m \in Migrations : rows[m] = NoRow
    BY DEF DropTable, Drops
  <1>2. InEffect' \subseteq InEffect
    BY RemovedTyped DEF DropTable, TypeOK, InEffect
  <1>3. InEffect' \subseteq PlanNames(p)'
    <2>1. CASE e.name \in InEffect'
      <3>1. plan' = plan
        BY <2>1 DEF DropTable
      <3> QED BY <1>1, <1>2, <3>1 DEF PlanNames
    <2>2. CASE e.name \notin InEffect'
      <3>1. plan'[p] = {f \in plan[p] : f.name # e.name}
        BY <2>2 DEF DropTable, Advance, TypeOK
      <3> QED BY <1>1, <1>2, <2>2, <3>1 DEF PlanNames
    <2> QED BY <2>1, <2>2
  <1> QED BY <1>1, <1>3 DEF Drops

\* Once the list is empty nothing is in effect, and no row is left.
LEMMA DropsEndEmpty ==
    ASSUME TypeOK, NEW p \in Procs, Drops(p), DropsEnd(p)
    PROVE  /\ UNCHANGED <<schema, rows>>
           /\ schema = <<>>
           /\ \A m \in Migrations : rows[m] = NoRow
  <1>1. InEffect = {} /\ \A m \in Migrations : rows[m] = NoRow
    BY DEF DropsEnd, Drops, PlanNames
  <1>2. schema \in Seq(Migrations)
    BY DEF TypeOK
  <1>5. Len(schema) \in Nat /\ DOMAIN schema = 1..Len(schema)
    BY <1>2
  <1>3. Len(schema) = 0
    <2> SUFFICES ASSUME Len(schema) # 0 PROVE FALSE
      OBVIOUS
    <2>1. 1 \in DOMAIN schema
      BY <1>5
    <2>2. schema[1] \in InEffect
      BY <2>1 DEF InEffect
    <2> QED BY <1>1, <2>2
  <1>4. schema = <<>>
    BY <1>2, <1>3
  <1> QED BY <1>1, <1>4 DEF DropsEnd, database

LEMMA AcquireDrops ==
    ASSUME TypeOK, NEW p \in Procs, NEW o \in Operations, Acquire(p, o)
    PROVE  DropInv'
  <1> SUFFICES ASSUME "overlap" \notin upsets' PROVE Alone' /\ \A q \in Procs : Drops(q)'
    BY DEF DropInv
  <1>1. \A q \in Procs \ {p} : pc[q] = "idle"
    BY DEF Acquire, Upset, OthersIdle
  <1>2. /\ pc'[p] \in {"fresh", "reading"}
        /\ \A q \in Procs \ {p} : pc'[q] = "idle"
    BY <1>1 DEF Acquire, Goto, TypeOK
  <1>3. ASSUME NEW q \in Procs PROVE pc'[q] \notin {"dropping", "dropped"}
    BY <1>2
  <1> QED BY <1>2, <1>3 DEF Alone, Drops

LEMMA ListTablesDrops ==
    ASSUME TypeOK, DropInv, NEW p \in Procs, ListTables(p)
    PROVE  DropInv'
  <1> SUFFICES ASSUME "overlap" \notin upsets' PROVE Alone' /\ \A q \in Procs : Drops(q)'
    BY DEF DropInv
  <1>1. Alone
    <2>1. CASE OthersIdle(p)
      BY <2>1 DEF OthersIdle, Alone
    <2>2. CASE ~OthersIdle(p)
      BY <2>2 DEF ListTables, DropInv
    <2> QED BY <2>1, <2>2
  <1>2. /\ pc[p] = "fresh" /\ pc'[p] = "dropping" /\ \A q \in Procs \ {p} : pc'[q] = pc[q]
        /\ plan'[p] = {Entry(m) : m \in InEffect} /\ UNCHANGED <<rows, schema>>
        /\ "torn" \in upsets'
    BY DEF ListTables, Goto, TypeOK, database
  <1>3. \A m \in InEffect : Entry(m).name = m
    BY InEffectTyped, EntriesTyped
  <1>4. InEffect' \subseteq PlanNames(p)'
    BY <1>2, <1>3 DEF InEffect, PlanNames
  <1>5. Drops(p)'
    BY <1>2, <1>4 DEF Drops
  <1> QED BY <1>1, <1>2, <1>5, OwnDropsSuffice

\* The other steps of a run leave the list, or are not about to drop.
LEMMA RunDrops ==
    ASSUME TypeOK, DropInv, NEW p \in Procs, pc[p] # "idle",
           "overlap" \in upsets => "overlap" \in upsets',
           \A q \in Procs \ {p} : pc'[q] = pc[q],
           pc'[p] \notin {"dropping", "dropped"}
    PROVE  DropInv'
  <1> SUFFICES ASSUME "overlap" \notin upsets' PROVE Alone' /\ \A q \in Procs : Drops(q)'
    BY DEF DropInv
  <1>1. Alone
    BY DEF DropInv
  <1>2. Drops(p)'
    BY DEF Drops
  <1> QED BY <1>1, <1>2, OwnDropsSuffice

LEMMA SameDrops ==
    ASSUME DropInv, UNCHANGED <<pc, upsets, rows, schema, plan>>
    PROVE  DropInv'
  BY DEF DropInv, Alone, Drops, InEffect, PlanNames

LEMMA DropInvInit == Init => DropInv
  BY DEF Init, DropInv, Alone, Drops

LEMMA DropInvNext == TypeOK /\ DropInv /\ [Next]_vars => DropInv'
  <1> SUFFICES ASSUME TypeOK, DropInv, [Next]_vars PROVE DropInv'
    OBVIOUS
  <1>1. CASE UNCHANGED vars
    BY <1>1, SameDrops DEF vars, database, process
  <1>2. ASSUME NEW l \in Locks, AcquireFails(l) \/ Unlock(l) PROVE DropInv'
    BY <1>2, SameDrops DEF AcquireFails, Unlock, database, process
  <1>3. ASSUME NEW r \in Projects, NEW m \in Migrations, AddFile(r, m) PROVE DropInv'
    BY <1>3, SameDrops DEF AddFile, database, process
  <1>4. ASSUME NEW p \in Procs, DropMigrationsTable(p) PROVE DropInv'
    <2>1. /\ pc[p] = "dropping" /\ pc'[p] = "dropped"
          /\ \A q \in Procs \ {p} : pc'[q] = pc[q]
          /\ UNCHANGED <<schema, plan, upsets>> /\ \A m \in Migrations : rows'[m] = NoRow
      BY <1>4 DEF DropMigrationsTable, Goto, TypeOK
    <2>2. Drops(p) => Drops(p)'
      BY <2>1 DEF Drops, InEffect, PlanNames
    <2> QED BY <2>1, <2>2, OwnDropsSuffice DEF DropInv
  <1>5. ASSUME NEW p \in Procs, NEW e \in plan[p], DropTable(p, e) PROVE DropInv'
    <2>1. pc[p] # "idle" /\ pc' = pc /\ upsets' = upsets
      BY <1>5 DEF DropTable
    <2> QED BY <1>5, <2>1, DropTableDrops, OwnDropsSuffice DEF DropInv
  <1>6. ASSUME NEW p \in Procs, DropsEnd(p) \/ ReadTable(p) PROVE DropInv'
    BY <1>6, RunDrops DEF DropsEnd, ReadTable, Upset, Goto, TypeOK
  <1>7. ASSUME NEW p \in Procs, NEW e \in plan[p],
               \/ MarkRunning(p, e) \/ Up(p, e) \/ UpFails(p, e) \/ MarkFailed(p, e)
               \/ Down(p, e) \/ DownFails(p, e)
        PROVE  DropInv'
    <2>1. /\ pc[p] # "idle" /\ upsets' = upsets /\ \A q \in Procs \ {p} : pc'[q] = pc[q]
          /\ pc'[p] \notin {"dropping", "dropped"}
      BY <1>7 DEF MarkRunning, Up, UpFails, MarkFailed, Down, DownFails, Leaves, Goto, TypeOK
    <2> QED BY <2>1, RunDrops
  <1>8. ASSUME NEW p \in Procs, QueryFails(p) \/ Finish(p) \/ Crash(p) PROVE DropInv'
    <2>1. /\ pc[p] # "idle" /\ upsets' = upsets /\ \A q \in Procs \ {p} : pc'[q] = pc[q]
          /\ pc'[p] = "idle"
      BY <1>8 DEF QueryFails, Finish, Crash, Leaves, Goto, TypeOK
    <2> QED BY <2>1, RunDrops
  <1> QED
    BY <1>1, <1>2, <1>3, <1>4, <1>5, <1>6, <1>7, <1>8, AcquireDrops, ListTablesDrops
    DEF Next, RunStep, PlanStep

-----------------------------------------------------------------------------
(* The migrations table *)

Sound == upsets \intersect {"overlap", "torn"} = {}

Agree == Completed = InEffect /\ Once /\ PlansAgree

AgreeInv == Sound => Agree

\* The step of a run that is alone need only keep its own plan in agreement.
LEMMA OwnPlanSuffices ==
    ASSUME Alone, NEW p \in Procs, pc[p] # "idle",
           \A q \in Procs \ {p} : pc'[q] = pc[q], PlanAgrees(p)'
    PROVE  PlansAgree'
  <1> SUFFICES ASSUME NEW q \in Procs, q # p PROVE PlanAgrees(q)'
    BY DEF PlansAgree
  <1>1. pc'[q] = "idle"
    BY DEF Alone
  <1> QED BY <1>1 DEF PlanAgrees

\* A run that is over has no plan to agree with.
LEMMA LeavingSuffices ==
    ASSUME TypeOK, Alone, NEW p \in Procs, pc[p] # "idle",
           pc' = [pc EXCEPT ![p] = "idle"]
    PROVE  PlansAgree'
  <1>1. pc'[p] = "idle" /\ \A q \in Procs \ {p} : pc'[q] = pc[q]
    BY DEF TypeOK
  <1> QED BY <1>1, OwnPlanSuffices DEF PlanAgrees

\* Two entries of a plan that is applied are not both next.
LEMMA NextIsOne ==
    ASSUME TypeOK, NEW p \in Procs, op[p] \notin Undoing,
           NEW e \in plan[p], NEW f \in plan[p], IsNext(p, e), IsNext(p, f)
    PROVE  e.name = f.name
  <1>1. e \in PlanEntry /\ f \in PlanEntry
    BY DEF TypeOK
  <1>2. e.name \in Nat /\ f.name \in Nat
    BY <1>1, MigratorAssumption DEF PlanEntry
  <1>3. e.name <= f.name /\ f.name <= e.name
    BY DEF IsNext
  <1> QED BY <1>2, <1>3

\* Removing the one occurrence of a migration removes it.
LEMMA RemovedTakesOne ==
    ASSUME schema \in Seq(Migrations), Once, NEW k \in DOMAIN schema,
           schema' = Removed(k)
    PROVE  Once' /\ InEffect' = InEffect \ {schema[k]}
  <1> DEFINE n == Len(schema)
  <1>1. n \in Nat /\ DOMAIN schema = 1..n /\ k \in 1..n
    OBVIOUS
  <1>2. schema' = [i \in 1..(n - 1) |-> IF i < k THEN schema[i] ELSE schema[i + 1]]
    BY DEF Removed
  <1>3. n - 1 \in Nat /\ DOMAIN schema' = 1..(n - 1)
    BY <1>1, <1>2
  <1>4. ASSUME NEW i \in 1..(n - 1)
        PROVE  /\ i < k => i \in 1..n /\ schema'[i] = schema[i]
               /\ ~(i < k) => i + 1 \in 1..n /\ schema'[i] = schema[i + 1]
    BY <1>1, <1>2
  <1>5. Once'
    <2> SUFFICES ASSUME NEW i \in 1..(n - 1), NEW j \in 1..(n - 1), schema'[i] = schema'[j]
                 PROVE  i = j
      BY <1>3 DEF Once
    <2> QED BY <1>1, <1>4 DEF Once
  <1>6. schema[k] \notin InEffect'
    <2> SUFFICES ASSUME NEW i \in 1..(n - 1), schema'[i] = schema[k] PROVE FALSE
      BY <1>3 DEF InEffect
    <2>1. CASE i < k
      BY <1>1, <1>4, <2>1 DEF Once
    <2>2. CASE ~(i < k)
      <3>1. i + 1 \in 1..n /\ schema'[i] = schema[i + 1] /\ i + 1 # k
        BY <1>1, <1>4, <2>2
      <3> QED BY <1>1, <3>1 DEF Once
    <2> QED BY <2>1, <2>2
  <1> QED BY <1>5, <1>6, RemovedTyped

\* Appending a migration that is not in effect puts it in effect once.
LEMMA AppendedOnce ==
    ASSUME schema \in Seq(Migrations), Once, NEW m \in Migrations,
           m \notin InEffect, schema' = Append(schema, m)
    PROVE  /\ schema' \in Seq(Migrations)
           /\ Once'
           /\ InEffect' = InEffect \union {m}
  <1> DEFINE n == Len(schema)
  <1>1. n \in Nat /\ DOMAIN schema = 1..n
    OBVIOUS
  <1>2. /\ schema' \in Seq(Migrations)
        /\ DOMAIN schema' = 1..(n + 1)
        /\ schema'[n + 1] = m
        /\ \A i \in 1..n : schema'[i] = schema[i]
    BY <1>1
  <1>3. Once'
    <2> SUFFICES ASSUME NEW i \in 1..(n + 1), NEW j \in 1..(n + 1), schema'[i] = schema'[j]
                 PROVE  i = j
      BY <1>2 DEF Once
    <2>1. \A x \in 1..n : schema[x] # m
      BY <1>1 DEF InEffect
    <2>2. (i \in 1..n \/ i = n + 1) /\ (j \in 1..n \/ j = n + 1)
      BY <1>1
    <2>3. CASE i \in 1..n /\ j \in 1..n
      BY <1>1, <1>2, <2>3 DEF Once
    <2> QED BY <1>2, <2>1, <2>2, <2>3
  <1>4. InEffect' = InEffect \union {m}
    <2>1. ASSUME NEW x \in InEffect' PROVE x \in InEffect \union {m}
      <3>1. PICK i \in 1..(n + 1) : schema'[i] = x
        BY <1>2 DEF InEffect
      <3>2. i \in 1..n \/ i = n + 1
        BY <1>1
      <3> QED BY <1>1, <1>2, <3>1, <3>2 DEF InEffect
    <2>2. ASSUME NEW x \in InEffect PROVE x \in InEffect'
      <3>1. PICK i \in 1..n : schema[i] = x
        BY <1>1 DEF InEffect
      <3>2. i \in DOMAIN schema' /\ schema'[i] = x
        BY <1>1, <1>2, <3>1
      <3> QED BY <3>2 DEF InEffect
    <2>3. m \in InEffect'
      BY <1>1, <1>2 DEF InEffect
    <2> QED BY <2>1, <2>2, <2>3
  <1> QED BY <1>2, <1>3, <1>4

LEMMA AgreeInit == Init => AgreeInv
  <1> SUFFICES ASSUME Init PROVE Agree
    BY DEF AgreeInv
  <1>1. Completed = {} /\ InEffect = {} /\ Once
    BY DEF Init, Completed, InEffect, NoRow, Once
  <1>2. PlansAgree
    BY DEF Init, PlansAgree, PlanAgrees
  <1> QED BY <1>1, <1>2 DEF Agree

\* Steps that leave the table and the schema alone.
LEMMA TableUntouched ==
    ASSUME Agree, UNCHANGED <<rows, schema>>
    PROVE  Completed' = InEffect' /\ Once'
  BY DEF Agree, Once, Completed, InEffect

LEMMA AcquireAgrees ==
    ASSUME TypeOK, Agree, NEW p \in Procs, NEW o \in Operations, Acquire(p, o), Sound'
    PROVE  Agree'
  <1>1. \A q \in Procs \ {p} : pc[q] = "idle"
    BY DEF Acquire, Upset, OthersIdle, Sound
  <1>2. ASSUME NEW q \in Procs PROVE pc'[q] \in {"idle", "fresh", "reading"}
    BY <1>1 DEF Acquire, Goto, TypeOK
  <1>3. PlansAgree'
    BY <1>2 DEF PlansAgree, PlanAgrees
  <1> QED BY <1>3, TableUntouched DEF Agree, Acquire, database

LEMMA DropsEndAgrees ==
    ASSUME TypeOK, Alone, NEW p \in Procs, Drops(p), DropsEnd(p)
    PROVE  Agree'
  <1>1. UNCHANGED <<schema, rows>> /\ schema = <<>> /\ \A m \in Migrations : rows[m] = NoRow
    BY DropsEndEmpty
  <1>2. Completed' = {} /\ InEffect' = {} /\ Once'
    BY <1>1 DEF Completed, InEffect, NoRow, Once
  <1>3. pc[p] # "idle" /\ pc'[p] = "reading" /\ \A q \in Procs \ {p} : pc'[q] = pc[q]
    BY DEF DropsEnd, Goto, TypeOK
  <1>4. PlansAgree'
    BY <1>3, OwnPlanSuffices DEF PlanAgrees
  <1> QED BY <1>2, <1>4 DEF Agree

LEMMA ReadTableAgrees ==
    ASSUME TypeOK, Alone, Agree, NEW p \in Procs, ReadTable(p)
    PROVE  Agree'
  <1> DEFINE S(last) == IF op[p] \in Undoing THEN ToUndo(op[p], last) ELSE Pending(p)
  <1>1. PICK last \in {rows[m].batch : m \in Completed} \union {0} :
           plan' = [plan EXCEPT ![p] = {Entry(m) : m \in S(last)}]
    BY DEF ReadTable
  <1>2. S(last) \subseteq Migrations
    BY MigratorAssumption DEF ToUndo, Pending, Completed, TypeOK
  <1>3. \A m \in S(last) : Entry(m).name = m
    BY <1>2, EntriesTyped
  <1>4. PlanAgrees(p)'
    <2>1. plan'[p] = {Entry(m) : m \in S(last)}
      BY <1>1 DEF TypeOK
    <2>2. /\ pc'[p] = IF op[p] \in Undoing THEN "undoing" ELSE "applying"
          /\ op' = op /\ rows' = rows
      BY DEF ReadTable, Goto, TypeOK, database
    <2>3. CASE op[p] \in Undoing
      <3>1. \A m \in S(last) : rows[m].status = "completed"
        BY <2>3 DEF ToUndo, Completed
      <3> QED BY <1>3, <2>1, <2>2, <2>3, <3>1 DEF PlanAgrees
    <2>4. CASE op[p] \notin Undoing
      <3>1. \A m \in S(last) : rows[m].status # "completed"
        BY <2>4 DEF Pending
      <3> QED BY <1>3, <2>1, <2>2, <2>4, <3>1 DEF PlanAgrees
    <2> QED BY <2>3, <2>4
  <1>5. pc[p] # "idle" /\ \A q \in Procs \ {p} : pc'[q] = pc[q]
    BY DEF ReadTable, Goto, TypeOK
  <1>6. PlansAgree'
    BY <1>4, <1>5, OwnPlanSuffices
  <1> QED BY <1>6, TableUntouched DEF Agree, ReadTable, database

LEMMA MarkRunningAgrees ==
    ASSUME TypeOK, Alone, Agree, NEW p \in Procs, NEW e \in plan[p],
           IsNext(p, e), MarkRunning(p, e)
    PROVE  Agree'
  <1> DEFINE m == e.name
  <1>1. /\ m \in Migrations /\ rows'[m].status = "running"
        /\ \A n \in Migrations \ {m} : rows'[n] = rows[n]
    BY EntryTyped, MarkRunningTyped
  <1>2. rows[m].status # "completed" /\ op[p] \notin Undoing
    BY DEF Agree, PlansAgree, PlanAgrees, MarkRunning
  <1>3. \A n \in Migrations : rows'[n].status = "completed" <=> rows[n].status = "completed"
    BY <1>1, <1>2
  <1>4. Completed' = InEffect' /\ Once'
    BY <1>3 DEF MarkRunning, Agree, Completed, InEffect, Once
  <1>5. PlanAgrees(p)'
    <2>1. pc'[p] = "up" /\ plan' = plan /\ op' = op
      BY DEF MarkRunning, Goto, TypeOK
    <2>2. \A f \in plan[p] : rows'[f.name].status # "completed"
      BY <1>3, EntryTyped DEF Agree, PlansAgree, PlanAgrees, MarkRunning
    <2>3. ASSUME NEW f \in plan[p], IsNext(p, f)'
          PROVE  rows'[f.name].status = "running"
      <3>1. IsNext(p, f)
        BY <2>1, <2>3 DEF IsNext, ComesLast, Before
      <3>2. f.name = m
        BY <1>2, <3>1, NextIsOne
      <3> QED BY <1>1, <3>2
    <2> QED BY <1>2, <2>1, <2>2, <2>3 DEF PlanAgrees
  <1>6. pc[p] # "idle" /\ \A q \in Procs \ {p} : pc'[q] = pc[q]
    BY DEF MarkRunning, Goto, TypeOK
  <1> QED BY <1>4, <1>5, <1>6, OwnPlanSuffices DEF Agree

\* What a migration's completion does to the table and to the schema.
LEMMA UpEffect ==
    ASSUME TypeOK, Agree, NEW p \in Procs, NEW e \in plan[p], IsNext(p, e), Up(p, e)
    PROVE  /\ e.name \in Migrations /\ rows[e.name].status = "running"
           /\ op[p] \notin Undoing /\ e.name \notin InEffect
           /\ schema' = Append(schema, e.name)
           /\ rows'[e.name].status = "completed"
           /\ \A n \in Migrations : /\ rows'[n].id = rows[n].id
                                    /\ rows'[n].batch = rows[n].batch
                                    /\ rows'[n].status = "none" <=> rows[n].status = "none"
           /\ \A n \in Migrations \ {e.name} : rows'[n] = rows[n]
           /\ Completed' = Completed \union {e.name}
           /\ plan'[p] = {f \in plan[p] : f.name # e.name}
  <1> DEFINE m == e.name
  <1>1. m \in Migrations
    BY EntryTyped
  <1>2. rows' = Marked(m, "completed") /\ schema' = Append(schema, m)
    BY DEF Up, UpAndComplete
  <1>3. rows[m].status = "running" /\ op[p] \notin Undoing
    BY DEF Up, Agree, PlansAgree, PlanAgrees
  <1>4. m \notin InEffect
    BY <1>3 DEF Agree, Completed
  <1>5. "completed" \in Statuses \ {"none"}
    BY DEF Statuses
  <1>6. /\ \A n \in Migrations : /\ rows'[n].id = rows[n].id
                                 /\ rows'[n].batch = rows[n].batch
                                 /\ rows'[n].status = "none" <=> rows[n].status = "none"
        /\ \A n \in Migrations \ {m} : rows'[n] = rows[n]
        /\ rows'[m].status = "completed"
    BY <1>1, <1>2, <1>3, <1>5, MarkedTyped
  <1>7. Completed' = Completed \union {m}
    BY <1>1, <1>6 DEF Completed
  <1>8. plan'[p] = {f \in plan[p] : f.name # m}
    BY DEF Up, Advance, TypeOK
  <1> QED BY <1>1, <1>2, <1>3, <1>4, <1>6, <1>7, <1>8

LEMMA UpAgrees ==
    ASSUME TypeOK, Alone, Agree, NEW p \in Procs, NEW e \in plan[p],
           IsNext(p, e), Up(p, e)
    PROVE  Agree'
  <1> DEFINE m == e.name
  <1>1. Once' /\ InEffect' = InEffect \union {m}
    BY UpEffect, AppendedOnce DEF Agree, TypeOK
  <1>2. Completed' = InEffect'
    BY <1>1, UpEffect DEF Agree
  <1>3. PlanAgrees(p)'
    <2>1. pc'[p] = "applying" /\ op' = op /\ plan'[p] = {f \in plan[p] : f.name # m}
      BY UpEffect DEF Up, Goto, TypeOK
    <2>2. ASSUME NEW f \in plan[p], f.name # m PROVE rows'[f.name].status # "completed"
      <3>1. rows'[f.name] = rows[f.name]
        BY <2>2, UpEffect, EntryTyped
      <3> QED BY <3>1 DEF Agree, PlansAgree, PlanAgrees, Up
    <2> QED BY <2>1, <2>2, UpEffect DEF PlanAgrees
  <1>4. pc[p] # "idle" /\ \A q \in Procs \ {p} : pc'[q] = pc[q]
    BY DEF Up, Goto, TypeOK
  <1> QED BY <1>1, <1>2, <1>3, <1>4, OwnPlanSuffices DEF Agree

LEMMA UpFailsAgrees ==
    ASSUME TypeOK, Alone, Agree, NEW p \in Procs, NEW e \in plan[p], UpFails(p, e)
    PROVE  Agree'
  <1>1. PlanAgrees(p)'
    <2>1. /\ pc[p] = "up" /\ pc'[p] = "failing"
          /\ UNCHANGED <<op, plan, rows>>
      BY DEF UpFails, Goto, TypeOK, database
    <2>2. \A f \in plan[p] : IsNext(p, f)' => IsNext(p, f)
      BY <2>1 DEF IsNext, ComesLast, Before
    <2> QED BY <2>1, <2>2 DEF Agree, PlansAgree, PlanAgrees
  <1>2. pc[p] # "idle" /\ \A q \in Procs \ {p} : pc'[q] = pc[q]
    BY DEF UpFails, Goto, TypeOK
  <1>3. PlansAgree'
    BY <1>1, <1>2, OwnPlanSuffices
  <1> QED BY <1>3, TableUntouched DEF Agree, UpFails, database

LEMMA MarkFailedEffect ==
    ASSUME TypeOK, Agree, NEW p \in Procs, NEW e \in plan[p],
           IsNext(p, e), MarkFailed(p, e)
    PROVE  /\ Completed' = Completed
           /\ \A n \in Migrations : rows'[n].id = rows[n].id /\ rows'[n].batch = rows[n].batch
  <1> DEFINE m == e.name
  <1>1. m \in Migrations
    BY EntryTyped
  <1>2. rows' = Marked(m, "failed") /\ rows[m].status = "running"
    BY DEF MarkFailed, Agree, PlansAgree, PlanAgrees
  <1>3. "failed" \in Statuses \ {"none"}
    BY DEF Statuses
  <1>4. /\ \A n \in Migrations : rows'[n].id = rows[n].id /\ rows'[n].batch = rows[n].batch
        /\ \A n \in Migrations \ {m} : rows'[n] = rows[n]
        /\ rows'[m].status = "failed"
    BY <1>1, <1>2, <1>3, MarkedTyped
  <1> QED BY <1>1, <1>2, <1>4 DEF Completed

LEMMA MarkFailedAgrees ==
    ASSUME TypeOK, Alone, Agree, NEW p \in Procs, NEW e \in plan[p],
           IsNext(p, e), MarkFailed(p, e)
    PROVE  Agree'
  <1>1. Completed' = InEffect' /\ Once'
    BY MarkFailedEffect DEF MarkFailed, Agree, Once, InEffect
  <1>2. pc[p] # "idle" /\ pc' = [pc EXCEPT ![p] = "idle"]
    BY DEF MarkFailed, Leaves, Goto
  <1> QED BY <1>1, <1>2, LeavingSuffices DEF Agree

\* What undoing a migration does to the table and to the schema.
LEMMA DownEffect ==
    ASSUME TypeOK, Agree, NEW p \in Procs, NEW e \in plan[p], Down(p, e)
    PROVE  /\ e.name \in Migrations
           /\ rows'[e.name].status = "none"
           /\ \A n \in Migrations \ {e.name} : rows'[n] = rows[n]
           /\ Completed' = Completed \ {e.name}
           /\ Once' /\ InEffect' = InEffect \ {e.name}
           /\ plan'[p] = {f \in plan[p] : f.name # e.name}
  <1> DEFINE m == e.name
  <1>1. m \in Migrations /\ rows' = [rows EXCEPT ![m] = NoRow]
    BY EntryTyped DEF Down
  <1>2. PICK k \in DOMAIN schema : schema[k] = m /\ schema' = Removed(k)
    BY DEF Down
  <1>3. Once' /\ InEffect' = InEffect \ {m}
    BY <1>2, RemovedTakesOne DEF Agree, TypeOK
  <1>4. rows'[m].status = "none" /\ \A n \in Migrations \ {m} : rows'[n] = rows[n]
    BY <1>1 DEF TypeOK, NoRow
  <1>5. Completed' = Completed \ {m}
    BY <1>1, <1>4 DEF Completed
  <1>6. plan'[p] = {f \in plan[p] : f.name # m}
    BY DEF Down, Advance, TypeOK
  <1> QED BY <1>1, <1>3, <1>4, <1>5, <1>6

LEMMA DownAgrees ==
    ASSUME TypeOK, Alone, Agree, NEW p \in Procs, NEW e \in plan[p], Down(p, e)
    PROVE  Agree'
  <1> DEFINE m == e.name
  <1>1. Completed' = InEffect' /\ Once'
    BY DownEffect DEF Agree
  <1>2. PlanAgrees(p)'
    <2>1. pc[p] = "undoing" /\ pc' = pc /\ plan'[p] = {f \in plan[p] : f.name # m}
      BY DownEffect DEF Down
    <2>2. ASSUME NEW f \in plan[p], f.name # m PROVE rows'[f.name].status = "completed"
      <3>1. rows'[f.name] = rows[f.name]
        BY <2>2, DownEffect, EntryTyped
      <3> QED BY <2>1, <3>1 DEF Agree, PlansAgree, PlanAgrees
    <2> QED BY <2>1, <2>2 DEF PlanAgrees
  <1>3. pc[p] # "idle" /\ \A q \in Procs \ {p} : pc'[q] = pc[q]
    BY DEF Down
  <1> QED BY <1>1, <1>2, <1>3, OwnPlanSuffices DEF Agree

\* Ways out of a run that leave the table and the schema alone.
LEMMA LeavingAgrees ==
    ASSUME TypeOK, Alone, Agree, NEW p \in Procs, NEW e,
           DownFails(p, e) \/ QueryFails(p) \/ Finish(p) \/ Crash(p)
    PROVE  Agree'
  <1>1. /\ pc[p] # "idle" /\ pc' = [pc EXCEPT ![p] = "idle"]
        /\ UNCHANGED <<rows, schema>>
    BY DEF DownFails, QueryFails, Finish, Crash, Leaves, Goto, database
  <1> QED BY <1>1, LeavingSuffices, TableUntouched DEF Agree

LEMMA SameAgrees ==
    ASSUME Agree, UNCHANGED <<rows, schema, pc, op, plan>>
    PROVE  Agree'
  <1>1. PlansAgree'
    BY DEF Agree, PlansAgree, PlanAgrees, IsNext, ComesLast, Before
  <1> QED BY <1>1, TableUntouched DEF Agree

LEMMA AgreeNext ==
    ASSUME TypeOK, DropInv, AgreeInv, [Next]_vars
    PROVE  AgreeInv'
  <1> SUFFICES ASSUME Sound' PROVE Agree'
    BY DEF AgreeInv
  <1>1. ASSUME NEW p \in Procs, ListTables(p) PROVE FALSE
    BY <1>1 DEF ListTables, Sound
  <1>2. CASE \E p \in Procs : DropsEnd(p)
    <2>1. PICK p \in Procs : DropsEnd(p)
      BY <1>2
    <2>2. "overlap" \notin upsets
      BY <2>1 DEF DropsEnd, Sound
    <2> QED BY <2>1, <2>2, DropsEndAgrees DEF DropInv
  <1>3. CASE ~ \E p \in Procs : DropsEnd(p)
    <2>1. Sound
      <3>1. upsets \subseteq upsets'
        BY <1>1, <1>3 DEF Next, RunStep, PlanStep, Acquire, Upset, DropMigrationsTable, DropTable,
              ReadTable, MarkRunning, Up, UpFails, MarkFailed, Down, DownFails, QueryFails,
              Finish, Crash, Leaves, AcquireFails, Unlock, AddFile, vars
      <3> QED BY <3>1 DEF Sound
    <2>2. Agree /\ Alone /\ \A p \in Procs : Drops(p)
      BY <2>1 DEF AgreeInv, DropInv, Sound
    <2>3. ASSUME NEW p \in Procs, pc[p] \in {"dropping", "dropped"} PROVE FALSE
      BY <2>1, <2>2, <2>3 DEF Drops, Sound
    <2>4. ASSUME NEW p \in Procs, DropMigrationsTable(p) \/ \E e \in plan[p] : DropTable(p, e)
          PROVE  FALSE
      BY <2>3, <2>4 DEF DropMigrationsTable, DropTable
    <2>5. CASE UNCHANGED vars
      BY <2>2, <2>5, SameAgrees DEF vars, database, process
    <2>6. ASSUME NEW l \in Locks, AcquireFails(l) \/ Unlock(l) PROVE Agree'
      BY <2>2, <2>6, SameAgrees DEF AcquireFails, Unlock, database, process
    <2>7. ASSUME NEW r \in Projects, NEW m \in Migrations, AddFile(r, m) PROVE Agree'
      BY <2>2, <2>7, SameAgrees DEF AddFile, database, process
    <2> QED
      BY <1>1, <1>3, <2>2, <2>4, <2>5, <2>6, <2>7, AcquireAgrees, ReadTableAgrees,
         MarkRunningAgrees, UpAgrees, UpFailsAgrees, MarkFailedAgrees, DownAgrees, LeavingAgrees
      DEF Next, RunStep, PlanStep
  <1> QED BY <1>2, <1>3

RecordsInv == TypeOK /\ DropInv /\ AgreeInv

LEMMA RecordsInvInit == Init => RecordsInv
  BY TypeInit, DropInvInit, AgreeInit DEF RecordsInv

LEMMA RecordsInvNext == RecordsInv /\ [Next]_vars => RecordsInv'
  BY TypeNext, DropInvNext, AgreeNext DEF RecordsInv

\* The migrations table agrees with the schema at every moment, whatever fails or
\* dies, unless runs from different roots overlapped or a fresh() was cut off among
\* its DROPs; and again from the end of the next fresh() that runs alone.
THEOREM TableTellsTruth == Spec => []RecordsAgree
  <1>1. RecordsInv => RecordsAgree
    BY DEF RecordsInv, AgreeInv, Agree, Sound, RecordsAgree
  <1> QED BY <1>1, RecordsInvInit, RecordsInvNext, PTL DEF Spec

-----------------------------------------------------------------------------
(* The order of migrations *)

\* The order rows are undone in, backwards.
Precedes(rs, m, n) == \/ rs[m].batch < rs[n].batch
                      \/ rs[m].batch = rs[n].batch /\ rs[m].id < rs[n].id
Earlier(m, n) == Precedes(rows, m, n)

Clashes(k, n) == n # k /\ <<k, n>> \in Collides

\* Rows tell the order of application.
Ordered == \A i, j \in DOMAIN schema : i < j => Earlier(schema[i], schema[j])

\* In the order of their names, the entries that have a row come first, and their
\* ids ascend after those of what the run has applied.
IdsAscend(p) ==
    /\ \A e \in plan[p], c \in Completed :
          rows[c].batch = batch[p] /\ rows[e.name].status # "none" =>
              rows[c].id < rows[e.name].id
    /\ \A e, f \in plan[p] :
          e.name < f.name /\ rows[f.name].status # "none" =>
              rows[e.name].status # "none" /\ rows[e.name].id < rows[f.name].id

\* A run that applies: nothing of its plan collides with what is in effect or
\* with the rest of it, and what it applies comes after all that completed.
Applies(p) ==
    /\ \A e \in plan[p], c \in Completed : ~Clashes(e.name, c)
    /\ \A e, f \in plan[p] : ~Clashes(e.name, f.name)
    /\ \A c \in Completed : rows[c].batch <= batch[p]
    /\ IdsAscend(p)
    /\ pc[p] = "up" => \A e \in plan[p] : IsNext(p, e) => rows[e.name].batch = batch[p]

\* A run that undoes: what was applied after a migration of its plan is in it.
Undoes(p) ==
    /\ op[p] \in Undoing
    /\ \A e \in plan[p] : e = Entry(e.name)
    /\ \A e \in plan[p], c \in Completed : Before(e, Entry(c)) => Entry(c) \in plan[p]

RunOrdered(p) ==
    /\ pc[p] \in {"applying", "up"} => Applies(p)
    /\ pc[p] = "undoing" => Undoes(p)

RunsOrdered == \A p \in Procs : RunOrdered(p)

Order == Ordered /\ RunsOrdered

OrderInv == upsets = {} => Order

LEMMA OrderInit == Init => OrderInv
  BY DEF Init, OrderInv, Order, Ordered, RunsOrdered, RunOrdered

\* One run at a time: the others have nothing to keep in order.
LEMMA OwnOrderSuffices ==
    ASSUME Alone, NEW p \in Procs, pc[p] # "idle",
           \A q \in Procs \ {p} : pc'[q] = pc[q], RunOrdered(p)'
    PROVE  RunsOrdered'
  <1> SUFFICES ASSUME NEW q \in Procs, q # p PROVE RunOrdered(q)'
    BY DEF RunsOrdered
  <1>1. pc'[q] = "idle"
    BY DEF Alone
  <1> QED BY <1>1 DEF RunOrdered

\* Steps that leave table and schema alone.
LEMMA SameTable ==
    ASSUME Ordered, UNCHANGED <<rows, schema>>
    PROVE  Ordered'
  BY DEF Ordered, Earlier, Precedes

LEMMA SameOrder ==
    ASSUME Order, UNCHANGED <<rows, schema, pc, op, batch, plan>>
    PROVE  Order'
  <1>1. RunsOrdered'
    BY DEF Order, RunsOrdered, RunOrdered, Applies, IdsAscend, Undoes, Completed, Entry,
           Before, IsNext, ComesLast
  <1> QED BY <1>1, SameTable DEF Order

LEMMA AcquireOrder ==
    ASSUME TypeOK, Order, NEW p \in Procs, NEW o \in Operations, Acquire(p, o), upsets' = {}
    PROVE  Order'
  <1>1. \A q \in Procs \ {p} : pc[q] = "idle"
    BY DEF Acquire, Upset, OthersIdle
  <1>2. ASSUME NEW q \in Procs PROVE pc'[q] \in {"idle", "fresh", "reading"}
    BY <1>1 DEF Acquire, Goto, TypeOK
  <1>3. RunsOrdered'
    BY <1>2 DEF RunsOrdered, RunOrdered
  <1> QED BY <1>3, SameTable DEF Order, Acquire, database

LEMMA DropsEndOrder ==
    ASSUME TypeOK, Alone, NEW p \in Procs, Drops(p), DropsEnd(p)
    PROVE  Order'
  <1>1. schema' = <<>>
    BY DropsEndEmpty
  <1>2. Ordered'
    BY <1>1 DEF Ordered
  <1>3. pc[p] # "idle" /\ pc'[p] = "reading" /\ \A q \in Procs \ {p} : pc'[q] = pc[q]
    BY DEF DropsEnd, Goto, TypeOK
  <1>4. RunsOrdered'
    BY <1>3, OwnOrderSuffices DEF RunOrdered
  <1> QED BY <1>2, <1>4 DEF Order

LEMMA ReadTableOrder ==
    ASSUME TypeOK, Alone, Order, NEW p \in Procs, ReadTable(p), upsets' = {}
    PROVE  Order'
  <1> DEFINE S(last) == IF op[p] \in Undoing THEN ToUndo(op[p], last) ELSE Pending(p)
  <1>1. PICK last \in {rows[m].batch : m \in Completed} \union {0} :
           /\ IsLastBatch(last)
           /\ batch' = [batch EXCEPT ![p] = last + 1]
           /\ plan' = [plan EXCEPT ![p] = {Entry(m) : m \in S(last)}]
           /\ Upset({w \in {"kept", "clash"} :
                        /\ op[p] \notin Undoing
                        /\ IF w = "kept" THEN Kept(S(last)) ELSE Clash(S(last))})
    BY DEF ReadTable
  <1>2. /\ UNCHANGED <<rows, schema, op>> /\ pc[p] = "reading"
        /\ pc'[p] = IF op[p] \in Undoing THEN "undoing" ELSE "applying"
        /\ \A q \in Procs \ {p} : pc'[q] = pc[q]
    BY DEF ReadTable, Goto, TypeOK, database
  <1>4. S(last) \subseteq Migrations
    BY MigratorAssumption DEF ToUndo, Pending, Completed, TypeOK
  <1>5. /\ last \in Nat /\ \A c \in Completed : rows[c].batch \in Nat /\ rows[c].batch <= last
        /\ batch'[p] = last + 1 /\ plan'[p] = {Entry(m) : m \in S(last)}
    BY <1>1 DEF IsLastBatch, TypeOK, Row, Completed
  <1>6. Completed' = Completed /\ \A m : Entry(m)' = Entry(m)
    BY <1>2 DEF Completed, Entry
  <1>7. \A m : Entry(m).name = m
    BY DEF Entry
  <1>8. op[p] \notin Undoing => ~Kept(S(last)) /\ ~Clash(S(last))
    BY <1>1 DEF Upset
  <1> HIDE DEF S
  <1>9. RunOrdered(p)'
    <2>1. CASE op[p] \in Undoing
      <3>1. S(last) = ToUndo(op[p], last)
        BY <2>1 DEF S
      <3>2. \A e \in plan'[p] : e = Entry(e.name)
        BY <1>5, <1>7
      <3>3. ASSUME NEW e \in plan'[p], NEW c \in Completed, Before(e, Entry(c))
            PROVE  Entry(c) \in plan'[p]
        <4>1. PICK m \in Migrations : m \in S(last) /\ e = Entry(m)
          BY <1>4, <1>5
        <4>2. rows[m].batch \in Nat /\ rows[c].batch \in Nat
          BY DEF TypeOK, Row, Completed
        <4>3. rows[m].batch <= rows[c].batch
          BY <3>3, <4>1, <4>2 DEF Before, Entry
        <4>4. MinBatch(op[p], last) \in Nat
          BY <1>5, <2>1 DEF MinBatch, Undoing
        <4>5. rows[m].batch >= MinBatch(op[p], last)
          BY <3>1, <4>1 DEF ToUndo
        <4>6. rows[c].batch >= MinBatch(op[p], last)
          BY <4>2, <4>3, <4>4, <4>5
        <4>7. c \in ToUndo(op[p], last)
          BY <4>6 DEF ToUndo
        <4> QED BY <1>5, <3>1, <4>7
      <3>4. Undoes(p)'
        BY <1>2, <1>6, <2>1, <3>2, <3>3 DEF Undoes, Before
      <3> QED BY <1>2, <2>1, <3>4 DEF RunOrdered
    <2>2. CASE op[p] \notin Undoing
      <3>1. S(last) = Pending(p) /\ ~Kept(S(last)) /\ ~Clash(S(last))
        BY <1>8, <2>2 DEF S
      <3>2. \A e \in plan'[p] : e.name \in S(last) /\ e.name \in Migrations
        BY <1>4, <1>5, <1>7
      <3>3. \A e \in plan'[p], c \in Completed : ~Clashes(e.name, c)
        BY <3>1, <3>2 DEF Pending, Clashes, Completed
      <3>4. \A e, f \in plan'[p] : ~Clashes(e.name, f.name)
        BY <3>1, <3>2 DEF Clash, Clashes
      <3>5. \A c \in Completed : rows[c].batch <= batch'[p] /\ rows[c].batch # batch'[p]
        BY <1>5
      <3>6. ASSUME NEW e \in plan'[p], NEW f \in plan'[p],
                   e.name < f.name, rows[f.name].status # "none"
            PROVE  rows[e.name].status # "none" /\ rows[e.name].id < rows[f.name].id
        <4>1. /\ rows[e.name].status # "none"
              /\ ~(rows[e.name].id >= rows[f.name].id)
          BY <3>1, <3>2, <3>6 DEF Kept
        <4>2. rows[e.name].id \in Nat /\ rows[f.name].id \in Nat
          BY <3>2 DEF TypeOK, Row
        <4> QED BY <4>1, <4>2
      <3>7. IdsAscend(p)'
        BY <1>2, <1>6, <3>5, <3>6 DEF IdsAscend
      <3>8. pc'[p] = "applying"
        BY <1>2, <2>2
      <3>9. Applies(p)'
        BY <1>2, <1>6, <3>3, <3>4, <3>5, <3>7, <3>8 DEF Applies
      <3> QED BY <3>8, <3>9 DEF RunOrdered
    <2> QED BY <2>1, <2>2
  <1>10. RunsOrdered'
    BY <1>2, <1>9, OwnOrderSuffices
  <1> QED BY <1>2, <1>10, SameTable DEF Order

\* What is put on record now keeps the ids of the plan in order.
LEMMA MarkRunningOrder ==
    ASSUME TypeOK, Alone, Agree, Order, NEW p \in Procs, NEW e \in plan[p],
           IsNext(p, e), MarkRunning(p, e)
    PROVE  Order'
  <1> DEFINE m == e.name
  <1>1. /\ m \in Migrations /\ rows'[m].status = "running" /\ rows'[m].batch = batch[p]
        /\ rows'[m].id = IF rows[m].status = "none" THEN nextId ELSE rows[m].id
        /\ \A n \in Migrations \ {m} : rows'[n] = rows[n]
    BY EntryTyped, MarkRunningTyped
  <1>2. /\ pc[p] = "applying" /\ pc'[p] = "up" /\ \A q \in Procs \ {p} : pc'[q] = pc[q]
        /\ UNCHANGED <<schema, op, batch, plan>>
    BY DEF MarkRunning, Goto, TypeOK
  <1>3. Applies(p) /\ PlanAgrees(p)
    BY <1>2 DEF Order, RunsOrdered, RunOrdered, Agree, PlansAgree
  <1>4. rows[m].status # "completed" /\ op[p] \notin Undoing
    BY <1>2, <1>3 DEF PlanAgrees
  <1>5. Completed' = Completed /\ m \notin Completed
    BY <1>1, <1>4 DEF Completed
  <1>6. \A c \in Completed : c \in Migrations /\ rows'[c] = rows[c]
    BY <1>1, <1>5 DEF Completed
  <1>7. Ordered'
    <2>1. \A i \in DOMAIN schema : schema[i] \in Completed
      BY DEF Agree, InEffect
    <2> QED BY <1>2, <1>6, <2>1 DEF Order, Ordered, Earlier, Precedes
  <1>8. \A f \in plan[p] : f.name \in Migrations /\ f.name \in Nat /\ m <= f.name /\ m \in Nat
    BY <1>4, EntryTyped, MigratorAssumption DEF IsNext
  <1>9. \A n \in Migrations : rows[n].status # "none" => rows[n].id \in Nat /\ rows[n].id < nextId
    BY DEF TypeOK
  <1>10. rows[m].status = "none" =>
            \A f \in plan[p] : f.name # m => rows[f.name].status = "none"
    BY <1>3, <1>8 DEF Applies, IdsAscend
  <1>11. ASSUME NEW f \in plan[p], NEW c \in Completed,
                rows[c].batch = batch[p], rows'[f.name].status # "none"
         PROVE  rows[c].id < rows'[f.name].id
    <2>1. rows[c].status # "none"
      BY DEF Completed
    <2>2. CASE f.name = m /\ rows[m].status = "none"
      BY <1>1, <1>6, <1>9, <2>1, <2>2
    <2>3. CASE f.name = m /\ rows[m].status # "none"
      BY <1>1, <1>3, <1>11, <2>3 DEF Applies, IdsAscend
    <2>4. CASE f.name # m
      <3>1. rows'[f.name] = rows[f.name]
        BY <1>1, <1>8, <2>4
      <3> QED BY <1>3, <1>11, <3>1 DEF Applies, IdsAscend
    <2> QED BY <2>2, <2>3, <2>4
  <1>12. ASSUME NEW f \in plan[p], NEW g \in plan[p],
                f.name < g.name, rows'[g.name].status # "none"
         PROVE  rows'[f.name].status # "none" /\ rows'[f.name].id < rows'[g.name].id
    <2>1. g.name # m /\ rows'[g.name] = rows[g.name] /\ f.name # g.name
      BY <1>1, <1>8, <1>12
    <2>2. rows[m].status # "none"
      BY <1>10, <1>12, <2>1
    <2>3. /\ rows'[f.name].id = rows[f.name].id
          /\ rows'[f.name].status # "none" <=> rows[f.name].status # "none"
      BY <1>1, <1>8, <2>2
    <2> QED BY <1>3, <1>12, <2>1, <2>3 DEF Applies, IdsAscend
  <1>13. IdsAscend(p)'
    BY <1>2, <1>5, <1>6, <1>11, <1>12 DEF IdsAscend
  <1>14. ASSUME NEW f \in plan[p], IsNext(p, f)' PROVE rows'[f.name].batch = batch[p]
    <2>1. IsNext(p, f)
      BY <1>2, <1>14 DEF IsNext, ComesLast, Before
    <2>2. f.name = m
      BY <1>4, <2>1, NextIsOne
    <2> QED BY <1>1, <2>2
  <1>15. Applies(p)'
    BY <1>2, <1>3, <1>5, <1>6, <1>13, <1>14 DEF Applies
  <1>16. RunsOrdered'
    BY <1>2, <1>15, OwnOrderSuffices DEF RunOrdered
  <1> QED BY <1>7, <1>16 DEF Order

\* What is applied now comes after all the rest of the schema.
LEMMA UpOrder ==
    ASSUME TypeOK, Alone, Agree, Order, NEW p \in Procs, NEW e \in plan[p],
           IsNext(p, e), Up(p, e)
    PROVE  Order'
  <1> DEFINE m == e.name
             n == Len(schema)
  <1>1. /\ m \in Migrations /\ op[p] \notin Undoing /\ rows[m].status = "running"
        /\ schema' = Append(schema, m) /\ Completed' = Completed \union {m}
        /\ \A k \in Migrations : /\ rows'[k].id = rows[k].id
                                 /\ rows'[k].batch = rows[k].batch
                                 /\ rows'[k].status = "none" <=> rows[k].status = "none"
        /\ plan'[p] = {f \in plan[p] : f.name # m}
    BY UpEffect
  <1>2. /\ pc[p] = "up" /\ pc'[p] = "applying" /\ \A q \in Procs \ {p} : pc'[q] = pc[q]
        /\ UNCHANGED <<op, batch>>
    BY DEF Up, Goto, TypeOK
  <1>3. Applies(p)
    BY <1>2 DEF Order, RunsOrdered, RunOrdered
  <1>4. \A k, l \in Migrations : Earlier(k, l) <=> Precedes(rows', k, l)
    BY <1>1 DEF Earlier, Precedes
  <1>5. rows[m].batch = batch[p]
    BY <1>2, <1>3 DEF Applies
  <1>6. ASSUME NEW c \in Completed PROVE c \in Migrations /\ Earlier(c, m)
    <2>1. c \in Migrations /\ rows[c].batch <= batch[p]
      BY <1>3 DEF Applies, Completed
    <2>2. rows[c].batch \in Nat /\ batch[p] \in Nat
      BY <2>1 DEF TypeOK, Row
    <2>3. rows[c].batch = batch[p] => rows[c].id < rows[m].id
      BY <1>1, <1>3 DEF Applies, IdsAscend
    <2>4. rows[c].batch < batch[p] \/ rows[c].batch = batch[p]
      BY <2>1, <2>2
    <2> QED BY <1>5, <2>1, <2>3, <2>4 DEF Earlier, Precedes
  <1>7. Ordered'
    <2>1. /\ n \in Nat /\ DOMAIN schema = 1..n /\ DOMAIN schema' = 1..(n + 1)
          /\ schema'[n + 1] = m /\ \A i \in 1..n : schema'[i] = schema[i]
      BY <1>1 DEF TypeOK
    <2>2. \A i \in 1..n : schema[i] \in Completed
      BY <2>1 DEF Agree, InEffect
    <2>3. ASSUME NEW i \in 1..(n + 1), NEW j \in 1..(n + 1), i < j
          PROVE  Precedes(rows', schema'[i], schema'[j])
      <3>1. i \in 1..n /\ schema'[i] = schema[i] /\ schema[i] \in Migrations
        BY <1>6, <2>1, <2>2, <2>3
      <3>2. CASE j \in 1..n
        <4>1. Earlier(schema[i], schema[j])
          BY <2>1, <2>3, <3>1, <3>2 DEF Order, Ordered
        <4>2. schema[j] \in Migrations /\ schema'[j] = schema[j]
          BY <1>6, <2>1, <2>2, <3>2
        <4> QED BY <1>4, <3>1, <4>1, <4>2
      <3>3. CASE j = n + 1
        <4>1. Earlier(schema[i], m) /\ schema'[j] = m
          BY <1>6, <2>1, <2>2, <3>1, <3>3
        <4> QED BY <1>1, <1>4, <3>1, <4>1
      <3> QED BY <2>1, <2>3, <3>2, <3>3
    <2> QED BY <2>1, <2>3 DEF Ordered, Earlier
  <1>8. \A f \in plan[p] : f.name \in Migrations /\ f.name \in Nat /\ m <= f.name /\ m \in Nat
    BY <1>1, EntryTyped, MigratorAssumption DEF IsNext
  <1>9. \A f \in plan'[p] : f \in plan[p] /\ f.name # m /\ m < f.name
    BY <1>1, <1>8
  <1>10. ASSUME NEW f \in plan'[p], NEW c \in Completed',
                rows'[c].batch = batch[p], rows'[f.name].status # "none"
         PROVE  rows'[c].id < rows'[f.name].id
    <2>1. /\ f \in plan[p] /\ m < f.name /\ rows[f.name].status # "none"
          /\ rows'[f.name].id = rows[f.name].id
      BY <1>1, <1>8, <1>9, <1>10
    <2>2. CASE c = m
      <3>1. rows[m].id < rows[f.name].id
        BY <1>3, <2>1 DEF Applies, IdsAscend
      <3> QED BY <1>1, <2>1, <2>2, <3>1
    <2>3. CASE c \in Completed
      <3>1. c \in Migrations /\ rows[c].batch = batch[p] /\ rows'[c].id = rows[c].id
        BY <1>1, <1>6, <1>10, <2>3
      <3>2. rows[c].id < rows[f.name].id
        BY <1>3, <2>1, <2>3, <3>1 DEF Applies, IdsAscend
      <3> QED BY <2>1, <3>1, <3>2
    <2> QED BY <1>1, <2>2, <2>3
  <1>11. ASSUME NEW f \in plan'[p], NEW g \in plan'[p],
                f.name < g.name, rows'[g.name].status # "none"
         PROVE  rows'[f.name].status # "none" /\ rows'[f.name].id < rows'[g.name].id
    <2>1. f \in plan[p] /\ g \in plan[p] /\ f.name \in Migrations /\ g.name \in Migrations
      BY <1>8, <1>9
    <2>2. rows[g.name].status # "none"
      BY <1>1, <1>11, <2>1
    <2>3. rows[f.name].status # "none" /\ rows[f.name].id < rows[g.name].id
      BY <1>3, <1>11, <2>1, <2>2 DEF Applies, IdsAscend
    <2> QED BY <1>1, <2>1, <2>3
  <1>12. IdsAscend(p)'
    BY <1>2, <1>10, <1>11 DEF IdsAscend
  <1>13. \A f \in plan'[p], c \in Completed' : ~Clashes(f.name, c)
    BY <1>1, <1>3, <1>9 DEF Applies
  <1>14. \A c \in Completed' : rows'[c].batch <= batch[p]
    <2>1. rows[m].batch <= batch[p]
      BY <1>5 DEF TypeOK
    <2> QED BY <1>1, <1>3, <1>6, <2>1 DEF Applies
  <1>15. Applies(p)'
    BY <1>2, <1>3, <1>9, <1>12, <1>13, <1>14 DEF Applies
  <1>16. RunsOrdered'
    BY <1>2, <1>15, OwnOrderSuffices DEF RunOrdered
  <1> QED BY <1>7, <1>16 DEF Order

LEMMA MarkFailedOrder ==
    ASSUME TypeOK, Alone, Agree, Order, NEW p \in Procs, NEW e \in plan[p],
           IsNext(p, e), MarkFailed(p, e)
    PROVE  Order'
  <1>1. /\ Completed' = Completed /\ schema' = schema
        /\ \A n \in Migrations : rows'[n].id = rows[n].id /\ rows'[n].batch = rows[n].batch
    BY MarkFailedEffect DEF MarkFailed
  <1>2. \A i \in DOMAIN schema : schema[i] \in Migrations
    BY InEffectTyped DEF InEffect
  <1>3. Ordered'
    BY <1>1, <1>2 DEF Order, Ordered, Earlier, Precedes
  <1>4. /\ pc[p] # "idle" /\ pc'[p] = "idle" /\ \A q \in Procs \ {p} : pc'[q] = pc[q]
    BY DEF MarkFailed, Leaves, Goto, TypeOK
  <1>5. RunsOrdered'
    BY <1>4, OwnOrderSuffices DEF RunOrdered
  <1> QED BY <1>3, <1>5 DEF Order

\* Steps that end a run, or its turn to apply, and leave table and schema alone.
LEMMA LeavingOrder ==
    ASSUME TypeOK, Alone, Order, NEW p \in Procs, NEW e,
           \/ DownFails(p, e) \/ QueryFails(p) \/ Finish(p) \/ Crash(p)
           \/ UpFails(p, e)
    PROVE  Order'
  <1>1. /\ pc[p] # "idle" /\ pc'[p] \in {"idle", "failing"}
        /\ \A q \in Procs \ {p} : pc'[q] = pc[q]
        /\ UNCHANGED <<rows, schema>>
    BY DEF DownFails, QueryFails, Finish, Crash, UpFails, Leaves, Goto, database, TypeOK
  <1>2. RunsOrdered'
    BY <1>1, OwnOrderSuffices DEF RunOrdered
  <1> QED BY <1>1, <1>2, SameTable DEF Order

\* What is undone next was applied last, of all that is in effect.
LEMMA UndoneIsLast ==
    ASSUME TypeOK, Agree, Order, NEW p \in Procs, NEW e \in plan[p],
           IsNext(p, e), Down(p, e)
    PROVE  schema # <<>> /\ schema' = SubSeq(schema, 1, Len(schema) - 1)
  <1> DEFINE m == e.name
             n == Len(schema)
  <1>1. /\ m \in Migrations /\ rows \in [Migrations -> Row] /\ schema \in Seq(Migrations)
        /\ pc[p] = "undoing" /\ Undoes(p)
    BY EntryTyped DEF TypeOK, Down, Order, RunsOrdered, RunOrdered
  <1>3. m \in Completed
    BY <1>1 DEF Agree, PlansAgree, PlanAgrees, Completed
  <1>4. e.batch = rows[m].batch /\ e.id = rows[m].id /\ ComesLast(e, plan[p])
    BY <1>1 DEF Undoes, Entry, IsNext
  <1>5. \A c \in Completed : rows[c].batch \in Nat /\ rows[c].id \in Nat
    BY <1>1 DEF Completed, Row
  <1>6. ASSUME NEW c \in Completed, c # m PROVE ~Earlier(m, c)
    <2> DEFINE b == rows[c].batch
               i == rows[c].id
    <2>1. Entry(c).batch = b /\ Entry(c).id = i
      BY DEF Entry
    <2>2. CASE Entry(c) \in plan[p]
      <3>1. b < e.batch \/ (b = e.batch /\ i <= e.id)
        BY <1>4, <2>1, <2>2 DEF ComesLast, Before
      <3> QED BY <1>3, <1>4, <1>5, <3>1 DEF Earlier, Precedes
    <2>3. CASE Entry(c) \notin plan[p]
      <3>1. ~(e.batch < b \/ (e.batch = b /\ e.id <= i))
        BY <1>1, <2>1, <2>3 DEF Undoes, Before
      <3> QED BY <1>3, <1>4, <1>5, <3>1 DEF Earlier, Precedes
    <2> QED BY <2>2, <2>3
  <1>8. PICK k \in DOMAIN schema : schema[k] = m /\ schema' = Removed(k)
    BY DEF Down
  <1>9. n \in Nat /\ DOMAIN schema = 1..n /\ k \in 1..n /\ n > 0 /\ n \in DOMAIN schema
    BY <1>1, <1>8
  <1>10. k = n
    <2> SUFFICES ASSUME k # n PROVE FALSE
      OBVIOUS
    <2>1. k < n
      BY <1>9
    <2>2. Earlier(m, schema[n])
      BY <1>8, <1>9, <2>1 DEF Order, Ordered
    <2>3. schema[n] # m
      BY <1>8, <1>9, <2>1 DEF Agree, Once
    <2>4. schema[n] \in Completed
      BY <1>9 DEF Agree, InEffect
    <2> QED BY <1>6, <2>2, <2>3, <2>4
  <1>11. schema' = [i \in 1..(n - 1) |-> schema[i]]
    <2>1. schema' = [i \in 1..(n - 1) |-> IF i < n THEN schema[i] ELSE schema[i + 1]]
      BY <1>8, <1>10 DEF Removed
    <2>2. \A i \in 1..(n - 1) : i < n
      BY <1>9
    <2> QED BY <2>1, <2>2
  <1>12. SubSeq(schema, 1, n - 1) = [i \in 1..(n - 1) |-> schema[i]]
    BY <1>1, <1>9
  <1>13. schema # <<>>
    BY <1>1, <1>9
  <1> QED BY <1>11, <1>12, <1>13

LEMMA DownOrder ==
    ASSUME TypeOK, Alone, Agree, Order, NEW p \in Procs, NEW e \in plan[p],
           IsNext(p, e), Down(p, e)
    PROVE  Order'
  <1> DEFINE m == e.name
             n == Len(schema)
  <1>1. schema # <<>> /\ schema' = SubSeq(schema, 1, n - 1)
    BY UndoneIsLast
  <1>2. /\ m \in Migrations /\ Completed' = Completed \ {m}
        /\ InEffect' = InEffect \ {m}
        /\ \A x \in Migrations \ {m} : rows'[x] = rows[x]
        /\ plan'[p] = {f \in plan[p] : f.name # m}
    BY DownEffect
  <1>3. /\ pc[p] = "undoing" /\ UNCHANGED <<pc, op, batch>>
        /\ schema \in Seq(Migrations)
    BY DEF Down, TypeOK
  <1>4. \A c, d \in Completed \ {m} : Earlier(c, d) => Precedes(rows', c, d)
    BY <1>2 DEF Earlier, Precedes, Completed
  <1>5. Ordered'
    <2>1. n \in Nat /\ n > 0 /\ DOMAIN schema = 1..n
      BY <1>1, <1>3
    <2>2. DOMAIN schema' = 1..(n - 1) /\ \A i \in 1..(n - 1) : schema'[i] = schema[i]
      BY <1>1, <1>3, <2>1
    <2>3. \A i \in 1..(n - 1) : i \in DOMAIN schema
      BY <2>1
    <2>4. \A i \in 1..(n - 1) : schema[i] \in Completed \ {m}
      <3>1. \A i \in 1..(n - 1) : schema[i] \in InEffect'
        BY <2>2 DEF InEffect
      <3> QED BY <1>2, <3>1 DEF Agree
    <2>5. \A i, j \in 1..(n - 1) : i < j => Precedes(rows', schema[i], schema[j])
      BY <1>4, <2>3, <2>4 DEF Order, Ordered
    <2> QED BY <2>2, <2>5 DEF Ordered, Earlier
  <1>6. Undoes(p)'
    <2>1. Undoes(p)
      BY <1>3 DEF Order, RunsOrdered, RunOrdered
    <2>2. ASSUME NEW f \in plan'[p] PROVE f \in plan[p] /\ f.name # m /\ f.name \in Migrations
      BY <1>2, EntryTyped
    <2>3. \A c \in Migrations : c # m => Entry(c)' = Entry(c)
      BY <1>2 DEF Entry
    <2>4. \A f \in plan'[p] : f = Entry(f.name)'
      BY <2>1, <2>2, <2>3 DEF Undoes
    <2>5. ASSUME NEW f \in plan'[p], NEW c \in Completed', Before(f, Entry(c)')
          PROVE  Entry(c)' \in plan'[p]
      <3>1. c \in Completed /\ c # m /\ Entry(c)' = Entry(c)
        BY <1>2, <2>3 DEF Completed
      <3>2. Entry(c) \in plan[p] /\ Entry(c).name = c
        BY <2>1, <2>2, <2>5, <3>1 DEF Undoes, Entry
      <3> QED BY <1>2, <3>1, <3>2
    <2> QED BY <1>3, <2>1, <2>4, <2>5 DEF Undoes, Before
  <1>7. pc[p] # "idle" /\ (\A q \in Procs \ {p} : pc'[q] = pc[q]) /\ RunOrdered(p)'
    BY <1>3, <1>6 DEF RunOrdered
  <1> QED BY <1>5, <1>7, OwnOrderSuffices DEF Order

\* Where nothing has befallen the database no table is being dropped.
LEMMA IntactDrops ==
    ASSUME DropInv, upsets = {}, NEW p \in Procs
    PROVE  ~(DropMigrationsTable(p) \/ DropsEnd(p) \/ \E e \in plan[p] : DropTable(p, e))
  BY DEF DropInv, Drops, DropMigrationsTable, DropsEnd, DropTable

\* The end of a fresh() is the one step after which nothing has befallen it.
LEMMA OnlyDropsEndMends ==
    ASSUME [Next]_vars, upsets # {}, upsets' = {}
    PROVE  \E p \in Procs : DropsEnd(p) /\ "overlap" \notin upsets
  BY DEF Next, RunStep, PlanStep, Acquire, Upset, ListTables, DropMigrationsTable, DropsEnd,
         DropTable, ReadTable, MarkRunning, Up, UpFails, MarkFailed, Down, DownFails,
         QueryFails, Finish, Crash, Leaves, AcquireFails, Unlock, AddFile, vars

LEMMA OrderNext ==
    ASSUME RecordsInv, OrderInv, [Next]_vars
    PROVE  OrderInv'
  <1> SUFFICES ASSUME upsets' = {} PROVE Order'
    BY DEF OrderInv
  <1> USE DEF RecordsInv
  <1>1. CASE upsets # {}
    BY <1>1, OnlyDropsEndMends, DropsEndOrder DEF DropInv
  <1>2. CASE upsets = {}
    <2>1. Order /\ Agree /\ Alone
      BY <1>2 DEF OrderInv, AgreeInv, DropInv, Sound
    <2>2. CASE UNCHANGED vars
      BY <2>1, <2>2, SameOrder DEF vars, database, process
    <2>3. ASSUME NEW l \in Locks, AcquireFails(l) \/ Unlock(l) PROVE Order'
      BY <2>1, <2>3, SameOrder DEF AcquireFails, Unlock, database, process
    <2>4. ASSUME NEW r \in Projects, NEW m \in Migrations, AddFile(r, m) PROVE Order'
      BY <2>1, <2>4, SameOrder DEF AddFile, database, process
    <2>5. ASSUME NEW p \in Procs, ListTables(p) PROVE FALSE
      BY <2>5 DEF ListTables
    <2> QED
      BY <1>2, <2>1, <2>2, <2>3, <2>4, <2>5, IntactDrops, AcquireOrder, ReadTableOrder,
         MarkRunningOrder, UpOrder, MarkFailedOrder, DownOrder, LeavingOrder
      DEF Next, RunStep, PlanStep
  <1> QED BY <1>1, <1>2

\* A step of the migrator is a step of the stack, or changes nothing of it.
LEMMA StackStep ==
    ASSUME RecordsInv, OrderInv, TypeOK', [Next]_vars
    PROVE  [Stack!Next]_<<schema, upsets = {}>>
  <1> USE DEF RecordsInv
  <1>1. CASE upsets' # {}
    <2>1. schema' \in Seq(Migrations)
      BY DEF TypeOK
    <2>2. Stack!Broken
      BY <1>1, <2>1 DEF Stack!Broken
    <2> QED BY <2>2 DEF Stack!Next
  <1>2. CASE upsets # {} /\ upsets' = {}
    <2>1. PICK p \in Procs : DropsEnd(p) /\ "overlap" \notin upsets
      BY <1>2, OnlyDropsEndMends
    <2>2. schema' = <<>>
      BY <2>1, DropsEndEmpty DEF DropInv
    <2>3. Stack!Mended
      BY <1>2, <2>2 DEF Stack!Mended
    <2> QED BY <2>3 DEF Stack!Next
  <1>3. CASE upsets = {} /\ upsets' = {}
    <2>1. Order /\ Agree
      BY <1>3 DEF OrderInv, AgreeInv, Sound
    <2>2. ASSUME NEW p \in Procs, NEW e \in plan[p], IsNext(p, e), Up(p, e)
          PROVE  Stack!Next
      <3> DEFINE m == e.name
      <3>1. m \in Migrations /\ schema' = Append(schema, m) /\ m \notin InEffect /\ pc[p] = "up"
        BY <2>1, <2>2, UpEffect DEF Up
      <3>2. Applies(p)
        BY <2>1, <3>1 DEF Order, RunsOrdered, RunOrdered
      <3>3. \A n \in InEffect : <<m, n>> \notin Collides
        BY <2>1, <3>1, <3>2 DEF Applies, Clashes, Agree
      <3>4. Stack!Apply(m)
        BY <3>1, <3>3 DEF Stack!Apply, Stack!On, InEffect
      <3>5. Stack!Work
        BY <1>3, <3>1, <3>4 DEF Stack!Work
      <3> QED BY <3>5 DEF Stack!Next
    <2>3. ASSUME NEW p \in Procs, NEW e \in plan[p], IsNext(p, e), Down(p, e)
          PROVE  Stack!Next
      <3>1. Stack!Undo
        BY <2>1, <2>3, UndoneIsLast DEF Stack!Undo
      <3>2. Stack!Work
        BY <1>3, <3>1 DEF Stack!Work
      <3> QED BY <3>2 DEF Stack!Next
    <2>4. ASSUME NEW p \in Procs,
                 \/ ListTables(p) \/ ReadTable(p) \/ QueryFails(p) \/ Finish(p) \/ Crash(p)
                 \/ \E o \in Operations : Acquire(p, o)
                 \/ \E e \in plan[p] : \/ MarkRunning(p, e) \/ UpFails(p, e)
                                       \/ MarkFailed(p, e) \/ DownFails(p, e)
          PROVE  schema' = schema
      BY <2>4 DEF ListTables, ReadTable, QueryFails, Finish, Crash, Acquire, MarkRunning,
                  UpFails, MarkFailed, DownFails, database
    <2>5. ASSUME \/ \E l \in Locks : AcquireFails(l) \/ Unlock(l)
                 \/ \E r \in Projects, m \in Migrations : AddFile(r, m)
                 \/ UNCHANGED vars
          PROVE  schema' = schema
      BY <2>5 DEF AcquireFails, Unlock, AddFile, vars, database
    <2>6. Stack!Next \/ schema' = schema
      BY <1>3, <2>2, <2>3, <2>4, <2>5, IntactDrops DEF Next, RunStep, PlanStep
    <2> QED BY <1>3, <2>6
  <1> QED BY <1>1, <1>2, <1>3

\* The migrator implements the stack, whatever fails, dies or is rolled back, and
\* whatever the names of the files: what is undone was applied last, and nothing is
\* applied twice or beside what it collides with, until one of the four upsets.
THEOREM ImplementsStack == Spec => StackSpec
  <1>1. Init => Stack!Init
    BY DEF Init, Stack!Init
  <1>2. Init => RecordsInv /\ OrderInv
    BY RecordsInvInit, OrderInit
  <1>3. RecordsInv /\ OrderInv /\ [Next]_vars => (RecordsInv /\ OrderInv)'
    BY RecordsInvNext, OrderNext
  <1>4. RecordsInv /\ RecordsInv' /\ OrderInv /\ [Next]_vars =>
            [Stack!Next]_<<schema, upsets = {}>>
    BY StackStep DEF RecordsInv
  <1> QED BY <1>1, <1>2, <1>3, <1>4, PTL DEF Spec, StackSpec, Stack!Spec

=============================================================================
