------------------------------ MODULE Migrator ------------------------------
(* Schema migrations: MigratorFactory.ts and MigrationLock.ts of             *)
(* src/migrations, and src/orm/migrations/MigrationStore.ts.                  *)
(*                                                                            *)
(* A process is a run of `zin migrate`; it takes the lock file of its project *)
(* root, reads the migrations table once and then works through its plan one  *)
(* await at a time.  Any step may fail, or be the last of its process: the    *)
(* lock file then stays until somebody deletes it.  Runs from one root share  *)
(* a lock file, whatever service they migrate; runs from different roots      *)
(* share the database and nothing else.  Modelled with adapters whose         *)
(* transactions cover schema changes (SQLite, PostgreSQL), and with one       *)
(* tracking target (separateTracking off).                                    *)
(*                                                                            *)
(* upsets is a history variable: it records what happened to the database     *)
(* that the migrator does not guard against, and no action reads it.          *)
EXTENDS Naturals, Sequences, FiniteSets

CONSTANTS
    Migrations,  \* names, in their order: natural numbers
    Collides,    \* <<m, n>>: the name of n ends in the suffix of m
    Projects,    \* services of project roots
    Available,   \* Available[r]: the migrations project r comes to have
    Procs,
    ProjectOf, LockOf,  \* of a process: its project and its lock file
    NoProc,      \* no lock file
    Stale,       \* a lock file that is no process's that runs
    Sqlite,      \* getType() = "sqlite": fresh() drops the tables
    MaxRuns,     \* bound: runs
    MaxFaults    \* bound: failing statements, failing migrations and crashes

ASSUME MigratorAssumption ==
    /\ Migrations \subseteq Nat
    /\ IsFiniteSet(Migrations)
    /\ Collides \subseteq Migrations \X Migrations
    /\ Available \in [Projects -> SUBSET Migrations]
    /\ ProjectOf \in [Procs -> Projects]
    /\ NoProc \notin Procs /\ Stale \notin Procs /\ NoProc # Stale
    /\ Sqlite \in BOOLEAN
    /\ MaxRuns \in Nat /\ MaxFaults \in Nat

VARIABLES
    files,   \* files[r]: the migration files of a project
    lock,    \* lock[l]: whose lock file it is
    rows,    \* rows[m]: the row of the migrations table
    nextId,
    schema,  \* migrations in effect in the database, in order of application
    pc, op, batch,
    plan,    \* plan[p]: rows still to apply or to undo, tables still to drop
    upsets,  \* history: what has befallen the database
    runs, faults

database == <<rows, nextId, schema>>
process == <<pc, op, batch, plan>>
vars == <<files, lock, database, process, upsets, runs, faults>>

Locks == {LockOf[p] : p \in Procs}
Statuses == {"none", "running", "completed", "failed"}
Row == [status : Statuses, batch : Nat, id : Nat]
NoRow == [status |-> "none", batch |-> 0, id |-> 0]

\* rollback1 and rollback2: rollbackLastBatch() of one and of two batches
Undoing == {"rollback1", "rollback2", "reset"}
Operations == {"migrate", "fresh"} \union Undoing

InEffect == {schema[k] : k \in DOMAIN schema}
Completed == {m \in Migrations : rows[m].status = "completed"}
Unfinished == {m \in Migrations : rows[m].status \in {"running", "failed"}}

Init ==
    /\ files = [r \in Projects |-> {}]
    /\ lock = [l \in Locks |-> NoProc]
    /\ rows = [m \in Migrations |-> NoRow]
    /\ nextId = 1
    /\ schema = <<>>
    /\ pc = [p \in Procs |-> "idle"]
    /\ op = [p \in Procs |-> "migrate"]
    /\ batch = [p \in Procs |-> 0]
    /\ plan = [p \in Procs |-> {}]
    /\ upsets = {}
    /\ runs = 0 /\ faults = 0

-----------------------------------------------------------------------------
(* The migrations table *)

\* getLastCompletedBatch(), 0 when nothing is completed
IsLastBatch(b) ==
    /\ b \in {rows[m].batch : m \in Completed} \union {0}
    /\ \A m \in Completed : rows[m].batch <= b

\* a file is pending unless its row is completed or any row of another name
\* ends in the same suffix
Pending(p) ==
    {m \in files[ProjectOf[p]] :
        /\ rows[m].status # "completed"
        /\ \A n \in Migrations \ {m} :
              <<m, n>> \in Collides => rows[n].status = "none"}

MinBatch(o, last) ==
    CASE o = "rollback1" -> last
      [] o = "rollback2" -> IF last > 1 THEN last - 1 ELSE last
      [] o = "reset"     -> 0

\* listCompletedInBatchesGte() and listAllCompletedNames()
ToUndo(o, last) == {m \in Completed : rows[m].batch >= MinBatch(o, last)}

Entry(m) == [name |-> m, batch |-> rows[m].batch, id |-> rows[m].id]

Before(e, f) == \/ e.batch < f.batch
                \/ e.batch = f.batch /\ e.id <= f.id

\* Seeded fault: the rows are read in ascending order
ComesFirst(e, entries) == \A f \in entries : Before(e, f)

\* ORDER BY batch DESC, id DESC
ComesLast(e, entries) == \A f \in entries : Before(f, e)

\* what is left of a plan is undone from the last row, applied in name order
IsNext(p, e) ==
    /\ e \in plan[p]
    /\ IF op[p] \in Undoing THEN ComesLast(e, plan[p])
                             ELSE \A f \in plan[p] : e.name <= f.name

\* insertRunning(): a row that exists keeps its id
Running(m, b) ==
    IF rows[m].status = "none"
    THEN [status |-> "running", batch |-> b, id |-> nextId]
    ELSE [rows[m] EXCEPT !.status = "running", !.batch = b]

\* markStatus(): an UPDATE, which makes no row
Marked(m, s) == IF rows[m].status = "none" THEN rows ELSE [rows EXCEPT ![m].status = s]

\* the schema without its k-th migration
Removed(k) == [i \in 1..(Len(schema) - 1) |->
                  IF i < k THEN schema[i] ELSE schema[i + 1]]

-----------------------------------------------------------------------------
(* What befalls the database.                                                 *)
(*   "overlap"  two runs went on at once, under different lock files          *)
(*   "torn"     a fresh() dropped tables and has not come to the end of them  *)
(*   "kept"     a run was to apply a migration whose row kept an older id     *)
(*              than that of one it was to apply before                       *)
(*   "clash"    a run was to apply two migrations with one suffix             *)

Upset(w) == upsets' = upsets \union w

OthersIdle(p) == \A q \in Procs \ {p} : pc[q] = "idle"

\* rows that exist keep their ids, the others come to have later ones
Kept(ms) ==
    \E m, n \in ms : /\ m < n
                     /\ rows[n].status # "none"
                     /\ rows[m].status = "none" \/ rows[m].id >= rows[n].id

Clash(ms) == \E m, n \in ms : m # n /\ <<m, n>> \in Collides

-----------------------------------------------------------------------------
(* A run *)

Fault == faults < MaxFaults /\ faults' = faults + 1

Goto(p, l) == pc' = [pc EXCEPT ![p] = l]

\* Seeded fault: a run that throws keeps its lock file
LeavesOnSuccess(p) ==
    /\ Goto(p, "idle")
    /\ plan' = [plan EXCEPT ![p] = {}]
    /\ lock' = IF plan[p] = {} THEN [lock EXCEPT ![LockOf[p]] = NoProc] ELSE lock
    /\ UNCHANGED <<op, batch, upsets>>

\* withLock(): released in the finally; a failing unlinkSync() is ignored
Leaves(p) ==
    /\ Goto(p, "idle")
    /\ plan' = [plan EXCEPT ![p] = {}]
    /\ \E l \in {NoProc, Stale} : lock' = [lock EXCEPT ![LockOf[p]] = l]
    /\ UNCHANGED <<op, batch, upsets>>

\* MigrationLock.acquire(): refused when there is a lock file
Acquire(p, o) ==
    /\ pc[p] = "idle"
    /\ runs < MaxRuns
    /\ lock[LockOf[p]] = NoProc
    /\ lock' = [lock EXCEPT ![LockOf[p]] = p]
    /\ op' = [op EXCEPT ![p] = o]
    /\ Goto(p, IF o = "fresh" /\ Sqlite THEN "fresh" ELSE "reading")
    /\ Upset(IF OthersIdle(p) THEN {} ELSE {"overlap"})
    /\ runs' = runs + 1
    /\ UNCHANGED <<files, database, batch, plan, faults>>

\* the lock file is made and cannot be written: acquire() throws, the file stays
AcquireFails(l) ==
    /\ lock[l] = NoProc
    /\ Fault
    /\ lock' = [lock EXCEPT ![l] = Stale]
    /\ UNCHANGED <<files, database, process, upsets, runs>>

\* fresh() on SQLite, resetSchema(): the tables are listed, and dropped one
\* statement at a time
ListTables(p) ==
    /\ pc[p] = "fresh"
    /\ plan' = [plan EXCEPT ![p] = {Entry(m) : m \in InEffect}]
    /\ Goto(p, "dropping")
    /\ upsets' = (IF OthersIdle(p) THEN {} ELSE upsets) \union {"torn"}
    /\ UNCHANGED <<files, lock, database, op, batch, runs, faults>>

DropMigrationsTable(p) ==
    /\ pc[p] = "dropping"
    /\ rows' = [m \in Migrations |-> NoRow]
    /\ nextId' = 1
    /\ Goto(p, "dropped")
    /\ UNCHANGED <<files, lock, schema, op, batch, plan, upsets, runs, faults>>

Advance(p, e) == plan' = [plan EXCEPT ![p] = {f \in @ : f.name # e.name}]

\* DROP TABLE IF EXISTS; a migration that was applied twice goes in two steps
DropTable(p, e) ==
    /\ pc[p] \in {"dropping", "dropped"}
    /\ \/ e.name \notin InEffect /\ UNCHANGED schema
       \/ \E k \in DOMAIN schema : schema[k] = e.name /\ schema' = Removed(k)
    /\ IF e.name \in InEffect' THEN UNCHANGED plan ELSE Advance(p, e)
    /\ UNCHANGED <<files, lock, rows, nextId, pc, op, batch, upsets, runs, faults>>

\* Seeded fault: the migrations are read while tables are still to be dropped
DropsEndEarly(p) ==
    /\ pc[p] = "dropped"
    /\ Goto(p, "reading")
    /\ upsets' = IF "overlap" \in upsets THEN upsets ELSE {}
    /\ UNCHANGED <<files, lock, database, op, batch, plan, runs, faults>>

\* nothing is left of what befell the database, unless others work on it
DropsEnd(p) ==
    /\ pc[p] = "dropped"
    /\ plan[p] = {}
    /\ Goto(p, "reading")
    /\ upsets' = IF "overlap" \in upsets THEN upsets ELSE {}
    /\ UNCHANGED <<files, lock, database, op, batch, plan, runs, faults>>

\* the table is read once, the batch is the next one for all of the plan
ReadTable(p) ==
    /\ pc[p] = "reading"
    /\ \E last \in {rows[m].batch : m \in Completed} \union {0} :
          LET ms == IF op[p] \in Undoing THEN ToUndo(op[p], last) ELSE Pending(p)
          IN  /\ IsLastBatch(last)
              /\ batch' = [batch EXCEPT ![p] = last + 1]
              /\ plan' = [plan EXCEPT ![p] = {Entry(m) : m \in ms}]
              /\ Upset({w \in {"kept", "clash"} :
                           /\ op[p] \notin Undoing
                           /\ IF w = "kept" THEN Kept(ms) ELSE Clash(ms)})
    /\ Goto(p, IF op[p] \in Undoing THEN "undoing" ELSE "applying")
    /\ UNCHANGED <<files, lock, database, op, runs, faults>>

MarkRunning(p, e) ==
    /\ pc[p] = "applying"
    /\ rows' = [rows EXCEPT ![e.name] = Running(e.name, batch[p])]
    /\ nextId' = IF rows[e.name].status = "none" THEN nextId + 1 ELSE nextId
    /\ Goto(p, "up")
    /\ UNCHANGED <<files, lock, schema, op, batch, plan, upsets, runs, faults>>

\* Seeded fault: the status is set outside the transaction
UpAlone(m) == schema' = Append(schema, m) /\ UNCHANGED rows

\* the transaction of applyOneMigration()
UpAndComplete(m) ==
    /\ schema' = Append(schema, m)
    /\ rows' = Marked(m, "completed")

Up(p, e) ==
    /\ pc[p] = "up"
    /\ UpAndComplete(e.name)
    /\ Advance(p, e)
    /\ Goto(p, "applying")
    /\ UNCHANGED <<files, lock, nextId, op, batch, upsets, runs, faults>>

\* up() throws, as it may where its changes are in effect already: its
\* transaction is undone, the status is still to be set
UpFails(p, e) ==
    /\ pc[p] = "up"
    /\ Fault \/ (e.name \in InEffect /\ UNCHANGED faults)
    /\ Goto(p, "failing")
    /\ UNCHANGED <<files, lock, database, op, batch, plan, upsets, runs>>

\* the failure is recorded and rethrown: the rest of the plan is not applied
MarkFailed(p, e) ==
    /\ pc[p] = "failing"
    /\ rows' = Marked(e.name, "failed")
    /\ Leaves(p)
    /\ UNCHANGED <<files, nextId, schema, runs, faults>>

\* rollbackOneMigration(): down() and the row's deletion, in a transaction
Down(p, e) ==
    /\ pc[p] = "undoing"
    /\ e.name \in files[ProjectOf[p]]
    /\ rows' = [rows EXCEPT ![e.name] = NoRow]
    /\ \E k \in DOMAIN schema : schema[k] = e.name /\ schema' = Removed(k)
    /\ Advance(p, e)
    /\ UNCHANGED <<files, lock, nextId, pc, op, batch, upsets, runs, faults>>

\* there is no file, there is nothing to undo, or down() throws
DownFails(p, e) ==
    /\ pc[p] = "undoing"
    /\ \/ e.name \notin files[ProjectOf[p]] \intersect InEffect /\ UNCHANGED faults
       \/ Fault
    /\ Leaves(p)
    /\ UNCHANGED <<files, database, runs>>

\* a statement on the migrations table, or a DROP, throws
QueryFails(p) ==
    /\ pc[p] \notin {"idle", "up", "undoing"}
    /\ Fault
    /\ Leaves(p)
    /\ UNCHANGED <<files, database, runs>>

Finish(p) ==
    /\ pc[p] \in {"applying", "undoing"}
    /\ plan[p] = {}
    /\ Leaves(p)
    /\ UNCHANGED <<files, database, runs, faults>>

Crash(p) ==
    /\ pc[p] # "idle"
    /\ Fault
    /\ Goto(p, "idle")
    /\ plan' = [plan EXCEPT ![p] = {}]
    /\ lock' = [lock EXCEPT ![LockOf[p]] = Stale]
    /\ UNCHANGED <<files, database, op, batch, upsets, runs>>

\* an operator deletes the lock file that is nobody's
Unlock(l) ==
    /\ lock[l] = Stale
    /\ lock' = [lock EXCEPT ![l] = NoProc]
    /\ UNCHANGED <<files, database, process, upsets, runs, faults>>

\* by whatever name
AddFile(r, m) ==
    /\ m \in Available[r] \ files[r]
    /\ files' = [files EXCEPT ![r] = @ \union {m}]
    /\ UNCHANGED <<lock, database, process, upsets, runs, faults>>

PlanStep(p) ==
    \E e \in plan[p] :
        \/ DropTable(p, e)
        \/ /\ IsNext(p, e)
           /\ \/ MarkRunning(p, e) \/ Up(p, e) \/ UpFails(p, e) \/ MarkFailed(p, e)
              \/ Down(p, e) \/ DownFails(p, e)

RunStep(p) ==
    \/ ListTables(p) \/ DropMigrationsTable(p) \/ DropsEnd(p) \/ ReadTable(p)
    \/ PlanStep(p) \/ QueryFails(p) \/ Finish(p)

Next ==
    \/ \E p \in Procs : RunStep(p) \/ Crash(p) \/ \E o \in Operations : Acquire(p, o)
    \/ \E l \in Locks : AcquireFails(l) \/ Unlock(l)
    \/ \E r \in Projects, m \in Migrations : AddFile(r, m)

Spec == Init /\ [][Next]_vars

-----------------------------------------------------------------------------
(* Properties *)

PlanEntry == [name : Migrations, batch : Nat, id : Nat]
Steps == {"idle", "fresh", "dropping", "dropped", "reading", "applying", "up",
          "failing", "undoing"}
Upsets == {"overlap", "torn", "kept", "clash"}

\* Every variable has its type, and the ids of rows were handed out by the table.
TypeOK ==
    /\ files \in [Projects -> SUBSET Migrations]
    /\ lock \in [Locks -> Procs \union {NoProc, Stale}]
    /\ rows \in [Migrations -> Row]
    /\ nextId \in Nat \ {0}
    /\ schema \in Seq(Migrations)
    /\ pc \in [Procs -> Steps]
    /\ op \in [Procs -> Operations]
    /\ batch \in [Procs -> Nat]
    /\ plan \in [Procs -> SUBSET PlanEntry]
    /\ upsets \subseteq Upsets
    /\ runs \in Nat /\ faults \in Nat
    /\ \A m \in Migrations : rows[m].status # "none" => rows[m].id \in 1..(nextId - 1)

\* A lock file belongs to a run exactly while that run goes on: runs under one
\* lock file exclude each other, and a run that has ended, in whatever way, is
\* not taken for one that goes on.
LockIsRun ==
    \A p \in Procs : pc[p] # "idle" <=> lock[LockOf[p]] = p

\* The migrations table tells the truth at every moment a statement can fail or a
\* process die: a migration is completed in it exactly if its changes are in the
\* schema, unless runs overlapped or the dropping of the tables was cut short,
\* and again from the end of the fresh() that follows.
RecordsAgree == upsets \intersect {"overlap", "torn"} = {} => Completed = InEffect

\* Migrations are undone in the reverse order of their application, and none is
\* applied twice or beside one it collides with, until one of the four upsets,
\* and again from the fresh() that follows: rolling back past a migration that
\* failed or inserting a file does no harm by itself.
Stack == INSTANCE MigrationStack WITH stack <- schema, intact <- upsets = {}
StackSpec == Stack!Spec

=============================================================================
