------------------------------ MODULE Migrations ------------------------------
(***************************************************************************)
(* npm run migrate and npm run migrate:down: processes over one database,  *)
(* started by operators and deployments at any time.  rollbackMigrations   *)
(* imports loadMigrations from a module that starts a run when it is       *)
(* loaded, so a rollback is two tasks of one process, over one pool.       *)
(*                                                                         *)
(* A statement waits for the objects that another transaction has changed  *)
(* and not committed (holder).  IF NOT EXISTS and IF EXISTS look at what   *)
(* is committed.                                                           *)
(***************************************************************************)
EXTENDS Integers, Sequences, FiniteSets

CONSTANTS
    Script,      \* slots for processes; a slot is used again
    Command,     \* Command[p]: what is started in slot p
    Newest,        \* the migrations are 1 .. Newest, in the order of their files
    Rerunnable,  \* those whose every statement says IF NOT EXISTS
    NoDown       \* those whose file has no -- DOWN

ASSUME MigrationsAssumption ==
    Newest \in Nat /\ Rerunnable \subseteq 1 .. Newest /\ NoDown \subseteq 1 .. Newest

VARIABLES
    tracked,    \* the rows of admin_migrations, in order of applied_at
    present,    \* the migrations whose objects exist
    holder,     \* holder[m]: the task whose transaction has changed m's objects
    script,     \* script[p]: the process in slot p
    abandoned,  \* history: migrations untracked with their objects left
    raced       \* history: a run and a rollback had work at one time

Migration == 1 .. Newest
Task == Script \X {"up", "down"}
NoTask == <<>>

database   == <<tracked, present, holder, abandoned, raced>>
scriptVars == <<database, script>>

\* A task is at a step of its loop over todo; dropping says that the DROPs of
\* its transaction found the objects.
TaskState == [step : {"off", "read", "sql", "row", "close"}, todo : Seq(Migration),
              dropping : BOOLEAN]
Off == [step |-> "off", todo |-> <<>>, dropping |-> FALSE]

\* count is what the command line asks to roll back, and files the number of
\* migrations in the checkout that the process runs from.
NoScript == [pool |-> "ended", count |-> 0, files |-> 0, up |-> Off, down |-> Off]

ScriptsTypeOK ==
    /\ tracked \in Seq(Migration)
    /\ \A i, j \in DOMAIN tracked : tracked[i] = tracked[j] => i = j
    /\ present \subseteq Migration
    /\ holder \in [Migration -> Task \cup {NoTask}]
    /\ script \in [Script -> [pool : {"open", "ended"}, count : 0 .. Newest, files : 0 .. Newest,
                              up : TaskState, down : TaskState]]
    /\ abandoned \subseteq Migration
    /\ raced \in BOOLEAN

ScriptsInit ==
    /\ tracked = <<>> /\ present = {} /\ abandoned = {}
    /\ holder = [m \in Migration |-> NoTask]
    /\ script = [p \in Script |-> NoScript]
    /\ raced = FALSE

-----------------------------------------------------------------------------
Tracked == {tracked[i] : i \in DOMAIN tracked}

TaskAt(p, task, step) == script[p][task].step = step
PoolOpen(p) == script[p].pool = "open"
Todo(p, task) == script[p][task].todo
Current(p, task) == Head(Todo(p, task))

\* The task goes on to a step, with what is left to do.
TaskTo(p, task, step, todo, dropping) ==
    script' = [script EXCEPT ![p][task] = [step |-> step, todo |-> todo, dropping |-> dropping]]

\* The next migration, or the end of the loop.
Proceed(p, task, todo) == TaskTo(p, task, IF todo = <<>> THEN "close" ELSE "sql", todo, FALSE)

Released(p, task) == [m \in Migration |-> IF holder[m] = <<p, task>> THEN NoTask ELSE holder[m]]

\* catch: ROLLBACK, release, and the loop is left.
AbortTask(p, task) ==
    /\ holder' = Released(p, task)
    /\ TaskTo(p, task, "close", <<>>, FALSE)
    /\ UNCHANGED <<tracked, present, abandoned, raced>>

\* Some run has something to apply, or some rollback something to roll back.
UnderWay(task) == \E p \in Script : script[p][task].step \in {"sql", "row"}

StartScript(p, command, count, files) ==
    /\ TaskAt(p, "up", "off") /\ TaskAt(p, "down", "off")
    /\ script' = [script EXCEPT ![p] =
            [pool |-> "open", count |-> IF command = "migrate:down" THEN count ELSE 0,
             files |-> files, up |-> [Off EXCEPT !.step = "read"],
             down |-> IF command = "migrate:down" THEN [Off EXCEPT !.step = "read"] ELSE Off]]
    /\ UNCHANGED database

\* A read changes nothing in the database.
Meet(task, other) ==
    /\ raced' = (raced \/ (UnderWay(task)' /\ UnderWay(other)))
    /\ UNCHANGED <<tracked, present, holder, abandoned>>

\* The migrations of a set, as loadMigrations sorts them.
InFileOrder(ms) ==
    [i \in 1 .. Cardinality(ms) |->
        CHOOSE m \in ms : Cardinality({k \in ms : k < m}) = i - 1]

\* ensureMigrationsTable, getAppliedMigrations, and what is pending.
ReadPending(p) ==
    /\ TaskAt(p, "up", "read") /\ PoolOpen(p)
    /\ Proceed(p, "up", InFileOrder((1 .. script[p].files) \ Tracked))
    /\ Meet("up", "down")

\* The newest n rows.
NewestFirst(n) == [i \in 1 .. n |-> tracked[Len(tracked) + 1 - i]]

\* getAppliedMigrationIds, newest first, and as many as were asked for.
ReadApplied(p) ==
    /\ TaskAt(p, "down", "read") /\ PoolOpen(p)
    /\ Proceed(p, "down", NewestFirst(IF script[p].count < Len(tracked)
                                      THEN script[p].count ELSE Len(tracked)))
    /\ Meet("down", "up")

\* The rows when that of m is deleted, if there is one.
Without(m) ==
    IF m \notin Tracked THEN tracked
    ELSE LET at == CHOOSE i \in DOMAIN tracked : tracked[i] = m
         IN  [i \in 1 .. Len(tracked) - 1 |-> IF i < at THEN tracked[i] ELSE tracked[i + 1]]

\* Mutant: every statement commits on its own.
ApplySql_noTransaction(p) ==
    LET m == Current(p, "up")
    IN  /\ TaskAt(p, "up", "sql") /\ PoolOpen(p)
        /\ holder[m] = NoTask
        /\ \/ /\ m \in present \ Rerunnable
              /\ AbortTask(p, "up")
           \/ /\ m \notin present \ Rerunnable
              /\ present' = present \cup {m}
              /\ TaskTo(p, "up", "row", Todo(p, "up"), FALSE)
              /\ UNCHANGED <<tracked, abandoned, holder, raced>>

\* pool.connect(), BEGIN and the SQL of the file.
ApplySql(p) ==
    LET m == Current(p, "up")
    IN  /\ TaskAt(p, "up", "sql") /\ PoolOpen(p)
        /\ holder[m] = NoTask
        /\ \/ /\ m \in present \ Rerunnable
              /\ AbortTask(p, "up")
           \/ /\ m \notin present \ Rerunnable
              /\ holder' = [holder EXCEPT ![m] = <<p, "up">>]
              /\ TaskTo(p, "up", "row", Todo(p, "up"), FALSE)
              /\ UNCHANGED <<tracked, present, abandoned, raced>>

\* INSERT INTO admin_migrations, which meets the primary key if another run has
\* been quicker, and COMMIT.  Transactions that apply different migrations at
\* one time take the order of their commits.
ApplyRow(p) ==
    LET m == Current(p, "up")
    IN  /\ TaskAt(p, "up", "row")
        /\ \/ /\ m \in Tracked
              /\ AbortTask(p, "up")
           \/ /\ m \notin Tracked
              /\ tracked' = Append(tracked, m)
              /\ present' = present \cup {m}
              /\ abandoned' = abandoned \ {m}
              /\ holder' = Released(p, "up")
              /\ Proceed(p, "up", Tail(Todo(p, "up")))
              /\ UNCHANGED raced

HasDown(p, m) == m <= script[p].files /\ m \notin NoDown

\* No file, or no DOWN: DELETE FROM admin_migrations and nothing else.  It waits for
\* nobody: the others' rows are written and committed in one step, and a row that is
\* not committed it does not see.
Untrack(p) ==
    LET m == Current(p, "down")
    IN  /\ TaskAt(p, "down", "sql") /\ PoolOpen(p)
        /\ ~ HasDown(p, m)
        /\ tracked' = Without(m)
        /\ abandoned' = abandoned \cup ({m} \cap present)
        /\ Proceed(p, "down", Tail(Todo(p, "down")))
        /\ UNCHANGED <<present, holder, raced>>

\* pool.connect(), BEGIN and the SQL after -- DOWN.  DROP ... IF EXISTS waits for
\* the objects that it sees; others' uncommitted ones it does not see.
RollbackSql(p) ==
    LET m == Current(p, "down")
    IN  /\ TaskAt(p, "down", "sql") /\ PoolOpen(p)
        /\ HasDown(p, m)
        /\ \/ /\ m \in present
              /\ holder[m] = NoTask
              /\ holder' = [holder EXCEPT ![m] = <<p, "down">>]
              /\ TaskTo(p, "down", "row", Todo(p, "down"), TRUE)
           \/ /\ m \notin present
              /\ TaskTo(p, "down", "row", Todo(p, "down"), FALSE)
              /\ UNCHANGED holder
        /\ UNCHANGED <<tracked, present, abandoned, raced>>

\* Mutant: the row is left.
RollbackRow_kept(p) ==
    LET m == Current(p, "down")
    IN  /\ TaskAt(p, "down", "row")
        /\ present' = IF script[p].down.dropping THEN present \ {m} ELSE present
        /\ holder' = Released(p, "down")
        /\ Proceed(p, "down", Tail(Todo(p, "down")))
        /\ UNCHANGED <<tracked, raced, abandoned>>

\* DELETE FROM admin_migrations, which is content with no row, and COMMIT.
RollbackRow(p) ==
    LET m == Current(p, "down")
    IN  /\ TaskAt(p, "down", "row")
        /\ tracked' = Without(m)
        /\ present' = IF script[p].down.dropping THEN present \ {m} ELSE present
        /\ holder' = Released(p, "down")
        /\ Proceed(p, "down", Tail(Todo(p, "down")))
        /\ UNCHANGED <<raced, abandoned>>

\* A statement fails, or the other task has ended the pool: pool.connect() and
\* pool.query() reject.  A transaction under way keeps its client.
FailTask(p, task) ==
    /\ script[p][task].step \in {"read", "sql", "row"}
    /\ AbortTask(p, task)

\* finally: closeDatabase().  The second pool.end() of a process rejects, which
\* nothing handles: the process exits, its tasks being over anyway.
CloseTask(p, task) ==
    /\ TaskAt(p, task, "close")
    /\ script' = [script EXCEPT ![p][task] = Off, ![p].pool = "ended"]
    /\ UNCHANGED database

\* The process dies: PostgreSQL rolls its transactions back.
CrashScript(p) ==
    /\ script[p] # NoScript
    /\ script' = [script EXCEPT ![p] = NoScript]
    /\ holder' = [m \in Migration |-> IF holder[m] \in {p} \X {"up", "down"} THEN NoTask ELSE holder[m]]
    /\ UNCHANGED <<tracked, present, abandoned, raced>>

ScriptsNext ==
    \E p \in Script :
        \/ \E command \in Command[p], count \in 1 .. Newest,
              files \in {Newest - 1, Newest} : StartScript(p, command, count, files)
        \/ ReadPending(p) \/ ApplySql(p) \/ ApplyRow(p)
        \/ ReadApplied(p) \/ Untrack(p) \/ RollbackSql(p) \/ RollbackRow(p)
        \/ \E task \in {"up", "down"} : FailTask(p, task) \/ CloseTask(p, task)
        \/ CrashScript(p)

-----------------------------------------------------------------------------
(* What the tracking table says of the schema.  What is tracked is there,
   whatever runs, rollbacks, failures and crashes there were and however they
   overlapped.  The converse, and that the migrations from the first to some
   one are tracked and no others, need more: that no run had something to apply while a rollback was
   under way, as the run that a rollback itself starts may; and migrations that
   were untracked only keep their objects. *)
TrackingTells ==
    /\ Tracked \subseteq present
    /\ ~ raced => /\ present \ Tracked \subseteq abandoned
                  /\ \A i \in DOMAIN tracked : tracked[i] = i

=============================================================================
