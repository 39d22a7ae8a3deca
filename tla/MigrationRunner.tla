-------------------------- MODULE MigrationRunner --------------------------
(***************************************************************************)
(* MigrationRunner::run and ::rollback of src/migrate/runner.rs, with the  *)
(* SchemaExecutor of src/migrate/schema.rs that executes a migration's     *)
(* statements one by one, each on the pool and so in a transaction of its  *)
(* own.  Several processes may run a runner at once (the guide starts one  *)
(* with every instance of the application) and a process may die or lose   *)
(* its database at any await.  No lock and no transaction spans the steps. *)
(*                                                                         *)
(* ensure_table and the warnings of run() leave nothing behind that the    *)
(* later steps read: they are part of the start.                           *)
(***************************************************************************)
EXTENDS Integers, Sequences, FiniteSets

CONSTANTS
    Runners,    \* processes that may run a MigrationRunner
    Migrations, \* migration names
    Steps,      \* Steps[m]: how many statements m.up() has
    Backfills,  \* statements <<m, i>> that change data; others create objects
    HasDown,    \* migrations whose down() undoes their up()
    Releases,   \* the lists of migrations a deployed binary registers
    Ops,        \* the operations in use
    Faults,     \* {"stop"}: a runner may stop at any point
    Exclusive   \* TRUE when deployment never starts two runners at once

Statements == UNION {{m} \X (1 .. Steps[m]) : m \in Migrations}

ASSUME RunnerAssumption ==
    /\ Steps \in [Migrations -> Nat]
    /\ Releases \subseteq Seq(Migrations)
    /\ Ops \subseteq {"run", "rollback"}
    /\ Faults \subseteq {"stop"}
    /\ Exclusive \in BOOLEAN

VARIABLES
    log,   \* the rows of _migrations
    done,  \* done[s]: statement s in the schema: not, once or (2) repeatedly
    loc    \* the program counter and the locals of each runner

vars == <<log, done, loc>>

-----------------------------------------------------------------------------

Rows == [id : Nat, name : Migrations, batch : Nat]

Pcs == {"idle", "applied", "batch", "next", "up",
        "last_batch", "last_rows", "next_row", "down"}

Idle == [pc |-> "idle", rel |-> <<>>, pos |-> 1, seen |-> {},
         batch |-> 0, rows |-> {}, stmt |-> 0]

Locals == [pc : Pcs, rel : Seq(Migrations), pos : Nat, seen : SUBSET Migrations,
           batch : Nat, rows : SUBSET Rows, stmt : Nat]

TypeOK ==
    /\ log \subseteq Rows
    /\ done \in [Statements -> 0 .. 2]
    /\ loc \in [Runners -> Locals]

Init ==
    /\ log = {}
    /\ done = [s \in Statements |-> 0]
    /\ loc = [r \in Runners |-> Idle]

\* SELECT name FROM _migrations
Recorded == {row.name : row \in log}

Greatest(x, S) == x \in S /\ \A y \in S : y <= x

\* COALESCE(MAX(..), 0)
Batches == {0} \cup {row.batch : row \in log}
Ids == {0} \cup {row.id : row \in log}

Registered(r) == {loc[r].rel[i] : i \in DOMAIN loc[r].rel}

\* the migration the loop of run() is at
Current(r) == loc[r].rel[loc[r].pos]

At(r, l) == loc[r].pc = l

\* Ok(()), an error passed on with `?`, or the end of the process
Return(r) == loc' = [loc EXCEPT ![r] = Idle]

MayStart(r) == At(r, "idle") /\ (Exclusive => \A s \in Runners : At(s, "idle"))

-----------------------------------------------------------------------------
(* run()                                                                   *)

StartRun(r) ==
    /\ "run" \in Ops
    /\ MayStart(r)
    /\ \E list \in Releases :
        loc' = [loc EXCEPT ![r].pc = "applied", ![r].rel = list]
    /\ UNCHANGED <<log, done>>

ReadApplied(r) ==
    /\ At(r, "applied")
    /\ loc' = [loc EXCEPT ![r].pc = "batch", ![r].seen = Recorded]
    /\ UNCHANGED <<log, done>>

ReadBatch(r) ==
    /\ At(r, "batch")
    /\ \E b \in Batches :
        /\ Greatest(b, Batches)
        /\ loc' = [loc EXCEPT ![r].pc = "next", ![r].batch = b + 1]
    /\ UNCHANGED <<log, done>>

InLoop(r) == At(r, "next") /\ loc[r].pos <= Len(loc[r].rel)

SkipApplied(r) ==
    /\ InLoop(r)
    /\ Current(r) \in loc[r].seen
    /\ loc' = [loc EXCEPT ![r].pos = @ + 1]
    /\ UNCHANGED <<log, done>>

StartUp(r) ==
    /\ InLoop(r)
    /\ Current(r) \notin loc[r].seen
    /\ loc' = [loc EXCEPT ![r].pc = "up", ![r].stmt = 1]
    /\ UNCHANGED <<log, done>>

\* A statement that creates an object fails when the object is there.
Exists(s) == s \notin Backfills /\ done[s] > 0

\* raw_execute: the next statement, committed as soon as it has run
UpStatement(r) ==
    /\ At(r, "up") /\ loc[r].stmt <= Steps[Current(r)]
    /\ ~Exists(<<Current(r), loc[r].stmt>>)
    /\ done' = [done EXCEPT ![<<Current(r), loc[r].stmt>>] = IF @ = 2 THEN 2 ELSE @ + 1]
    /\ loc' = [loc EXCEPT ![r].stmt = @ + 1]
    /\ UNCHANGED log

\* mutant: the error is reported and the loop goes on
UpFailsOn(r) ==
    /\ At(r, "up") /\ loc[r].stmt <= Steps[Current(r)]
    /\ Exists(<<Current(r), loc[r].stmt>>)
    /\ loc' = [loc EXCEPT ![r].pc = "next", ![r].pos = @ + 1]
    /\ UNCHANGED <<log, done>>

UpFails(r) ==
    /\ At(r, "up") /\ loc[r].stmt <= Steps[Current(r)]
    /\ Exists(<<Current(r), loc[r].stmt>>)
    /\ Return(r)
    /\ UNCHANGED <<log, done>>

\* the row a runner inserts; BIGSERIAL gives it an id above the others
Inserted(r) ==
    /\ \E top \in Ids :
        /\ Greatest(top, Ids)
        /\ log' = log \cup
              {[id |-> top + 1, name |-> Current(r), batch |-> loc[r].batch]}
    /\ loc' = [loc EXCEPT ![r].pc = "next", ![r].pos = @ + 1]
    /\ UNCHANGED done

\* mutant: the row is written before up() has finished
RecordEarly(r) ==
    /\ At(r, "up")
    /\ Current(r) \notin Recorded
    /\ Inserted(r)

\* INSERT INTO _migrations; name is UNIQUE
Record(r) ==
    /\ At(r, "up") /\ loc[r].stmt > Steps[Current(r)]
    /\ Current(r) \notin Recorded
    /\ Inserted(r)

RecordFails(r) ==
    /\ At(r, "up") /\ loc[r].stmt > Steps[Current(r)]
    /\ Current(r) \in Recorded
    /\ Return(r)
    /\ UNCHANGED <<log, done>>

\* run() returns Ok
FinishRun(r) ==
    /\ At(r, "next") /\ loc[r].pos > Len(loc[r].rel)
    /\ Return(r)
    /\ UNCHANGED <<log, done>>

-----------------------------------------------------------------------------
(* rollback()                                                              *)

StartRollback(r) ==
    /\ "rollback" \in Ops
    /\ MayStart(r)
    /\ \E list \in Releases :
        loc' = [loc EXCEPT ![r].pc = "last_batch", ![r].rel = list]
    /\ UNCHANGED <<log, done>>

FindBatch(r) ==
    /\ At(r, "last_batch")
    /\ \E b \in Batches :
        /\ Greatest(b, Batches)
        /\ IF b = 0
           THEN Return(r)
           ELSE loc' = [loc EXCEPT ![r].pc = "last_rows", ![r].batch = b]
    /\ UNCHANGED <<log, done>>

ListRows(r) ==
    /\ At(r, "last_rows")
    /\ loc' = [loc EXCEPT ![r].pc = "next_row",
                          ![r].rows = {row \in log : row.batch = loc[r].batch}]
    /\ UNCHANGED <<log, done>>

\* mutant: ORDER BY id instead of ORDER BY id DESC
FirstById(S, row) == row \in S /\ \A other \in S : row.id <= other.id

\* the next row of the result: ORDER BY id DESC
NextRow(S, row) == row \in S /\ \A other \in S : other.id <= row.id

SkipOrphan(r) ==
    /\ At(r, "next_row")
    /\ \E row \in loc[r].rows :
        /\ NextRow(loc[r].rows, row)
        /\ row.name \notin Registered(r)
        /\ loc' = [loc EXCEPT ![r].rows = @ \ {row}]
    /\ UNCHANGED <<log, done>>

\* statements of down() still to run, the last object first
StartDown(r) ==
    /\ At(r, "next_row")
    /\ \E row \in loc[r].rows :
        /\ NextRow(loc[r].rows, row)
        /\ row.name \in Registered(r)
        /\ loc' = [loc EXCEPT ![r].pc = "down",
                       ![r].stmt = IF row.name \in HasDown THEN Steps[row.name] ELSE 0]
    /\ UNCHANGED <<log, done>>

\* mutant: one statement too many
DownStatementPast(r) ==
    /\ At(r, "down")
    /\ \E row \in loc[r].rows :
        /\ NextRow(loc[r].rows, row)
        /\ done' = [done EXCEPT ![<<row.name, loc[r].stmt>>] = 0]
    /\ loc' = [loc EXCEPT ![r].stmt = @ - 1]
    /\ UNCHANGED log

DownStatement(r) ==
    /\ At(r, "down") /\ loc[r].stmt > 0
    /\ \E row \in loc[r].rows :
        /\ NextRow(loc[r].rows, row)
        /\ done' = [done EXCEPT ![<<row.name, loc[r].stmt>>] = 0]
    /\ loc' = [loc EXCEPT ![r].stmt = @ - 1]
    /\ UNCHANGED log

\* mutant: the row survives its rollback
UnrecordNothing(r) ==
    /\ At(r, "down") /\ loc[r].stmt = 0
    /\ \E row \in loc[r].rows :
        /\ NextRow(loc[r].rows, row)
        /\ loc' = [loc EXCEPT ![r].pc = "next_row", ![r].rows = @ \ {row}]
    /\ UNCHANGED <<log, done>>

\* DELETE FROM _migrations WHERE name = $1
Unrecord(r) ==
    /\ At(r, "down") /\ loc[r].stmt = 0
    /\ \E row \in loc[r].rows :
        /\ NextRow(loc[r].rows, row)
        /\ log' = {other \in log : other.name # row.name}
        /\ loc' = [loc EXCEPT ![r].pc = "next_row", ![r].rows = @ \ {row}]
    /\ UNCHANGED done

FinishRollback(r) ==
    /\ At(r, "next_row") /\ loc[r].rows = {}
    /\ Return(r)
    /\ UNCHANGED <<log, done>>

-----------------------------------------------------------------------------

\* The runner dies, or an await of it fails: before its statement when this
\* comes first, after the statement has committed when it comes second.
Stop(r) ==
    /\ "stop" \in Faults
    /\ ~At(r, "idle")
    /\ Return(r)
    /\ UNCHANGED <<log, done>>

RunStep(r) ==
    \/ StartRun(r) \/ ReadApplied(r) \/ ReadBatch(r) \/ SkipApplied(r)
    \/ StartUp(r) \/ UpStatement(r) \/ UpFails(r) \/ Record(r)
    \/ RecordFails(r) \/ FinishRun(r)

RollbackStep(r) ==
    \/ StartRollback(r) \/ FindBatch(r) \/ ListRows(r) \/ SkipOrphan(r)
    \/ StartDown(r) \/ DownStatement(r) \/ Unrecord(r) \/ FinishRollback(r)

Next == \E r \in Runners : RunStep(r) \/ RollbackStep(r) \/ Stop(r)

Spec == Init /\ [][Next]_vars

-----------------------------------------------------------------------------
(* Properties                                                              *)

InSchema(m) == \A i \in 1 .. Steps[m] : done[<<m, i>>] > 0

\* The log never claims what is not there: whoever runs at the same time and
\* wherever a runner stops, a recorded migration has had all its statements
\* run (run() inserts the row after up(), runner.rs:173-178).  rollback(),
\* which runs down() before the DELETE, is outside of this.
RecordedIsApplied == \A m \in Recorded : InSchema(m)

\* A run() that returns Ok leaves every migration of its release recorded,
\* though the list of applied ones was read once, before the loop
\* (runner.rs:165-180).
OkMeansRecorded ==
    [][\A r \in Runners : FinishRun(r) => Registered(r) \subseteq Recorded]_vars

\* With one runner at a time and no failure, log and schema agree between
\* runs: each statement is in the schema exactly once when its migration is
\* recorded and not at all when it is not, through any sequence of runs,
\* rollbacks and releases (for migrations that come with a down()).
LogMatchesSchema ==
    (\A r \in Runners : At(r, "idle")) =>
        \A s \in Statements : s[1] \in HasDown =>
            done[s] = (IF s[1] \in Recorded THEN 1 ELSE 0)

\* rollback() undoes the newest migration first, within its batch and across
\* batches: a row is deleted only when no later one of the release is left
\* (MAX(batch) and "ORDER BY id DESC", runner.rs:120, 195).
NewestUndoneFirst ==
    [][\A gone \in log \ log', row \in log' :
          row.id > gone.id => \E r \in Runners : At(r, "down") /\ row.name \notin Registered(r)]_vars

\* A statement that changes data takes effect once ("reruns are safe",
\* runner.rs:35; "Re-running is idempotent", guides/migrations.md:54).
AppliedOnce == \A s \in Statements : done[s] <= 1

\* Between runs a migration is in the schema as a whole or not at all ("if
\* the migration fails, nothing is applied", guides/migrations.md:246-247).
AllOrNothing ==
    (\A r \in Runners : At(r, "idle")) =>
        \A m \in Migrations :
            InSchema(m) \/ \A i \in 1 .. Steps[m] : done[<<m, i>>] = 0

\* A rollback() that returns Ok has rolled its batch back ("Rollback the last
\* batch of migrations", runner.rs:184).
BatchRolledBack ==
    [][\A r \in Runners : FinishRollback(r) =>
          \A row \in log : row.batch # loc[r].batch]_vars

=============================================================================
