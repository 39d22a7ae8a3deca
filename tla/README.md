# Formal models of rok-fluent

rok-fluent is an async ORM and query builder over sqlx. Half of it renders SQL;
the other half keeps state across an `.await` or across statements: the query
cache with its single flight, the migration runner, transactions and locks,
records and pivot tables, the scopes of a request. This directory holds TLA+
models of both halves, TLC configurations that check small instances, and TLAPS
proofs that hold for every instance. File names below are relative to the root
of the repository; line numbers are in `PROJECT.json`.

Run a check with `tlc -config <run>.cfg <module>.tla` and a proof with
`tlapm <module>.tla`; `PROJECT.json` lists which module goes with which
configuration, which source lines each definition models, and for every checked
property a mutation of the model that breaks it.

## 1. Inventory

| Component | State | Operations | What is hard | Modules |
|---|---|---|---|---|
| Query cache (`src/orm/cache.rs`) | `QUERY_CACHE` (key to rows, expiry), `IN_FLIGHT` (key to shared cell and waiter count), process-wide | `get`, `put`, `get_or_populate`, `invalidate_table`, `clear` | concurrent misses, cancellation of the caller that runs the loader, sweeps that race with loads | `QueryCache`, `QueryCacheHistory` |
| Migration runner (`src/migrate/runner.rs`, `migration.rs`, `schema.rs`) | table `_migrations`, the schema itself | `run`, `rollback` | several processes, crashes, half-applied migrations | `MigrationRunner` |
| Query builder (`src/core/query.rs`, `condition.rs`) | a builder | rendering of SELECT, INSERT, UPDATE, DELETE, CTEs, set operations | numbering of placeholders against order of parameters | `Sql`, `Conditions`, `CoreQuery` |
| DSL (`src/dsl/select.rs`, `insert.rs`, `update.rs`, `delete.rs`, `expr.rs`, `column.rs`) | a builder, an expression tree | rendering, `count_sql`, `fetch_*_cached` | grouping, negation, parameter order; commit and invalidation are two steps | `DslBuilders`, `QueryCache` |
| Model queries (`src/orm/model_query.rs`, `scopes.rs`, `bridge.rs`) | a builder, flags | conditions, scopes, bridge to the DSL | scopes ANDed to an ungrouped chain | `ModelQuery`, `Bridge`, `QueryMeaning` |
| Paging (`src/orm/pagination.rs`, terminals of both layers) | where the caller is | `chunk`, `paginate`, `simple_paginate`, `cursor_paginate` | paging while rows change, zero sizes, page numbers and sizes that overflow a `u32` | `Paging`, `Sweep` |
| Transactions (`src/orm/postgres/transaction.rs`, `src/services/transaction.rs`) | an open transaction, a stack of savepoints | `begin`, `commit`, retry loop, savepoints | what is still open during a backoff; aborted transactions | `Sessions`, `AtomicTx` |
| Advisory locks (`src/services/lock.rs`) | the server's lock table, per session | acquire, try, timeout, release | the session is whichever pool connection ran the statement | `Sessions` |
| PostgreSQL executor (`src/orm/postgres/executor.rs`) | none | one statement per function, retries | order of statement and invalidation; backoff arithmetic | `RecordApi`, `Sessions`, `QueryCache` |
| Active Record (`src/orm/postgres/model.rs`, `repository.rs`, `src/services/crud.rs`, `batch.rs`, `soft_delete.rs`, `audit.rs`) | the table, registered repositories | CRUD, hooks, chunked insert, `first_or_create`, `update_or_create` | check-then-act on rows that do not exist; dispatch that comes back | `RecordApi`, `Records` |
| Pivot tables and `MorphToMany` (`src/orm/postgres/pivot_query.rs`, `src/orm/morph.rs`) | rows of the pivot table | `attach`, `detach`, `sync`, `toggle` | several autocommitted statements | `Pivots` |
| Requests: pools, tenants, streams, log (`src/orm/postgres/pool.rs`, `query_log.rs`, `src/orm/orm_layer.rs`, `n1.rs`, `src/core/tenant.rs`) | task-local pools and tenant, named pools, callbacks behind mutexes, thread-local counters | terminals of a model query, `stream`, middlewares | spawned tasks lose their scopes; a stream holds a connection | `Requests` |
| Relations (`src/orm/eager.rs`, `morph.rs`, `through.rs`) | none | grouping children by key | duplicate and missing keys, writes between two queries | `Relations` |
| `collection.rs`; search, filter, sort; casts, resources, factories; schema cache; derive macros; command line | none, or a map behind one lock | conversions, single statements | see section 7 | none |

How they interact. A DSL terminal or an Active Record method renders SQL and
calls the executor, which runs it on the pool; a `_cached` terminal wraps that
call in `get_or_populate`; a write calls `invalidate_table` after its statement
has been answered. Tasks share `QUERY_CACHE`, `IN_FLIGHT`, the named pools and
the query log inside one process, connections inside one pool, and the database
between processes. The migration runner talks to the database only; two
instances of an application interact through `_migrations` and the schema.

What makes each one correct, in the words of the properties checked:

- *cache*: no caller gets rows of another query or type; nothing stays in the
  registry without somebody to remove it; a call returns; one loader per key;
  stale rows stay only where a known race left them.
- *runner*: the log never claims what the schema has not; an `Ok` means what it
  says; rollback undoes the newest first.
- *builders*: the n-th placeholder meets the n-th parameter; the rendered
  condition, read with SQL's precedence, selects the rows the calls asked for;
  no call escapes the scopes; crossing the bridge changes nothing.
- *paging*: a walk ends; keyset paging of a model query returns each row that stays
  exactly once, whatever others write.
- *transactions, locks*: what was acknowledged and not undone is committed, in
  one step; a retried statement takes effect once; an advisory lock keeps other
  processes out.
- *records, pivots*: a duplicate needs two calls at a time; what an upsert
  returns is what is stored; a lone sync or toggle does what it was asked.
- *requests*: a statement is judged by the scopes of its own request; a stream
  that ends without an error was complete; everything ends.
- *relations*: each child is with its own parent, once.

## 2. Modules

| Module | Models |
|---|---|
| `QueryCache` | `cache.rs` step by step: `get`, `put`, `get_or_populate`, `WaiterGuard`, sweeps; the cached terminals that call it, the writes that invalidate it |
| `QueryCacheHistory` | `QueryCache` plus two history variables that mark the entries put by a loader a sweep has overtaken |
| `MigrationRunner` | `MigrationRunner::run` and `::rollback` with `SchemaExecutor::raw_execute`, for several processes that may die at any point |
| `Sql` | external: the tokens of a statement and how a server binds parameters to its placeholders |
| `Conditions` | the trees of `core/condition.rs` and `dsl/expr.rs`, and the parts their renderings write one after the other |
| `CoreQuery` | `QueryBuilder`, the writing of parts with `$n` and `?`, and every statement it renders |
| `DslBuilders` | the methods of a column and the builders of `dsl/` |
| `ModelQuery` | a caller that makes calls on a `ModelQuery`, a DSL select, an insert or an update, and how its parameters meet their placeholders |
| `Bridge` | `bridge.rs`, and the calls of a model query that go through it |
| `QueryMeaning` | the meaning of such a sequence of calls, evaluated directly on rows, how SQL reads a text (external), and the properties that compare the two |
| `Paging` | one caller of a paging terminal and other sessions that write between its pages |
| `Sweep` | abstract: a walk over a changing set of keys in ascending order |
| `Sessions` | the connections of the pools, and on them transactions, retry loops and advisory locks |
| `AtomicTx` | abstract: a transaction takes effect in one step or not at all |
| `RecordApi` | which statement each method of the PostgreSQL, MySQL and SQLite layers and of the services sends, and what it answers |
| `Records` | these calls on one table, and the calls of several statements |
| `Pivots` | the calls on the links of one owner |
| `Store` | `Records` and `Pivots` composed: clients of one database |
| `Requests` | HTTP requests with their scopes, calls and streams on shared pools |
| `Relations` | loaders of related rows beside a client that writes |
| `BuilderTerms` | no code: the terms in which `BuilderProofs` speaks of `QueryMeaning`, its invariants among them |
| `...Proofs` | the theorems about a module |
| `MC...` | constant values for TLC |

### QueryCache

`db` is the committed version of each table: rows are represented by the
versions they were read at, which is all that staleness depends on. `cache` and
`inflight` are the two DashMaps, `cell` and `waiters` the two fields of an
`Arc<InFlight>`, whose address is a member of `Cells` (an address is reused once
the last clone is dropped, which matters because `remove_if` compares
addresses). For each caller `pc`, `key`, `att` (its clone `state`) and `got` are
the point it is at and its locals. A writer has `wpc` and `todo`, the keys its
sweep has still to visit.

An action is one access to shared state or one resumption after an await. So
`get` is a lookup and, for an expired entry, a separate removal (the guard of
the entry is dropped in between, `cache.rs:88-90`); `WaiterGuard::drop` is the
`fetch_sub`, the look at the cell and the `remove_if`, three steps; `retain`
visits one key at a time. `get_or_init` is taken from the contract of
`tokio::sync::OnceCell`: one initializer at a time, its permit returned when its
future is dropped. A caller may be cancelled only where it is suspended.

A key is a value with the table its prefix names and the tables its SQL reads;
its rendering is not modelled. Metrics counters are left out. The TTL is an
event (`Expire`) that may happen to any live entry at any time.

### MigrationRunner

`log` is the set of rows of `_migrations`, `done` how often each statement of a
migration has taken effect (not, once, or repeatedly), `loc` the point and the
locals of each runner. A release is the list of migrations a binary registers,
in the order of registration, which is the order they are applied in; different
runners may run different releases. `run` reads the names, reads the greatest batch, and then for each missing migration
executes its statements one at a time and inserts the row: each of these is an
action, since each is a statement of its own on the pool. A statement that
creates an object fails when the object is there (`Exists`), one that changes
data (`Backfills`) does not. `Stop` is the death of the process or any other
failed await; with the statement it may come before or after, since the model
may stop on either side of every action.

### Sql, Conditions, CoreQuery, DslBuilders, ModelQuery, Bridge, QueryMeaning

A statement is a sequence of tokens. A token has the slots in which values stand:
a numbered placeholder (`$n`), an anonymous one (`?`), or the value itself. Each
rendering returns the tokens with the parameters in the order the code pushes
them. What a server does with them, binding (`Sql`) and the truth of a condition
for a row with SQL's precedence (`QueryMeaning`), is external.

The renderings of the code call themselves for what is inside a group, an EXISTS,
an operand, a CTE or the right side of a set operation. In the model such a call is
the list of parts it still has to write (`CondParts`, `ExprParts`, `QueryParts`), and
`Step` writes the first of them: a leaf writes its token and pushes its values, a
node puts its parts in its place. A query inside another is written on its own
from `$1` on, as `to_sql_with_dialect` does for it, while the statement around it
waits in the part that ends it; then its numbers are shifted (`renumber_params`)
and, on the right of a set operation, its leading SELECT is taken off. `Written`
runs the steps, at most `MaxParts` of them. The dialect "v" is no code: it is
the same statement with the values written out, which says what the caller meant.

A state of `ModelQuery` is what a caller has built so far: `q` (the
`QueryBuilder` inside a model query), `sel`, `ins` and `upd` (the DSL builders),
`trashed` and `unscoped` (the flags), and `asked`, a history variable with the
conditions in the order of the calls. An action is one builder call; `Bridge` adds
`and_expr`, `or_expr` and `into_dsl`. `CallerAssumption` says what trees a caller
has: each operator with the operands its variant of the enum has, and raw text
without placeholders of its own, since nothing in the code could renumber those
(a `$1` in a `where_raw` is the caller's affair). `QueryMeaning` gives `asked` its
meaning without any text, as AND and OR of sets of rows, and compares it with the
rows that the WHERE text selects when a database reads it: `Read` takes one token and
keeps a stack with an entry for each parenthesis that is open (the alternatives read
so far, the rows of the last one, whether a NOT waits). A text whose syntax is wrong
selects nothing, and so does one with an `IN` or `NOT IN` of nothing (`Refused`):
PostgreSQL and MySQL refuse it (SQLite would answer). `core/condition.rs:235-249` writes
`1=0` and `1=1` for such a list, `dsl/expr.rs:151-179` writes it as it is, so
`RowsAsAsked` and `BridgeKeepsRows` leave out the lists without members that the DSL
writes (`WritesEmptyList`, `IsFilled`) and say what they say of those that core
writes, EXISTS of a select included. `RowsAsAsked` also leaves out, in a text with
`?`, the words that only PostgreSQL knows (`IsForeign`): `ILIKE`, which both builders write
for every dialect, and the `= ANY` of an expression. What is said of a tree is told level by level (`Deep`), for trees that are at
most `MaxDepth` deep; `ReadableAssumption` says which conditions a WHERE can be made
of: comparisons, groups that are not empty, subqueries, and raw texts that are one
condition wherever they are put (`Atom`).

### Paging, Sweep

A job is a terminal (`chunk`, `paginate`, `simple_paginate`, `cursor_paginate`)
of a layer (model query or DSL select) with a query, a column, a size, a page
and the build (`debug` or not, which decides whether the page arithmetic panics
or wraps; its width is `MaxU32`). The caller fetches a page, looks at it, goes
on; between its steps others insert rows of any free key and delete rows.
`served` counts how often a row was handed over. Offsets and cursors are computed as
the code does, the extra row of `has_more` included, and in the width it uses:
`ModelQuery` counts `per_page + 1` in `usize`, `SelectBuilder` in `u32`
(`select.rs:738`, `:788`), so that a page of `u32::MAX` rows panics in a debug build and
sends `LIMIT 0` in a release build (`OneMore`, `OneMore_Panics`).

The two `cursor_paginate` differ. The one of `ModelQuery` encodes the primary key of
the last row kept (an integer here; of any other key it makes no cursor). The one
of `SelectBuilder` encodes the column, whatever its type, but hands
`CursorPage::new` the page already cut to its size; `new` looks for the extra row
once more (`pagination.rs:192`), finds none, and drops the cursor. So no page of the
DSL names the next one, and the model has none (`SelectCursorPaginate`); what the
encoding makes of an INTEGER or a text column is never seen.

### Sessions, AtomicTx

The state is on the connections: `PoolOf` says which pool a connection belongs
to, and a transaction, its savepoints, its row lock and the advisory locks
belong to the connection that executed the statement. A client takes any idle
connection of its pool for a statement on the pool, and keeps one for a `Tx`. So
`LockService::release` may reach another session than `acquire` did, as in the
code. A transaction writes marks (one per statement) that stand for its rows;
a statement may fail, which aborts the transaction; a commit may fail, or its
answer may be lost; a call may be dropped at an await. `run_with_retry` and
`execute_with_retry` have their loop, their delay (`2u64.pow` modulo 2^`Bits`,
panicking or wrapping with the build) and the transaction that stays open while
they sleep. `AtomicTx` knows only that a client begins, commits a set of
statements at once, or ends without any.

### RecordApi, Records, Pivots, Store

Most of the Active Record API is one statement per method. `RecordApi` is a
table of these methods (verb, condition on soft deletes, hooks, whether a
registered repository is asked first, what is answered), and `Records` executes
an entry in one step. What takes several steps has its own actions: hooks before
and after a write with a veto, the chunked insert, `first_or_create` and
`update_or_create` inside a transaction with `SELECT ... FOR UPDATE`, the
repository that is asked again by its own override until the stack is full.
`rows` is the table, `held` the row each client has locked, `pc` and `job` where
it is. Every statement may fail.

`Pivots` has `links` (how often each target is linked), and for each caller the
list still `todo`, what it `known` to be linked when it began, and two history
variables (`alone`: nobody else wrote since; `old`: the links it found).
`Store` puts both on one set of clients; the calls of an initial state are about
the table or about the links, since no call of the code is about both.

### Requests

A request is a task: its `scope` (pool, replica, tenant) is task-local, its calls
run on one of the threads, and a call that the handler spawns sees no scope.
A call is built (the tenant filter is read then), started (the pool is resolved
then, in one of the two ways the code has), given a connection when its pool has
one, and answered or refused. A stream is a task of its own with a bounded
channel. Callbacks of the query log may panic under their mutex; counters of the
N+1 detector belong to the thread. A request may be cancelled at any point.

### Relations

Two tables, owners and posts, with a tenant and a soft-delete mark each. An eager
load is one step per query: `FetchFirst`, then a step per relation, which
queries for all keys at once and groups the answer by the position of the key,
as `eager.rs` does. A group is the answer restricted to the rows that go to one
place. Has-many-through and the polymorphic relations are one
statement. Between two steps another client changes either table.

## 3. Runs that pass

| Run | Instance | Shows |
|---|---|---|
| `QCSafety` | 2 callers, 2 keys, 2 tables, 2 row types, a writer on the RETURNING terminals; cancellation, failing queries, expiry, lost answers | `TypeOK` (waiter count never below zero), `NoOrphanedAttempt`, `OwnRows`, `FailureForgotten` |
| `QCRaces` | 2 callers that are not cancelled, 2 keys of 2 tables, a writer on `execute` and on raw SQL with `clear`; failures, expiry | `SingleLoader`, `StaleExplained` |
| `QCLive` | 2 callers of one key, 1 writer; cancellation, failures, expiry; fair | `CallReturns`, `AttemptEnds` |
| `MGConcurrent` | 2 runners at once, 3 releases, either may stop anywhere | `RecordedIsApplied`, `OkMeansRecorded` |
| `MGSerial` | one runner at a time, no failure, any sequence of runs and rollbacks | `TypeOK`, `LogMatchesSchema`, `NewestUndoneFirst` |
| `Builders` | any 3 calls on a builder; 2 columns, 16 rows with related rows, a soft-delete column, one global scope | `PlaceholdersBound`, `RowsAsAsked`, `ScopesHold`, `BridgeKeepsRows`, `CountAgrees` |
| `Paging` | every terminal, sizes 0 to 2 and the largest of a `u32`, 3 rows, 2 writes of others, a `u32` that ends at 7; fair | `OffsetSweeps` (no row twice unless others insert, none missed unless they delete; not for a DSL page of `u32::MAX` rows, see section 4), `PageTellsTheTruth` (`has_more`, totals), `WalkEnds`, `CursorIsASweep` |
| `Sessions` | 3 callers, a pool of 2 connections and one of 1; 2 statements, 2 savepoints, 4 attempts, 1 connection closed; fair | `OkIsDurable`, `ExecOnce`, `LockBetweenPools`, `LeakNeedsChoice`, `CommitsAtOnce`, `BacksOff`, `CallsReturn` |
| `Store` | 3 clients of a table of 8 ids with 2 keys, with or without a unique index; 2 targets, i64 and uuid keys; fair | `DuplicatesNeedOverlap`, `BulkIsPrefix`, `UpsertReturnsStored`, `HooksFrameTheWrite`, `PivotsConverge`, `CallsReturn` |
| `Requests` | 2 requests of 2 tenants, one with a replica; a pool of 1 connection, one named pool, streams of 2 rows over a channel of 1; fair | `OwnScope`, `EndMeansAll`, `AllEnd` |
| `Relations` | 2 owners, 2 posts, 2 tenants, a loader of several relations, 2 changes | `ChildrenOfTheirParents`, `OwnersOfTheirChildren` |

**Why the bounds are enough.**

*Cache.* Two callers already give every role the code distinguishes, because a
caller that returns calls again: one drives the loader while the other waits,
one is cancelled and the other takes over, one leaves last while the other
arrives. (Two loaders at once take three, and `QCTwoLoaders` has them.) A cell
per caller means that an allocation never waits. Two keys and two types are what
it takes to confuse them. One commit per table makes an entry stale; a second
writer adds only a second sweep.

*Runner.* Three migrations, one a creation, one a creation followed by a
backfill, one that only backfills (and so fails late, at the unique name of its
row), show every way a migration can be half done; three releases show a
migration appended and one inserted before an old one.

*Builders.* Three calls put any kind of clause before and after any other and an
OR in every position of a chain of three, which is what the precedence of an
ungrouped chain depends on. The scope, the soft-delete filter and the
conditions of joins, groups and CTEs come on top of the three. Each column has
two values besides NULL in the soft-delete column, so every row set that two
different conditions could tell apart is told apart by the sixteen rows. Lists without
members are asked for in a group, in an EXISTS and under a NOT. Trees are
`MaxDepth` = 3 deep and two conditions wide (`MaxWidth`), and `MaxParts` = 300 parts are
more than a WHERE of three such conditions, a scope and the filter can have
(`ReadableAssumption` computes how many), so every statement is written to its end.

*Paging.* Three rows in pages of one leave a first, a middle and a last page;
size 2 leaves a partial one; size 0 is the boundary the code clamps or does not.
`MaxU32` = 7 makes a page number wrap within reach; as a size it is the page that has no
room for one row more, in debug and release. One deletion before the
position and one insertion behind it are what shifts an offset; two writes allow
both.

*Sessions.* Two connections in a pool are what it takes to release a lock on
another session than took it; a second pool with one is another process. Four
attempts reach the doubling of the delay past the width of two bits and past the
cap. Two savepoints are what nesting is.

*Store.* Two upserts race and a third client writes before, between or after
them. Eight ids are never used up by the calls of a workload (`Room` is in the
guards). A list of two ids in either order and one with a duplicate is what sync
and toggle distinguish. `StackSize` and `MostCopies` bound the depth of the
repository's recursion and the copies of a link.

*Requests.* Two requests on one thread share its counters; the pool of one
connection makes a stream and the query inside its loop compete. One row less
than the channel takes, as many and more: all occur with two rows and a channel
of one.

*Relations.* Two parents are what it takes to give a child to the wrong one; a
join returns one of them twice.

The theorems of section 5 remove the bounds for the properties they cover.

**Deadlock** is checked in the runs of the cache, of the runner and of
`Requests`: no instance can get stuck. In `Builders`, `Paging`, `Sessions`,
`Store` and `Relations` calls come to an end and the system really stops
(in `Sessions`, a call may also wait for an advisory lock that nobody will
release, which `CallsReturn` names as an exception); the liveness properties
say that it stops only where a call is over.

**Fairness.** Fairness is weak and given to each task separately: a runnable task
is polled, and the database answers, with rows or an error.

- `QueryCache!FairSpec`: weak fairness of each started call as a whole, and
  strong fairness of `StartLoader` for each caller, because the semaphore inside
  `OnceCell` queues its waiters and hands the permit on in order, so that a
  waiter cannot be passed over for ever. Nothing is assumed of writers, of time,
  of cancellation or of callers that have not started a call. `AttemptEnds` has
  a premise instead: from some point on no caller is cancelled. An attempt whose
  drivers are cancelled one after the other, for ever, stays registered as long
  as new callers keep joining it.
- `Paging!FairSpec`: the caller goes on asking for pages. Others may write or not.
- `Sessions!FairSpec`: each client goes on, and the destructor of a dropped
  transaction runs. A full pool refuses whoever waits (the acquire timeout of
  sqlx), so no fairness between waiters is needed.
- `Store!StoreSpec`: each client goes on with its call.
- `Requests!Fairness`: a started call, its acquisition of a connection or its
  timeout, its answer, and each step of a stream and of its reader. Nothing is
  assumed of arriving requests or cancellation.

**Refinement.** `CursorIsASweep` says that a cursor walk of a model query by primary
key implements `Sweep`: the mapping takes the table to the set of its keys and the
caller's cursor to the position of the sweep; writes of others are the environment's steps.
`CommitsAtOnce` says that `Sessions` implements `AtomicTx` with the marks in the
database as what is committed: savepoints, rollbacks to them, failed and lost
commits are stutters or the one step in which the set appears. Both are checked
by TLC and proved.

## 4. Where code and documentation disagree

`FirstOrCreate` is the run that fails: two `first_or_create` of one key without a
unique index both insert, since `SELECT ... FOR UPDATE` locks nothing when there
is no row (`FirstOrCreateOnce`; the statement it contradicts is quoted under
`findings` in `PROJECT.json`). `DuplicatesNeedOverlap` says what remains true:
it takes two calls at a time.

Further configurations are kept as counterexamples; TLC finds the property
violated under each of them:

| Configuration, module | Property violated | What happens | Contradicts |
|---|---|---|---|
| `QCTwoLoaders`, `MCQueryCache` | `SingleLoader` | The driver is cancelled, the guard of a caller that leaves removes the attempt although another caller has already cloned it; that one takes the loader over while the next caller starts a second attempt. | `cache.rs:230-233` |
| `QCLiveLost`, `MCQueryCache` | `LiveEntriesSurvive` | `get` sees an expired entry, another caller replaces it, `get` removes the fresh one. | `caching.md:39-40` |
| `QCStaleRace`, `MCQueryCache` | `NoSilentStaleness` | The load reads, the write commits, sweeps and returns, the load puts the old rows. | `caching.md:87-88` |
| `QCStaleReturning`, `MCQueryCacheHistory` | `StaleExplained` | The RETURNING terminals commit and do not invalidate. | `caching.md:79-80` |
| `MGTwoAtOnce`, `MCMigrationRunner` | `AppliedOnce` | Two instances read the same log and both apply a backfill. | `migrations.md:53-54` |
| `MGHalfApplied`, `MCMigrationRunner` | `AllOrNothing` | Every statement of `raw_execute` commits by itself. | `migrations.md:246-247` |
| `MGOrphan`, `MCMigrationRunner` | `BatchRolledBack` | The newest batch holds a migration the release does not register: `rollback` returns `Ok`, the batch stays and hides the ones below it. | `runner.rs:184` |
| `EveryCursor`, `MCPaging` | `EveryCursorComplete` | The DSL answers with no next cursor at all: `CursorPage::new` is given the page without the extra row it looks for (`select.rs:814`, `pagination.rs:192-196`). With a page of `u32::MAX` rows it sends `LIMIT 0` besides. And the model layer puts the primary key into the cursor of any column. | `select.rs:746-748`; `model_query.rs:1050` |

Where `per_page + 1` overflows, `SelectBuilder::simple_paginate` answers a release
build's caller with an empty page that says there is no more (`select.rs:738`);
`SteadyOffset` leaves this one size out, of this one terminal.

Other promises are stated in their module beside the properties that hold, and
fail when they are put into the run's configuration:

| Run | Property | What happens |
|---|---|---|
| `Builders` | `EveryExprAsAsked` | `expr_to_condition` makes TRUE of an expression it does not know, an `EqAny` among them (`bridge.rs:59`). |
| `Builders` | `EveryListAsAsked` | An `IN` or `NOT IN` of nothing in a DSL select, or under a NOT in a model query, is written `IN ()`, a text that is refused (`dsl/expr.rs:151-179`); core answers such a list (`condition.rs:235-249`). |
| `Builders` | `BridgeKeepsLists` | The same list in a model query works until `into_dsl` makes an expression of it (`bridge.rs:118`). |
| `Builders` | `ScopesAlwaysHold` | Scopes are ANDed to a chain without brackets: after `or_where` they bind to its last alternative only (`docs/api/orm.md:138`). |
| `Sessions` | `RetryIsAtomic` | The statements of the closure run through the pool, not in the transaction, so what a failed attempt wrote stays. |
| `Sessions` | `CommitPersists` | COMMIT of an aborted transaction is answered with success and rolls back. |
| `Sessions` | `LockExclusive` | Two callers of one process get the lock when their statements happen to run on the same connection. |
| `Store` | `RepositoryAnswers` | A repository that delegates to the model, as the example in `repository.rs:13-34` does, is asked again by that call. |
| `Store` | `EveryToggleFlips` | Keys that are not `i64` are never found to be linked, so `toggle` only attaches (`pivot_query.rs:282`). |
| `Requests` | `NamedOrRefused` | An unregistered name is passed over by the reads, and `on_replica` wins over the name. |
| `Requests` | `WarnsOfOwnQueries` | The N+1 counters count the queries of every request that ran on the thread. |
| `Requests` | `LogGoesOn` | A callback that panics poisons its mutex; the log is silent from then on. |
| `Requests` | `NestedAnswers` | A query inside the loop over a stream waits for the connection the stream holds, and is refused. |
| `Relations` | `EveryParentServed` | A join returns a parent twice; the first of the two positions gets no children. |
| `Relations` | `RelationsScoped` | Through and polymorphic relations put no scope into their statement. |

`SingleLoader` and `StaleExplained` appear among the runs that pass and here:
they hold where the code keeps them and fail in the named circumstances.

Nearby instances show the same in other ways. `AppliedOnce` also fails with one
runner when `Faults = {"stop"}` lets it die between `up()` and the INSERT.
`StaleExplained` also fails when `ReadsOf` gives a key a joined table besides
the table of its prefix: a write to that table sweeps nothing. And a caller that
missed before the first load finished, and looks for an attempt after it was
removed, queries a second time although the entry is live; `SingleLoader` is
about loaders at the same time and does not exclude it.

## 5. Proofs

`QueryCacheProofs` assumes only `QueryCacheAssumption`: finitely many callers,
`None` is no cell, each key has a prefix and a set of tables.

- **TypeCorrect**, `Spec => []TypeOK`. The one type that is not obvious is
  `waiters \in [Cells -> Nat]`, since `fetch_sub` subtracts without a test. The
  invariant `TInv` adds that a cell's count equals the number of callers between
  `CountIn` and `DropGuard` that hold it (`WaitersExact`), that an Arc is held
  exactly at the pcs of `Holding`, and what a loader holds until it publishes.
- **NoOrphan**, `Spec => []NoOrphanedAttempt`, with cancellation anywhere. By
  itself the property is not inductive: a caller that leaves must know that it
  leaves nothing behind. `SInv` adds that a cell serves one key, that a cell has
  one initializer and only while it is unresolved, that a caller about to
  unregister has a resolved cell, and (`Attended`) that a registered cell that
  has resolved has a holder that is about to remove it. The caller whose
  `fetch_sub` returns 1 is by `WaitersExact` the only counted holder.
- **NoReplay**, `Spec => FailureForgotten`, from `Attended`.
- **SingleFlight**, `ASSUME "cancel" \notin Faults PROVE Spec => []SingleLoader`.
  `Undisturbed` says that without cancellation an unresolved attempt is never
  taken out of the registry; so two running loaders of one key have the
  registered cell, and a cell has one initializer. The assumption cannot be
  dropped (`QCTwoLoaders`).
- **OwnRowsAlways**, `Spec => []OwnRows`. The result in a cell answers the query
  of every caller that holds the cell, and the downcast filters the type.
- **OnlyRacesLeaveStale**,
  `ASSUME WritesSweep, ReadsItsPrefix PROVE SpecH => []StaleExplained`, for any
  callers, cancelled or not, where `SpecH` is that of `QueryCacheHistory`. The two
  assumptions exclude what is known to leave stale entries: write paths that sweep
  nothing, writes whose answer is lost, and joins. `HInv` adds that a loader which holds rows older than their table
  has been overtaken or is about to be (`LoadersExplained`), and that a writer
  at rest has nothing left to sweep.

`MigrationRunnerProofs` assumes `RunnerAssumption`.

- **TypeCorrect**, `Spec => []TypeOK`: the loop stays inside its list and
  `down()` inside its statements (`InBounds`).
- **RecordedApplied**, `ASSUME "rollback" \notin Ops PROVE Spec => []RecordedIsApplied`,
  for any number of concurrent runners. `RInv` adds that the statements before
  the current one have run (`Progress`) and that what a runner has seen or
  passed is recorded (`Behind`). Both survive other runners because log and
  `done` only grow.
- **OkRecorded**, under the same assumption `Spec => OkMeansRecorded`.
- **LogAgrees**, `ASSUME Exclusive, NoTwice, "stop" \notin Faults PROVE Spec => []LogMatchesSchema`.
  `NoTwice` asks that no release lists a migration twice (a second entry of one
  name would be applied again and fail at its row). `DInv` follows the one
  migration that is being applied or undone statement by statement (`Halfway`),
  says that all others agree with the log, and that what the runner read before
  its loop is still true (`Knows`), which is where exclusiveness is needed.
- **UndoOrder**, `ASSUME Exclusive PROVE Spec => NewestUndoneFirst`, failures
  included. `OInv` adds that ids and batches grow together and that what is left
  of the batch being undone is on the list of `rollback()` or not registered.

`PagingProofs` assumes `PagingAssumption`: there are finitely many rows, keys,
ranks, sizes and bounds are numbers, and each row has a rank of its own.

- **NoRowTwice** and **NoRowMissed**, for cursors of a model query over the primary
  key, for any page size (`per_page + 1` is a `usize` there): no row is handed over twice, and at the end every row that was there all the time has
  been. The invariant says that what was served lies below the cursor, and that
  a row below the cursor that was always there was served.
- **CursorsSweep**, `Spec => CursorIsASweep`, for the same walks: the initial states map to initial
  states of `Sweep`, and every step to a step of it or a stutter.
- **PagesSweep**, `Spec /\ []SmallTable => []OffsetSweeps`, and
  **PagesTellTheTruth**, `Spec /\ []SmallTable => []PageTellsTheTruth`, for any
  page size but the one `SteadyOffset` leaves out, any page to begin with and any
  writes of others. `SmallTable` says
  that the number of rows fits the width of the page arithmetic; on a larger
  table page numbers may wrap, and a walk may begin again. `OInv` speaks of the
  place of a row, the number of rows before it in the order of the query: without
  an insert what was handed over is placed before the offset, without a delete a
  row that stays and is placed before the offset has been handed over. `HInv`
  makes this exact on a table nobody writes to (the rows handed over are the rows
  placed before the offset), from which the totals and `more` follow by counting.

`RequestsProofs` assumes `BoundsAssumption` and `RoutesAssumption`.

- **ScopesApart**, `Spec => OwnScope`. The invariant `OwnQuery` ties the filter
  of a call that is under way to the scope its request had when it was built;
  no other request can change either.
- **EndIsTheEnd**, `Spec => EndMeansAll`, for a channel of any size. The
  invariant `Sound` counts: rows read and rows in the channel are the rows sent;
  an error is the last item; a sender that closed without an error had sent all.

`SessionsProofs` assumes `SessionsAssumption`. Each step of a client is first
classified (`StepOf`): by what it does to its transaction, to its connection and
to the lock table, so that an invariant is carried over kinds of steps instead
of over every action.

- **TransactionsAreAtomic**, `Spec => CommitsAtOnce`, and **CommittedIsDurable**,
  `Spec => []OkIsDurable`. `TxInv` says that what is pending in an open, sound
  transaction is what it acknowledged, and that a savepoint holds what was
  acknowledged before it; so a rollback to a savepoint and the caller's own
  account agree.
- **RetriedOnce**, `Spec => []ExecOnce`: the loop of `execute_with_retry` goes on
  only after an answer that says nothing was written.
- **ExcludesPools**, `Spec => []LockBetweenPools`, and **LeaksNeedChoice**,
  `Spec => []LeakNeedsChoice`. Callers of one process share sessions, so that
  the lock's holder is not a caller but a connection. `Excludes`: while nothing
  is closed, the depth of a pool's lock is at least the number of its callers
  that have it; `Matches`: the only connection of a pool is never deeper than
  that, unless a caller was answered with an error.
- **PausesGrow**, `Spec => BacksOff`, for counters of any width, any base and any
  cap. `Pauses` says that the pause of a loop is that of an attempt it has made.
  That powers of two grow is a fact about data; it is obtained without induction
  from the subsets of `1 .. n`, of which there are 2^n and which are fewer for
  a smaller n (`PowersGrow`).

`StoreProofs` has the invariants of the table for `RecordsSpec` first, and lifts them
to `StoreSpec`, where a step is either of the table or of the links.
They assume `RecordsAssumption`, `StartingAssumption` and `HookedAssumption`
(the starting tables and the calls are of their types, a hooked call is of a
method that has hooks) and `LinksAssumption`, `PivotsAssumption`.

- **StoreReturnsStored**, `StoreSpec => UpsertReturnsStored`. `Owned` says that
  a row an upsert has locked or inserted stays as it is until its COMMIT: ids
  not yet handed out are free, locks are apart, and a locked row is there.
- **StoreDuplicatesOverlap**, `StoreSpec => []DuplicatesNeedOverlap`. `Knowing`
  says what an upsert knows of the rows of its key that were in the table when it
  began, whoever writes since.
- **StoreHooksFrame**, `StoreSpec => HooksFrameTheWrite`.
- **StoreSendsPrefix**, `StoreSpec => []BulkIsPrefix`. `Sendings` ties the rows a
  chunked insert has made to the number it counts (`Made`, `made`): their keys are
  those of the first `made` rows it was given, whole chunks of them, while rows of
  other calls come and go. The property is about workloads in which nobody
  deletes (`NobodyDeletes`): what another client deletes is no longer made.
- **PivotsDoAsTheySay**, `StoreSpec => PivotsConverge`. `Converging` follows a
  sync or toggle that nobody disturbs: of what it has handled the links are as
  asked, of the rest as it found them; a duplicate in its list finds its link
  handled.

`RelationsProofs` assumes `RelationsAssumption`: ids are finitely many, the tables
have a place for each, and an eager load asks for relations of its model. Its
invariant `Inv` says that what a loader holds is a list, that owners are related
by their own id, and that what is left to load are relations of that model; what
the tables hold does not occur in it, so others may change them between any two
statements.

- **ParentsGetTheirChildren**, `Spec => ChildrenOfTheirParents`. The lemmas are
  about the grouping: a key has one place (`Place`, the last position that has
  it), so a child that a statement returned is in one group, that of its parent,
  and `has_one` keeps one child of each group that has any.
- **ChildrenGetTheirOwner**, `Spec => OwnersOfTheirChildren`: the map from keys to
  owners has each owner the statement returned.

`BuilderProofs`, whose terms are defined in `BuilderTerms`, assumes `CallerAssumption` and `MaxPartsAssumption`: words, values, trees
and nested builders are any sets, of any size and depth, and a statement has any
number of parts.

- **ParametersMeetTheirPlaceholders**, `Spec => []PlaceholdersBound`, and for one
  builder **BuildersBind**. A statement with placeholders and the same statement with
  its values written out are followed side by side. `Meets` says of two such texts
  that they have the same tokens, that `$k` stands where the k-th parameter is
  written out and `?` where its turn comes, and that every parameter is asked for.
  Two facts carry the argument. `PutMeets`: texts that meet still meet when a text is
  put after each, whose numbers have been shifted by the parameters before it; this
  covers a leaf, a CTE and the right of a set operation alike. `StepAbreast`: one `Step`
  of the two writings leaves them with parts that are `Twins`, the same trees to be
  written, and waiting statements that meet. So `Written` keeps them abreast for
  any number of steps (`WrittenMeets`), by induction on the number of steps and not on
  the tree. The case that is left out of the property, an UPDATE with CTEs, is
  just where a text is put without shifting (`PutAsIs`). **BuildersStayBuilders**,
  `Spec => []Built`, is the inductive invariant: whatever is called, what the caller
  holds is made of trees as assumed.
- **CountsCountTheRows**, `Spec => []CountAgrees`: under the premises of the property
  the count and the select are written from the same parts.
- **WhatIsAskedIsRead**, `Spec => []RowsAsAsked`, and **ScopesHoldForAll**,
  `Spec => []ScopesHold`, under `ReadableAssumption` too: trees of any depth and width, any
  number of conditions, scopes and rows. What `RowsAsAsked` leaves out, the theorem leaves out:
  lists without members that the DSL writes are refused, and only a tree without them
  (`IsFilled`, `FilledAre`) is read as one condition wherever the DSL writes it. The argument has four parts. `Turns(text, f, g)`
  says that reading a text turns the innermost frame f of the stack into g, whatever is
  under it, and `Reading(text, x)` that the text is one condition that holds for the
  rows x; parentheses, NOT and EXISTS make one condition of what is inside
  (`ReadingParenthesis`), and so does any text whose reading does not end before its
  last token (`ReadingAtom`, for raw text). `ChainSays`: a chain of such conditions is read as its
  alternatives between the ORs, by induction on its length. `Says` joins the writing and the
  reading of a tree: with the values written out it becomes, in a bounded number of steps,
  a text that is one condition for the rows x. `LevelsTell` says of every readable
  tree that these are the rows it means (`Tells`), by induction on the level. `WhereRowsAre` takes
  this to the dialects with placeholders, since texts that meet are read alike.
  The inductive invariant `Asking` ties the builders to what was asked: the i-th condition of
  a model query is read as the i-th that was asked for means (`Keeps`), although the two
  differ where `where_op` writes raw text; the two lists of a select have the expressions asked for with
  their word, in whatever order. `Sifts` says that conditions joined by AND let no row through
  but those of a set, which carries the scopes and the filter over the conditions
  before them.

All of them hold for `Spec`. The run of `Builders` checks `SpecBridge`, which adds the calls that
cross the bridge. Since `Conds` and `Exprs` may be any sets of well-formed trees, those that
come over the bridge among them, what is missing for `SpecBridge` is that the two functions
give trees that are well-formed and mean the same. (For `RowsAsAsked` it is not true of every instance:
after `into_dsl` a group with an AND after an OR is folded from left to right. The
instance of the run has no such group, and `BridgeKeepsRows` names it as an exception.)

What is only model-checked: liveness (`CallReturns`, `AttemptEnds`, `WalkEnds`,
`CallsReturn` of both modules, `AllEnd`), which the prover does not cover; and
`BridgeKeepsRows`, which is about trees that the bridge makes and that no caller has.

## 6. What is left

In this order.

1. `MigrationRunner`: recovery of an interrupted rollback. A rollback that stops
   between `down()` and the DELETE leaves a recorded migration without its
   objects; `RecordedIsApplied` therefore covers `run()` alone. Splitting of
   migration files (`source.rs`).
2. An instance of `RecordApi` for the MySQL and SQLite tables, whose upserts have
   no transaction around them.
3. The transformations of `collection.rs`, against reference definitions.
4. The theorems of `BuilderProofs` for `SpecBridge` as well: that what `expr_to_condition`
   makes of a well-formed expression is a well-formed condition and means the same,
   and `BridgeKeepsRows` for the way back.

## 7. Not modelled, and why

- `status()` and `gap_warnings()` of the runner read and print; `FileSource` and
  `parse_up_down` split text.
- Window functions, loaded values and page links are output that no other part
  reads back.
- Search, filter and sort turn request parameters into query fragments and keep
  no state; casts, resources and factories convert values; `collection.rs`
  transforms vectors in memory.
- The MySQL and SQLite back ends are in `RecordApi` and `CoreQuery` as statements;
  no run executes them, since each call is one statement.
- The dispatchers of hooks inside the executor and `without_events` have empty
  bodies in this version: there is nothing to model. Hooks run in the record
  layer, and there they are in `Records`.
- The round-robin counter of `core/replica.rs` is used by no path that sends a
  query; `on_replica` (in `Requests`) takes the replica of the middleware.
- The schema cache is a map behind one mutex; the inspector runs queries.
- The derive macros run at compile time; the `rok` binary parses arguments
  around the migration runner.
