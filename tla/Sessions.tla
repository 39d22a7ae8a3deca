------------------------------ MODULE Sessions ------------------------------
(***************************************************************************)
(* Callers that share the connections of a pool: transactions (Tx, TxCtx   *)
(* with its savepoints), Tx::run_with_retry, execute_with_retry and the    *)
(* advisory locks of LockService.                                          *)
(*                                                                         *)
(* A transaction keeps one connection until it ends; everything else takes *)
(* whichever connection is free for the time of one statement.  A session- *)
(* level advisory lock belongs to the connection its statement happened to *)
(* use.  A pool gives up on a caller that waits for a connection.          *)
(***************************************************************************)
EXTENDS Integers, Sequences, FiniteSets

CONSTANTS
    Clients, Conns, NoConn,
    PoolOf,          \* PoolOf[x]: the pool (process) of a client or connection
    Workloads,       \* the calls the clients may make, functions on Clients
    Names,           \* names of savepoints
    MaxAttempts, BaseDelay, MaxDelay,   \* RetryConfig
    Bits,            \* the width of a u64
    MaxStatements,   \* bound: statements of one transaction
    MaxSaves,        \* bound: savepoints open at once
    MaxCloses        \* bound: connections the pools close for their age

\* exec and execs: execute_with_retry of one statement, and of several
Calls == {"none", "tx", "ctx", "retry", "exec", "execs",
          "acquire", "try", "timeout", "xact", "tryxact"}

ASSUME SessionsAssumption ==
    /\ NoConn \notin Conns /\ IsFiniteSet(Clients)
    /\ Workloads \subseteq [Clients -> Calls]
    /\ MaxAttempts \in Nat /\ BaseDelay \in Nat /\ MaxDelay \in Nat
    /\ Bits \in Nat \ {0}
    /\ MaxStatements \in Nat /\ MaxSaves \in Nat /\ MaxCloses \in Nat

VARIABLES
    job,      \* job[c]: the call c makes
    pc,       \* start, open, asked, commit, sleep, blocked, locked, done
    at,       \* at[c]: the connection c occupies
    tx,       \* tx[c]: c's transaction as the server sees it
    said,     \* said[c]: what c's statements were answered
    attempt,  \* attempt[c]: the counter of the retry loops
    delay,    \* delay[c]: the last backoff
    late,     \* late[c]: the deadline of acquire_timeout has passed
    answer,   \* answer[c]: what the call returned
    db,       \* committed writes
    lock,     \* the advisory lock: its connection and its depth
    closes    \* connections closed so far

vars == <<job, pc, at, tx, said, attempt, delay, late, answer, db, lock, closes>>
others == <<job, attempt, delay, late, closes>>

-----------------------------------------------------------------------------
(* Connections, answers and the server's view of a transaction.            *)

Free(c) == {k \in Conns : PoolOf[k] = PoolOf[c] /\ \A d \in Clients : at[d] # k}

NewTx == [failed |-> FALSE, pending |-> {}, saves |-> <<>>]
Nothing == [n |-> 0, acked |-> {}, troubled |-> FALSE]
NoLock == [conn |-> NoConn, depth |-> 0]

Init ==
    /\ job \in Workloads
    /\ pc = [c \in Clients |-> "start"]
    /\ at = [c \in Clients |-> NoConn]
    /\ tx = [c \in Clients |-> NewTx]
    /\ said = [c \in Clients |-> Nothing]
    /\ attempt = [c \in Clients |-> 0]
    /\ delay = [c \in Clients |-> 0]
    /\ late = [c \in Clients |-> FALSE]
    /\ answer = [c \in Clients |-> "none"]
    /\ db = {}
    /\ lock = NoLock
    /\ closes = 0

Goto(c, label) == pc' = [pc EXCEPT ![c] = label]
Occupy(c, k) == at' = [at EXCEPT ![c] = k]

\* the call returns; what it still owns is dropped, and sqlx rolls a dropped
\* transaction back before the connection is used again
Return(c, a) ==
    /\ Goto(c, "done")
    /\ Occupy(c, NoConn)
    /\ answer' = [answer EXCEPT ![c] = a]

NeedsConnection(c) == pc[c] \in {"start", "asked", "locked"}

\* acquire_timeout of the pool: Err(PoolTimedOut)
PoolTimesOut(c) ==
    /\ NeedsConnection(c) /\ Free(c) = {}
    /\ Return(c, "error")
    /\ UNCHANGED <<others, tx, said, db, lock>>

-----------------------------------------------------------------------------
(* Transactions.                                                           *)

Begun(c) ==
    \E k \in Free(c) :
       \/ /\ Goto(c, "open") /\ Occupy(c, k)
          /\ tx' = [tx EXCEPT ![c] = NewTx]
          /\ UNCHANGED <<others, said, answer, db, lock>>
       \/ Return(c, "error") /\ UNCHANGED <<others, tx, said, db, lock>>

TxBegin(c) == pc[c] = "start" /\ job[c] = "tx" /\ Begun(c)
CtxBegin(c) == pc[c] = "start" /\ job[c] = "ctx" /\ Begun(c)

InTx(c, layer) == pc[c] = "open" /\ job[c] = layer

Mark(c) == <<c, said[c].n + 1>>

\* mutated form: the statement goes to the pool
ExecutesOnPool(c) ==
    /\ said[c].n < MaxStatements
    /\ said' = [said EXCEPT ![c].n = @ + 1, ![c].acked = @ \cup {Mark(c)}]
    /\ db' = db \cup {Mark(c)}
    /\ UNCHANGED <<others, pc, at, tx, answer, lock>>
\* a statement that changes rows, or is answered with an error: then the
\* server refuses everything up to a ROLLBACK
Executes(c) ==
    /\ said[c].n < MaxStatements
    /\ \/ /\ ~tx[c].failed
          /\ tx' = [tx EXCEPT ![c].pending = @ \cup {Mark(c)}]
          /\ said' = [said EXCEPT ![c].n = @ + 1, ![c].acked = @ \cup {Mark(c)}]
       \/ /\ tx' = [tx EXCEPT ![c].failed = TRUE]
          /\ said' = [said EXCEPT ![c].n = @ + 1, ![c].troubled = TRUE]
    /\ UNCHANGED <<others, pc, at, answer, db, lock>>

Reads(c) ==
    /\ tx' = [tx EXCEPT ![c].failed = TRUE]
    /\ said' = [said EXCEPT ![c].troubled = TRUE]
    /\ UNCHANGED <<others, pc, at, answer, db, lock>>

\* RETURNING * that returns no row is an error the server knows nothing of
NoRowReturned(c) ==
    /\ ~tx[c].failed
    /\ said' = [said EXCEPT ![c].troubled = TRUE]
    /\ UNCHANGED <<others, pc, at, tx, answer, db, lock>>

TxFetch(c) == InTx(c, "tx") /\ Reads(c)
TxExecute(c) == InTx(c, "tx") /\ Executes(c)
TxInsertReturning(c) == InTx(c, "tx") /\ (Executes(c) \/ NoRowReturned(c))
\* no rows: Ok(0) without a statement, even in a failed transaction
TxBulkInsert(c) == InTx(c, "tx") /\ (Executes(c) \/ UNCHANGED vars)
TxUpdateOrDelete(c) == InTx(c, "tx") /\ Executes(c)

CtxFetch(c) == InTx(c, "ctx") /\ Reads(c)
CtxCreate(c) == InTx(c, "ctx") /\ Executes(c)
CtxCreateReturning(c) == InTx(c, "ctx") /\ (Executes(c) \/ NoRowReturned(c))
CtxUpdateOrDelete(c) == InTx(c, "ctx") /\ Executes(c)

\* the latest savepoint of that name, if there is one
Latest(c, name) ==
    LET saves == tx[c].saves
    IN {i \in 1 .. Len(saves) :
           /\ saves[i].name = name
           /\ \A j \in 1 .. Len(saves) : saves[j].name = name => j <= i}

CtxSavepoint(c, name) ==
    /\ InTx(c, "ctx")
    /\ \/ /\ ~tx[c].failed /\ Len(tx[c].saves) < MaxSaves
          /\ tx' = [tx EXCEPT ![c].saves =
                Append(@, [name |-> name, pending |-> tx[c].pending, n |-> said[c].n])]
          /\ UNCHANGED <<others, pc, at, said, answer, db, lock>>
       \/ tx[c].failed /\ Reads(c)

\* the statements after the savepoint are undone, and the savepoint stays
RolledBackTo(c, i) ==
    /\ tx' = [tx EXCEPT ![c] = [failed |-> FALSE, pending |-> @.saves[i].pending,
                                saves |-> SubSeq(@.saves, 1, i)]]
    /\ said' = [said EXCEPT ![c].troubled = FALSE,
                            ![c].acked = {m \in @ : m[2] <= tx[c].saves[i].n}]
    /\ UNCHANGED <<others, pc, at, answer, db, lock>>

CtxRollbackTo(c, name) ==
    /\ InTx(c, "ctx")
    /\ \/ \E i \in Latest(c, name) : RolledBackTo(c, i)
       \/ Latest(c, name) = {} /\ Reads(c)

Released(c, i) ==
    /\ tx' = [tx EXCEPT ![c].saves = SubSeq(@, 1, i - 1)]
    /\ UNCHANGED <<others, pc, at, said, answer, db, lock>>

\* mutated form: RELEASE sent as ROLLBACK TO
ReleaseUndoes(c, name) ==
    /\ InTx(c, "ctx")
    /\ \/ /\ ~tx[c].failed
          /\ \E i \in Latest(c, name) :
                tx' = [tx EXCEPT ![c].pending = tx[c].saves[i].pending,
                                 ![c].saves = SubSeq(@, 1, i - 1)]
          /\ UNCHANGED <<others, pc, at, said, answer, db, lock>>
       \/ (Latest(c, name) = {} \/ tx[c].failed) /\ Reads(c)
CtxRelease(c, name) ==
    /\ InTx(c, "ctx")
    /\ \/ ~tx[c].failed /\ \E i \in Latest(c, name) : Released(c, i)
       \/ (Latest(c, name) = {} \/ tx[c].failed) /\ Reads(c)

\* COMMIT of a failed transaction is answered without an error and rolls back;
\* of a good one it succeeds, or is refused, or its answer is lost
Commits(c) ==
    /\ \/ Return(c, "ok") /\ db' = db \cup (IF tx[c].failed THEN {} ELSE tx[c].pending)
       \/ Return(c, "error") /\ UNCHANGED db
       \/ ~tx[c].failed /\ Return(c, "error") /\ db' = db \cup tx[c].pending
    /\ UNCHANGED <<others, tx, said, lock>>

RollsBack(c) ==
    /\ \/ Return(c, "undone")
       \/ Return(c, "error")
    /\ UNCHANGED <<others, tx, said, db, lock>>

TxCommit(c) == InTx(c, "tx") /\ Commits(c)
TxRollback(c) == InTx(c, "tx") /\ RollsBack(c)
CtxCommit(c) == InTx(c, "ctx") /\ Commits(c)
CtxRollback(c) == InTx(c, "ctx") /\ RollsBack(c)

Drop(c) ==
    /\ pc[c] = "open"
    /\ Return(c, "undone")
    /\ UNCHANGED <<others, tx, said, db, lock>>

Transaction(c) ==
    \/ TxBegin(c) \/ TxFetch(c) \/ TxExecute(c) \/ TxInsertReturning(c)
    \/ TxBulkInsert(c) \/ TxUpdateOrDelete(c) \/ TxCommit(c) \/ TxRollback(c)
    \/ CtxBegin(c) \/ CtxFetch(c) \/ CtxCreate(c) \/ CtxCreateReturning(c)
    \/ CtxUpdateOrDelete(c) \/ CtxCommit(c) \/ CtxRollback(c) \/ Drop(c)
    \/ \E name \in Names :
          CtxSavepoint(c, name) \/ CtxRollbackTo(c, name) \/ CtxRelease(c, name)

-----------------------------------------------------------------------------
(* The retry loops.                                                        *)

\* 40001 and 40P01: the statement has been rolled back
RetriesLost(result) == result \in {"serialization", "lost"}
IsRetryable(result) == result = "serialization"

OneStatement ==
    {[wrote |-> TRUE, result |-> "ok"], [wrote |-> FALSE, result |-> "serialization"],
     [wrote |-> FALSE, result |-> "constraint"],
     [wrote |-> TRUE, result |-> "lost"], [wrote |-> FALSE, result |-> "lost"]}

SeveralStatements ==
    OneStatement \cup {[wrote |-> TRUE, result |-> "serialization"],
                       [wrote |-> TRUE, result |-> "constraint"]}

\* mutated forms: without the cap; with a product that wraps
DelayUncapped(n) == BaseDelay * 2 ^ (n - 1)
DelayWraps(n) ==
    LET product == (BaseDelay * 2 ^ (n - 1)) % 2 ^ Bits
    IN IF product < MaxDelay THEN product ELSE MaxDelay
\* base * 2^(n - 1), saturating, capped; the power itself wraps to 0
Delay(n) ==
    LET power == IF n - 1 < Bits THEN 2 ^ (n - 1) ELSE 0
        product == IF BaseDelay * power < 2 ^ Bits THEN BaseDelay * power
                   ELSE 2 ^ Bits - 1
    IN IF product < MaxDelay THEN product ELSE MaxDelay

\* overflow of the power: a build with overflow checks panics, others wrap
MayPanic(n) == n - 1 >= Bits

Written(c) == {m \in db : m[1] = c}

\* the end of one turn of a loop that has called its closure n times
Turned(c, outcome, n, continue) ==
    /\ db' = db \cup (IF outcome.wrote
                      THEN {<<c, Cardinality(Written(c)) + 1>>} ELSE {})
    /\ \/ /\ outcome.result = "ok"
          /\ continue
          /\ UNCHANGED delay
       \/ /\ IsRetryable(outcome.result) /\ n < MaxAttempts
          /\ delay' = [delay EXCEPT ![c] = Delay(n)]
          /\ Goto(c, "sleep") /\ UNCHANGED <<at, answer>>
       \/ /\ IsRetryable(outcome.result) /\ n < MaxAttempts /\ MayPanic(n)
          /\ Return(c, "panic") /\ UNCHANGED delay
       \/ /\ outcome.result # "ok"
          /\ ~(IsRetryable(outcome.result) /\ n < MaxAttempts)
          /\ Return(c, "error") /\ UNCHANGED delay
    /\ UNCHANGED <<job, tx, said, late, lock, closes>>

Counted(c) == attempt' = [attempt EXCEPT ![c] = @ + 1]

\* Tx::run_with_retry: a transaction first, then the closure.  The future of
\* the closure cannot borrow the Tx (its type must not depend on the borrow),
\* so its statements run through the pool.
RetryBegin(c) ==
    /\ pc[c] = "start" /\ job[c] = "retry"
    /\ Counted(c)
    /\ \E k \in Free(c) :
          \/ Goto(c, "asked") /\ Occupy(c, k) /\ UNCHANGED answer
          \/ Return(c, "error")
    /\ UNCHANGED <<job, delay, late, closes, tx, said, db, lock>>

RetryClosure(c) ==
    /\ pc[c] = "asked" /\ Free(c) # {}
    /\ \E outcome \in SeveralStatements :
          Turned(c, outcome, attempt[c], Goto(c, "commit") /\ UNCHANGED <<at, answer>>)
    /\ UNCHANGED attempt

\* an error of the commit is returned, whatever its code
RetryCommit(c) ==
    /\ pc[c] = "commit"
    /\ Return(c, "ok") \/ Return(c, "error")
    /\ UNCHANGED <<others, tx, said, db, lock>>

\* executor::execute_with_retry
ExecAttempt(c) ==
    /\ pc[c] = "start" /\ job[c] \in {"exec", "execs"} /\ Free(c) # {}
    /\ Counted(c)
    /\ \E outcome \in (IF job[c] = "exec" THEN OneStatement ELSE SeveralStatements) :
          Turned(c, outcome, attempt[c] + 1, Return(c, "ok"))

\* the sleep is over; run_with_retry drops its transaction only now
Wake(c) ==
    /\ pc[c] = "sleep"
    /\ Goto(c, "start") /\ Occupy(c, NoConn)
    /\ UNCHANGED <<others, tx, said, answer, db, lock>>

Retrying(c) ==
    RetryBegin(c) \/ RetryClosure(c) \/ RetryCommit(c) \/ ExecAttempt(c) \/ Wake(c)

-----------------------------------------------------------------------------
(* Advisory locks: the server's side.                                      *)

\* a session gets a lock that it has already
CanLock(k) == lock.depth = 0 \/ lock.conn = k
Deeper(k) == lock' = [conn |-> k, depth |-> lock.depth + 1]

\* a session that does not hold the lock releases nothing
ReleasedBy(k) ==
    lock' = CASE lock.conn # k -> lock
              [] lock.conn = k /\ lock.depth > 1 -> [lock EXCEPT !.depth = @ - 1]
              [] OTHER -> NoLock

-----------------------------------------------------------------------------
(* LockService.                                                            *)

Keep == UNCHANGED <<others, tx, said, db>>
Has(c) == Goto(c, "locked") /\ Occupy(c, NoConn) /\ UNCHANGED answer
Waits(c, k) == Goto(c, "blocked") /\ Occupy(c, k) /\ UNCHANGED <<answer, lock>>

Acquire(c) ==
    /\ pc[c] = "start" /\ job[c] = "acquire"
    /\ \E k \in Free(c) : \/ CanLock(k) /\ Deeper(k) /\ Has(c)
                          \/ ~CanLock(k) /\ Waits(c, k)
    /\ Keep

\* the transaction of the statement ends with it, and the lock with that
AcquireXact(c) ==
    /\ pc[c] = "start" /\ job[c] = "xact"
    /\ \E k \in Free(c) : \/ CanLock(k) /\ Return(c, "true") /\ UNCHANGED lock
                          \/ ~CanLock(k) /\ Waits(c, k)
    /\ Keep

TryAcquireXact(c) ==
    /\ pc[c] = "start" /\ job[c] = "tryxact"
    /\ \E k \in Free(c) : \/ CanLock(k) /\ Return(c, "true") /\ UNCHANGED lock
                          \/ ~CanLock(k) /\ Return(c, "false") /\ UNCHANGED lock
    /\ Keep

\* the server answers a caller that waits
Unblocked(c) ==
    /\ pc[c] = "blocked"
    /\ CanLock(at[c])
    /\ \/ job[c] = "acquire" /\ Deeper(at[c]) /\ Has(c)
       \/ job[c] = "xact" /\ Return(c, "true") /\ UNCHANGED lock
    /\ Keep

\* mutated form: any answer of pg_try_advisory_lock counts as the lock
TakesAnyAnswer(c, refused) ==
    \E k \in Free(c) : \/ CanLock(k) /\ Deeper(k) /\ Has(c)
                       \/ ~CanLock(k) /\ Has(c) /\ UNCHANGED lock
Tries(c, refused) ==
    \E k \in Free(c) : \/ CanLock(k) /\ Deeper(k) /\ Has(c)
                       \/ ~CanLock(k) /\ refused /\ UNCHANGED lock

TryAcquire(c) ==
    /\ pc[c] = "start" /\ job[c] = "try"
    /\ Tries(c, Return(c, "false"))
    /\ Keep

\* mutated form: the clock is never read
PollsForEver(c) ==
    /\ pc[c] = "start" /\ job[c] = "timeout"
    /\ Tries(c, UNCHANGED <<pc, at, answer>>)
    /\ Keep
\* one poll of acquire_timeout: the clock is read after a refusal only
AcquireTimeout(c) ==
    /\ pc[c] = "start" /\ job[c] = "timeout"
    /\ Tries(c, IF late[c] THEN Return(c, "false") ELSE UNCHANGED <<pc, at, answer>>)
    /\ Keep

DeadlinePasses(c) ==
    /\ pc[c] = "start" /\ job[c] = "timeout" /\ ~late[c]
    /\ late' = [late EXCEPT ![c] = TRUE]
    /\ UNCHANGED <<job, pc, at, tx, said, attempt, delay, answer, db, lock, closes>>

\* mutated form: nothing is sent
ReleaseForgotten(c) ==
    pc[c] = "locked" /\ Return(c, "ok") /\ UNCHANGED lock /\ Keep
\* on whichever connection is free; the answer of pg_advisory_unlock is ignored
Release(c) ==
    /\ pc[c] = "locked"
    /\ \E k \in Free(c) : ReleasedBy(k)
    /\ Return(c, "ok")
    /\ Keep

\* any of these statements may fail instead, and so may a wait
LockStatementFails(c) ==
    /\ \/ pc[c] = "start" /\ job[c] \in {"acquire", "try", "timeout", "xact", "tryxact"}
       \/ pc[c] \in {"blocked", "locked"}
    /\ pc[c] # "blocked" => Free(c) # {}
    /\ Return(c, "error")
    /\ UNCHANGED lock
    /\ Keep

Locking(c) ==
    \/ Acquire(c) \/ AcquireXact(c) \/ TryAcquireXact(c) \/ Unblocked(c)
    \/ TryAcquire(c) \/ AcquireTimeout(c) \/ DeadlinePasses(c) \/ Release(c)

-----------------------------------------------------------------------------
(* The pool replaces an idle connection: its session ends, and its locks.  *)

Close(k) ==
    /\ closes < MaxCloses
    /\ \A c \in Clients : at[c] # k
    /\ closes' = closes + 1
    /\ lock' = IF lock.conn = k THEN NoLock ELSE lock
    /\ UNCHANGED <<job, pc, at, tx, said, attempt, delay, late, answer, db>>

ClientStep(c) == Transaction(c) \/ Retrying(c) \/ Locking(c) \/ PoolTimesOut(c)

Next ==
    \/ \E c \in Clients : ClientStep(c) \/ LockStatementFails(c)
    \/ \E k \in Conns : Close(k)

Spec == Init /\ [][Next]_vars

\* tasks are polled, statements answered, clocks run; transactions are ended
FairSpec ==
    Spec /\ \A c \in Clients : WF_vars(ClientStep(c)) /\ WF_vars(Drop(c))

-----------------------------------------------------------------------------
(* Properties.                                                             *)

Marks == Clients \X (Nat \ {0})

Savepoints == [name : Names, pending : SUBSET Marks, n : Nat]

\* every variable stays within the values the code can give it
TypeOK ==
    /\ job \in Workloads
    /\ pc \in [Clients -> {"start", "open", "asked", "commit", "sleep",
                           "blocked", "locked", "done"}]
    /\ at \in [Clients -> Conns \cup {NoConn}]
    /\ tx \in [Clients -> [failed : BOOLEAN, pending : SUBSET Marks,
                           saves : Seq(Savepoints)]]
    /\ said \in [Clients -> [n : 0 .. MaxStatements, acked : SUBSET Marks,
                             troubled : BOOLEAN]]
    /\ attempt \in [Clients -> Nat]
    /\ delay \in [Clients -> 0 .. MaxDelay]
    /\ late \in [Clients -> BOOLEAN]
    /\ answer \in [Clients -> {"none", "ok", "error", "undone", "true", "false", "panic"}]
    /\ db \subseteq Marks
    /\ lock \in [conn : Conns \cup {NoConn}, depth : Nat]
    /\ closes \in 0 .. MaxCloses

InTransaction(c) == job[c] \in {"tx", "ctx"}

\* A transaction whose statements have all been answered without an error, or
\* that went back to a savepoint after the last error, and whose commit
\* answered Ok is in the database: everything that was acknowledged and not
\* undone, and nothing else.
OkIsDurable ==
    \A c \in Clients :
       InTransaction(c) /\ answer[c] = "ok" /\ ~said[c].troubled
       => Written(c) = said[c].acked

\* Tx and TxCtx implement transactions: see AtomicTx.
Atomic == INSTANCE AtomicTx WITH
    Txs <- Clients,
    MaxWork <- MaxStatements,
    store <- {m \in db : InTransaction(m[1])},
    work <- [c \in Clients |-> IF InTransaction(c) THEN said[c].acked ELSE {}],
    over <- {c \in Clients : InTransaction(c) /\ pc[c] = "done"}

CommitsAtOnce == Atomic!Spec

\* Retrying one statement takes effect once when the call answers Ok, and
\* never twice: only errors that undid the statement are retried.
ExecOnce ==
    \A c \in Clients : job[c] = "exec" =>
       /\ Cardinality(Written(c)) <= 1
       /\ answer[c] = "ok" => Written(c) # {}
       /\ pc[c] \in {"start", "sleep"} => Written(c) = {}

\* The pauses of a retry loop grow up to the cap, as long as the power of two
\* fits into a u64.
BacksOff ==
    [][\A c \in Clients : attempt'[c] <= Bits =>
          delay[c] <= delay'[c] /\ delay'[c] <= MaxDelay]_vars

Holds(c) == pc[c] = "locked"
Holders(pool) == {c \in Clients : Holds(c) /\ PoolOf[c] = pool}

\* Between processes a session-level lock excludes: while no pool closes a
\* connection, two callers that both have the lock use the same pool.
LockBetweenPools ==
    closes = 0 => \A c, d \in Clients : Holds(c) /\ Holds(d) => PoolOf[c] = PoolOf[d]

\* A lock that nobody holds stays behind only where a pool has several
\* connections to release it on, or where a release was answered with an error.
LeakNeedsChoice ==
    \A k \in Conns :
       /\ lock.conn = k
       /\ \A j \in Conns : PoolOf[j] = PoolOf[k] => j = k
       /\ \A c \in Clients : PoolOf[c] = PoolOf[k] => answer[c] # "error"
       => Holders(PoolOf[k]) # {}

\* Every call that does not wait for the lock itself comes back: attempts are
\* bounded, deadlines pass, and a full pool gives up on whoever waits.
CallsReturn ==
    \A c \in Clients : job[c] \notin {"none", "acquire", "xact"} ~> pc[c] = "done"

\* "Run a closure inside a transaction": but see RetryClosure
RetryIsAtomic ==
    \A c \in Clients : job[c] = "retry" =>
       /\ answer[c] = "error" => Written(c) = {}
       /\ answer[c] = "ok" => Cardinality(Written(c)) = 1

\* "Call commit to persist changes": but see Commits
CommitPersists ==
    \A c \in Clients :
       InTransaction(c) /\ answer[c] = "ok" => Written(c) = said[c].acked

\* "Acquire an exclusive session-level advisory lock": but see CanLock
LockExclusive == \A c, d \in Clients : Holds(c) /\ Holds(d) => c = d

=============================================================================
