----------------------------- MODULE QueryCache -----------------------------
(***************************************************************************)
(* The process-wide query result cache of src/orm/cache.rs: the TTL map    *)
(* QUERY_CACHE, the single-flight registry IN_FLIGHT behind                *)
(* `get_or_populate`, the two `_cached` terminals of the DSL that call it, *)
(* and the write paths that commit to the database and then call           *)
(* `invalidate_table`.                                                     *)
(*                                                                         *)
(* Every step below is one access to shared state, or one resumption of a  *)
(* task after an `.await`; tasks of a multi-threaded runtime interleave    *)
(* between any two of them.  A task can be cancelled (its future dropped)  *)
(* only where it is suspended.                                             *)
(***************************************************************************)
EXTENDS Integers, FiniteSets

CONSTANTS
    Callers,     \* tasks that run fetch_all_cached / fetch_optional_cached
    Writers,     \* tasks that write through the crate
    Keys,        \* rendered cache keys
    Tables,      \* database tables
    Types,       \* Rust row types a caller can ask for
    Cells,       \* heap addresses of Arc<InFlight> values
    None,        \* "no Arc<InFlight>"
    PrefixOf,    \* PrefixOf[k]: the "{table}:" prefix of the key
    ReadsOf,     \* ReadsOf[k]: every table the rendered SQL reads
    TypeOf,      \* TypeOf[c]: the type parameter T of the caller
    WritePaths,  \* the write paths in use, see SweptBy
    Faults,      \* what the environment may do, see AllFaults
    MaxVersion   \* bound on the number of commits per table

AllWritePaths == {"execute", "returning", "raw_then_clear"}
AllFaults == {"cancel", "db_error", "expire", "lost_answer"}

ASSUME QueryCacheAssumption ==
    /\ IsFiniteSet(Callers)
    /\ None \notin Cells
    /\ PrefixOf \in [Keys -> Tables]
    /\ ReadsOf \in [Keys -> SUBSET Tables]
    /\ TypeOf \in [Callers -> Types]
    /\ WritePaths \subseteq AllWritePaths
    /\ Faults \subseteq AllFaults
    /\ MaxVersion \in Nat

VARIABLES
    db,        \* committed version of each table
    cache,     \* QUERY_CACHE
    inflight,  \* IN_FLIGHT: the cell registered for a key, or None
    cell,      \* the OnceCell of each Arc<InFlight>
    waiters,   \* its waiter count
    pc,        \* where each caller is in get_or_populate
    key,       \* the key of its current call
    att,       \* its Arc clone `state`, or None
    got,       \* rows it holds: read by its loader, then its result
    wpc,       \* where each writer is
    todo       \* keys its invalidate_table sweep has not visited yet

dbVars == <<db>>
attemptVars == <<inflight, cell, waiters>>
callerVars == <<pc, key, att, got>>
writerVars == <<wpc, todo>>
vars == <<db, cache, inflight, cell, waiters, pc, key, att, got, wpc, todo>>

-----------------------------------------------------------------------------
(* Data                                                                    *)

\* The rows a query returns: the version of each table it read
RowsOf(k) == [kind : {"ok"}, type : Types, snap : [ReadsOf[k] -> Nat]]
IsRows(v) == \E k \in Keys : v \in RowsOf(k)
Nothing == [kind |-> "empty"]
Failure == [kind |-> "err"]
Mismatch == [kind |-> "mismatch"]

NoEntry == [kind |-> "none"]
EntriesOf(k) == [kind : {"entry"}, live : BOOLEAN, val : RowsOf(k)]
Live(e) == e.kind = "entry" /\ e.live

Initialized(x) == cell[x] # Nothing

\* pcs between the two touches of the waiter count
Counted == {"wait", "query", "answered", "set", "unregister", "drop"}
\* pcs that hold the OnceCell's initialization permit
Initializing == {"query", "answered", "set"}
\* pcs that hold an Arc clone
Holding == {"count"} \cup Counted \cup {"check", "orphan"}
AllPcs == {"idle", "lookup", "evict", "join"} \cup Holding
\* pcs at which the result of the call is decided
Returning == {"drop", "check", "orphan", "idle"}
\* pcs at which the future is suspended and may be dropped
Suspended == {"wait", "query", "answered"}

PermitFree(x) == \A c \in Callers : ~(att[c] = x /\ pc[c] \in Initializing)

\* an address is free once its last Arc clone has been dropped
FreeCell(x) == /\ \A k \in Keys : inflight[k] # x
               /\ \A c \in Callers : att[c] # x

\* mutant: retain keeps the keys it should drop
SweptByInverted(path, t) ==
    IF path = "execute" THEN {k \in Keys : PrefixOf[k] # t} ELSE Keys

\* Which keys a completed write evicts: `execute` sweeps the prefix of its
\* table, the RETURNING terminals and the other executor helpers sweep
\* nothing, and raw SQL is followed by a manual clear().
SweptBy(path, t) ==
    CASE path = "execute" -> {k \in Keys : PrefixOf[k] = t}
      [] path = "returning" -> {}
      [] path = "raw_then_clear" -> Keys

FunctionOn(f, S) == f = [x \in S |-> f[x]]

ValuesOK ==
    /\ FunctionOn(cache, Keys)
    /\ \A k \in Keys : cache[k] \in {NoEntry} \cup EntriesOf(k)
    /\ FunctionOn(cell, Cells)
    /\ \A x \in Cells : cell[x] \in {Nothing, Failure} \/ IsRows(cell[x])
    /\ FunctionOn(got, Callers)
    /\ \A c \in Callers : got[c] \in {Nothing, Failure, Mismatch} \/ IsRows(got[c])

ControlOK ==
    /\ db \in [Tables -> 0 .. MaxVersion]
    /\ inflight \in [Keys -> Cells \cup {None}]
    /\ waiters \in [Cells -> Nat]
    /\ pc \in [Callers -> AllPcs]
    /\ key \in [Callers -> Keys]
    /\ att \in [Callers -> Cells \cup {None}]
    /\ wpc \in [Writers -> {"idle", "committed", "sweeping"}]
    /\ todo \in [Writers -> SUBSET Keys]

TypeOK == ValuesOK /\ ControlOK

Init ==
    /\ db = [t \in Tables |-> 0]
    /\ cache = [k \in Keys |-> NoEntry]
    /\ inflight = [k \in Keys |-> None]
    /\ cell = [x \in Cells |-> Nothing]
    /\ waiters = [x \in Cells |-> 0]
    /\ pc = [c \in Callers |-> "idle"]
    /\ key \in [Callers -> Keys]
    /\ att = [c \in Callers |-> None]
    /\ got = [c \in Callers |-> Nothing]
    /\ wpc = [w \in Writers |-> "idle"]
    /\ todo = [w \in Writers |-> {}]

-----------------------------------------------------------------------------
(* get_or_populate, up to its first await                                  *)

Goto(c, l) == pc' = [pc EXCEPT ![c] = l]

\* A `_cached` terminal renders its key and calls get_or_populate.
Call(c) ==
    /\ pc[c] = "idle"
    /\ \E k \in Keys : key' = [key EXCEPT ![c] = k]
    /\ got' = [got EXCEPT ![c] = Nothing]
    /\ Goto(c, "lookup")
    /\ UNCHANGED <<db, cache, attemptVars, att, writerVars>>

\* get(): an absent entry and one of another type are misses.
LookupMiss(c) ==
    /\ pc[c] = "lookup"
    /\ \/ cache[key[c]] = NoEntry
       \/ Live(cache[key[c]]) /\ cache[key[c]].val.type # TypeOf[c]
    /\ Goto(c, "join")
    /\ UNCHANGED <<db, cache, attemptVars, key, att, got, writerVars>>

LookupHit(c) ==
    /\ pc[c] = "lookup"
    /\ Live(cache[key[c]]) /\ cache[key[c]].val.type = TypeOf[c]
    /\ got' = [got EXCEPT ![c] = cache[key[c]].val]
    /\ Goto(c, "idle")
    /\ UNCHANGED <<db, cache, attemptVars, key, att, writerVars>>

\* get(): an expired entry; its guard is dropped before the removal.
LookupExpired(c) ==
    /\ pc[c] = "lookup"
    /\ cache[key[c]] # NoEntry /\ ~Live(cache[key[c]])
    /\ Goto(c, "evict")
    /\ UNCHANGED <<db, cache, attemptVars, key, att, got, writerVars>>

\* mutant: go back to the lookup and leave the expired entry in place
EvictExpiredRetry(c) ==
    /\ pc[c] = "evict"
    /\ Goto(c, "lookup")
    /\ UNCHANGED <<db, cache, attemptVars, key, att, got, writerVars>>

\* The removal is unconditional: it takes whatever is under the key by now.
EvictExpired(c) ==
    /\ pc[c] = "evict"
    /\ cache' = [cache EXCEPT ![key[c]] = NoEntry]
    /\ Goto(c, "join")
    /\ UNCHANGED <<db, attemptVars, key, att, got, writerVars>>

\* IN_FLIGHT.entry(key).or_insert_with(..).clone()
JoinExisting(c) ==
    /\ pc[c] = "join"
    /\ inflight[key[c]] # None
    /\ att' = [att EXCEPT ![c] = inflight[key[c]]]
    /\ Goto(c, "count")
    /\ UNCHANGED <<db, cache, attemptVars, key, got, writerVars>>

JoinNew(c) ==
    /\ pc[c] = "join"
    /\ inflight[key[c]] = None
    /\ \E x \in Cells :
        /\ FreeCell(x)
        /\ inflight' = [inflight EXCEPT ![key[c]] = x]
        /\ cell' = [cell EXCEPT ![x] = Nothing]
        /\ waiters' = [waiters EXCEPT ![x] = 0]
        /\ att' = [att EXCEPT ![c] = x]
    /\ Goto(c, "count")
    /\ UNCHANGED <<db, cache, key, got, writerVars>>

\* mutant: only the creator of the attempt is counted
CountInSkipped(c) ==
    /\ pc[c] = "count"
    /\ Goto(c, "wait")
    /\ UNCHANGED <<db, cache, attemptVars, key, att, got, writerVars>>

CountIn(c) ==
    /\ pc[c] = "count"
    /\ waiters' = [waiters EXCEPT ![att[c]] = @ + 1]
    /\ Goto(c, "wait")
    /\ UNCHANGED <<db, cache, inflight, cell, key, att, got, writerVars>>

-----------------------------------------------------------------------------
(* OnceCell::get_or_init and the loader                                    *)

\* The cell is resolved: take a clone of the attempt's result.
ReadCell(c) ==
    /\ pc[c] = "wait"
    /\ Initialized(att[c])
    /\ Goto(c, "unregister")
    /\ UNCHANGED <<db, cache, attemptVars, key, att, got, writerVars>>

\* This caller is the one elected to run its loader.
StartLoader(c) ==
    /\ pc[c] = "wait"
    /\ ~Initialized(att[c])
    /\ PermitFree(att[c])
    /\ Goto(c, "query")
    /\ UNCHANGED <<db, cache, attemptVars, key, att, got, writerVars>>

\* The database takes the snapshot the loader will return.
QueryReads(c) ==
    /\ pc[c] = "query"
    /\ got' = [got EXCEPT ![c] =
                  [kind |-> "ok", type |-> TypeOf[c],
                   snap |-> [t \in ReadsOf[key[c]] |-> db[t]]]]
    /\ Goto(c, "answered")
    /\ UNCHANGED <<db, cache, attemptVars, key, att, writerVars>>

QueryFails(c) ==
    /\ "db_error" \in Faults
    /\ pc[c] = "query"
    /\ got' = [got EXCEPT ![c] = Failure]
    /\ Goto(c, "set")
    /\ UNCHANGED <<db, cache, attemptVars, key, att, writerVars>>

\* put() inside the initializer, before the cell is set.
Put(c) ==
    /\ pc[c] = "answered"
    /\ cache' = [cache EXCEPT ![key[c]] =
                    [kind |-> "entry", live |-> TRUE, val |-> got[c]]]
    /\ Goto(c, "set")
    /\ UNCHANGED <<db, attemptVars, key, att, got, writerVars>>

SetCell(c) ==
    /\ pc[c] = "set"
    /\ cell' = [cell EXCEPT ![att[c]] = got[c]]
    /\ Goto(c, "unregister")
    /\ UNCHANGED <<db, cache, inflight, waiters, key, att, got, writerVars>>

-----------------------------------------------------------------------------
(* The way out: remove_if, the downcast, WaiterGuard::drop                 *)

\* mutant: remove whatever attempt is registered under the key
RemoveAny(c) == inflight' = [inflight EXCEPT ![key[c]] = None]

\* mutant: a resolved attempt stays registered
RemoveNothing(c) == UNCHANGED inflight

\* IN_FLIGHT.remove_if(key, ptr_eq)
RemoveIfSame(c) ==
    inflight' = [inflight EXCEPT ![key[c]] = IF @ = att[c] THEN None ELSE @]

\* mutant: no downcast
ResultAsIs(c) == cell[att[c]]

\* Downcast of the shared result to the caller's T.
ResultFor(c) ==
    IF cell[att[c]].kind = "ok" /\ cell[att[c]].type # TypeOf[c]
    THEN Mismatch ELSE cell[att[c]]

Unregister(c) ==
    /\ pc[c] = "unregister"
    /\ RemoveIfSame(c)
    /\ got' = [got EXCEPT ![c] = ResultFor(c)]
    /\ Goto(c, "drop")
    /\ UNCHANGED <<db, cache, cell, waiters, key, att, writerVars>>

\* The caller's future is dropped where it is suspended; the permit, if it
\* held one, goes back to the OnceCell before the guard runs.
\* (A caller at "wait" may be between its increment and its first await, where
\* it cannot be dropped: it could as well have awaited first, with no effect.)
Cancel(c) ==
    /\ "cancel" \in Faults
    /\ pc[c] \in Suspended
    /\ got' = [got EXCEPT ![c] = Nothing]
    /\ Goto(c, "drop")
    /\ UNCHANGED <<db, cache, attemptVars, key, att, writerVars>>

\* mutant: compares the count that is left, not the one fetch_sub returned
DropGuardOffByOne(c) ==
    /\ pc[c] = "drop"
    /\ waiters' = [waiters EXCEPT ![att[c]] = @ - 1]
    /\ IF waiters[att[c]] = 0
       THEN Goto(c, "check") /\ UNCHANGED att
       ELSE Goto(c, "idle") /\ att' = [att EXCEPT ![c] = None]
    /\ UNCHANGED <<db, cache, inflight, cell, key, got, writerVars>>

\* fetch_sub; only the last waiter goes on to look at the cell.
DropGuard(c) ==
    /\ pc[c] = "drop"
    /\ waiters' = [waiters EXCEPT ![att[c]] = @ - 1]
    /\ IF waiters[att[c]] = 1
       THEN Goto(c, "check") /\ UNCHANGED att
       ELSE Goto(c, "idle") /\ att' = [att EXCEPT ![c] = None]
    /\ UNCHANGED <<db, cache, inflight, cell, key, got, writerVars>>

CheckCell(c) ==
    /\ pc[c] = "check"
    /\ IF Initialized(att[c])
       THEN Goto(c, "idle") /\ att' = [att EXCEPT ![c] = None]
       ELSE Goto(c, "orphan") /\ UNCHANGED att
    /\ UNCHANGED <<db, cache, attemptVars, key, got, writerVars>>

RemoveOrphan(c) ==
    /\ pc[c] = "orphan"
    /\ RemoveIfSame(c)
    /\ att' = [att EXCEPT ![c] = None]
    /\ Goto(c, "idle")
    /\ UNCHANGED <<db, cache, cell, waiters, key, got, writerVars>>

-----------------------------------------------------------------------------
(* Time and writers                                                        *)

\* The TTL of an entry runs out.
Expire(k) ==
    /\ "expire" \in Faults
    /\ Live(cache[k])
    /\ cache' = [cache EXCEPT ![k].live = FALSE]
    /\ UNCHANGED <<db, attemptVars, callerVars, writerVars>>

\* The server commits the statement of a write.
CommitWrite(w) ==
    /\ wpc[w] = "idle"
    /\ \E t \in Tables, path \in WritePaths :
        /\ db[t] < MaxVersion
        /\ db' = [db EXCEPT ![t] = @ + 1]
        /\ todo' = [todo EXCEPT ![w] = SweptBy(path, t)]
    /\ wpc' = [wpc EXCEPT ![w] = "committed"]
    /\ UNCHANGED <<cache, attemptVars, callerVars>>

\* Ok reaches the writing task: it starts the sweep.
WriteAnswered(w) ==
    /\ wpc[w] = "committed"
    /\ wpc' = [wpc EXCEPT ![w] = "sweeping"]
    /\ UNCHANGED <<db, cache, attemptVars, callerVars, todo>>

\* The answer is an error after the commit, or the writing task is
\* cancelled while it waits for it: nothing is invalidated.
AnswerLost(w) ==
    /\ "lost_answer" \in Faults
    /\ wpc[w] = "committed"
    /\ wpc' = [wpc EXCEPT ![w] = "idle"]
    /\ todo' = [todo EXCEPT ![w] = {}]
    /\ UNCHANGED <<db, cache, attemptVars, callerVars>>

\* DashMap::retain visits shard after shard: one key at a time.
Sweep(w) ==
    /\ wpc[w] = "sweeping"
    /\ \E k \in todo[w] :
        /\ cache' = [cache EXCEPT ![k] = NoEntry]
        /\ todo' = [todo EXCEPT ![w] = @ \ {k}]
    /\ UNCHANGED <<db, attemptVars, callerVars, wpc>>

WriteReturns(w) ==
    /\ wpc[w] = "sweeping"
    /\ todo[w] = {}
    /\ wpc' = [wpc EXCEPT ![w] = "idle"]
    /\ UNCHANGED <<db, cache, attemptVars, callerVars, todo>>

-----------------------------------------------------------------------------

\* The steps a started call takes by itself
CallerStep(c) ==
    \/ LookupMiss(c) \/ LookupHit(c) \/ LookupExpired(c) \/ EvictExpired(c)
    \/ JoinExisting(c) \/ JoinNew(c) \/ CountIn(c) \/ ReadCell(c)
    \/ StartLoader(c) \/ QueryReads(c) \/ QueryFails(c) \/ Put(c)
    \/ SetCell(c) \/ Unregister(c) \/ DropGuard(c) \/ CheckCell(c)
    \/ RemoveOrphan(c)

WriterStep(w) ==
    CommitWrite(w) \/ WriteAnswered(w) \/ AnswerLost(w) \/ Sweep(w)
    \/ WriteReturns(w)

Next ==
    \/ \E c \in Callers : Call(c) \/ CallerStep(c) \/ Cancel(c)
    \/ \E k \in Keys : Expire(k)
    \/ \E w \in Writers : WriterStep(w)

Spec == Init /\ [][Next]_vars

\* Every runnable task is eventually polled and the database eventually
\* answers; the semaphore inside OnceCell queues its waiters, so one that is
\* passed over cannot be passed over for ever.  Nothing makes a task start a
\* call, and nothing is assumed of writers, cancellation or time.
Fairness ==
    \A c \in Callers : WF_vars(CallerStep(c)) /\ SF_vars(StartLoader(c))

FairSpec == Spec /\ Fairness

-----------------------------------------------------------------------------
(* Properties                                                              *)

\* Nothing leaks: an attempt that is still registered is held by a caller
\* that is on its way to resolve it or to remove it, whatever callers were
\* cancelled and wherever (WaiterGuard, cache.rs:195-220; changelog: "no
\* permanent growth from abandoned keys").
NoOrphanedAttempt ==
    \A k \in Keys : inflight[k] # None =>
        \E c \in Callers : att[c] = inflight[k]

\* A caller is only ever handed rows of its own type that answer its own
\* query, whether they come from the cache, from its loader or from an attempt
\* it joined, and although two callers of one key may ask for different types
\* (the downcasts of cache.rs:96-105 and 302-306).
OwnRows ==
    \A c \in Callers :
        pc[c] \in Returning /\ got[c].kind = "ok" =>
            /\ got[c].type = TypeOf[c]
            /\ got[c].snap \in [ReadsOf[key[c]] -> Nat]

Running(c) == pc[c] \in Initializing

\* At most one loader runs per key at any time ("N concurrent misses for the
\* same key produce 1 query, not N", cache.rs:24-25).  The code keeps this only
\* as long as no caller is cancelled: then the attempt of a running loader is
\* the registered one, and every caller that misses finds it.
SingleLoader ==
    \A c, d \in Callers :
        Running(c) /\ Running(d) /\ key[c] = key[d] => c = d

\* A failure is not replayed: whoever joins an attempt that has failed does so
\* while a caller of that attempt is still on its way to remove it; a call that
\* starts after that one has returned runs its own loader ("the next caller
\* retries `loader` from scratch rather than replaying the failure",
\* cache.rs:240-242).
FailureForgotten ==
    [][\A c \in Callers :
          JoinExisting(c) /\ cell[att'[c]] = Failure =>
              \E d \in Callers : att[d] = att'[c] /\ pc[d] = "unregister"]_vars

\* A live entry leaves the cache only by a sweep ("every call within the TTL
\* after that is served from the cache", guides/caching.md:39-40).
LiveEntriesSurvive ==
    [][\A k \in Keys : Live(cache[k]) /\ cache'[k] = NoEntry =>
          \E w \in Writers : k \in todo[w]]_vars

\* An entry whose rows are older than the tables they were read from
StaleOn(k, t) ==
    /\ cache[k] # NoEntry
    /\ t \in ReadsOf[k]
    /\ cache[k].val.snap[t] < db[t]

\* No silent staleness: once every write has returned, each live entry has
\* the rows the database has ("nothing goes silently stale on any write path
\* the DSL or Active Record layer controls", guides/caching.md:87-88).
NoSilentStaleness ==
    (\A w \in Writers : wpc[w] = "idle") =>
        \A k \in Keys, t \in Tables : Live(cache[k]) => ~StaleOn(k, t)

\* Every call of a `_cached` terminal returns, or its future has been dropped:
\* no caller waits for ever on an attempt nobody drives.
CallReturns ==
    \A c \in Callers : (pc[c] = "lookup") ~> (pc[c] = "idle")

\* An attempt does not stay registered: it resolves and is removed ("an entry
\* here is never long-lived", cache.rs:187-191), unless callers are cancelled
\* again and again for ever.
AttemptEnds ==
    <>[][\A c \in Callers : ~Cancel(c)]_vars =>
        \A k \in Keys, x \in Cells : (inflight[k] = x) ~> (inflight[k] # x)

=============================================================================
