------------------------------ MODULE Requests ------------------------------
(***************************************************************************)
(* Pool-free queries inside HTTP requests: where a query finds its pool    *)
(* (orm/postgres/pool.rs, orm/orm_layer.rs, orm/model_query.rs), where it  *)
(* finds its tenant (core/tenant.rs, core/model.rs), what a stream spawns, *)
(* and what every statement leaves in the process-wide query log           *)
(* (orm/postgres/query_log.rs) and N+1 counters (orm/n1.rs).               *)
(*                                                                         *)
(* A request is a tokio task.  Its scopes are task-local: they do not      *)
(* reach a task it spawns.  A pool lends at most Size(pool) connections;   *)
(* whoever waits for one is refused in the end (acquire_timeout of sqlx).  *)
(* A request may be cancelled at any point: the client went away and its   *)
(* future is dropped.                                                      *)
(***************************************************************************)
EXTENDS Integers, Sequences, FiniteSets

CONSTANTS
  Requests,    \* the tasks that serve requests
  Threads,     \* the threads of the runtime; a task runs on any of them
  Pools,       \* the database pools
  Size,        \* Size[p]: max_connections of pool p
  Names,       \* names of the registry of named pools
  Tenants,     \* tenant ids
  Layers,      \* Layers[r]: the scopes that the middleware on the route of r may set up
  Plans,       \* Plans[r]: the queries that the handler of r makes
  Databases,   \* the pools that are ever registered under a name
  Callbacks,   \* what the callbacks of the query log do: "plain", "panics"
  Warm,        \* the n of warm(n, pool)
  Buffer,      \* the bound of a stream's channel, 64 in the code
  Rows,        \* bound: rows a stream has to deliver at most
  Threshold,   \* the N+1 threshold
  MaxCalls,    \* bound: calls one request makes
  MaxSettings, \* bound: changes of the registry and of the query log
  None

ASSUME BoundsAssumption ==
  /\ Buffer \in Nat \ {0} /\ Warm \in Nat \ {0} /\ Threshold \in Nat \ {0}
  /\ Rows \in Nat /\ MaxCalls \in Nat /\ MaxSettings \in Nat
  /\ Size \in [Pools -> Nat \ {0}]
  /\ Databases \subseteq Pools /\ Callbacks \subseteq {"plain", "panics"}
  /\ None \notin Pools \cup Names \cup Tenants

VARIABLES
  named,     \* NAMED_POOLS
  logger,    \* the on-query and the slow-query callback, or "poisoned"
  counters,  \* COUNTERS of each thread, for the one table of the model
  scope,     \* the task-locals of each request, None outside of one
  calls,     \* calls the request has made
  query,     \* the call the request is making, None between calls
  lease,     \* connections asked for and held, by requests and by streams
  stream,    \* the stream the request has open, None without one
  settings   \* changes of the registry and of the log so far

vars == <<named, logger, counters, scope, calls, query, lease, stream, settings>>

Layer == [pool : Pools \cup {None}, replica : Pools \cup {None}, tenant : Tenants \cup {None}]

(* A call: the terminal, the name given to on(), on_replica(), whether the *)
(* builder began with query() or with without_tenant_scope(), and whether  *)
(* the handler awaits it itself ("here"), spawns the finished query        *)
(* ("spawned") or builds it inside the task it spawns ("lazy").            *)
OverrideReads == {"get", "first", "count"}
Aggregates    == {"max", "min", "sum", "avg"}
CheckedReads  == {"value", "pluck", "pairs"}
Writes        == {"force_delete", "soft_delete", "restore"}
Plan == [call   : OverrideReads \cup Aggregates \cup CheckedReads \cup Writes
                  \cup {"last", "stream", "warm"},
         on     : Names \cup {None},
         replica: BOOLEAN,
         scoped : BOOLEAN,
         run    : {"here", "spawned", "lazy"}]

Logs == {"every", "slow"}

(* Who holds connections: the call of a request, or its stream's task. *)
Holders == Requests \X {"call", "stream"}
NoLease == [pool |-> None, want |-> 0, got |-> 0]
LeaseOf(p, n) == [pool |-> p, want |-> n, got |-> 0]

Stream == [total   : 0 .. Rows,                  \* rows the query matches
           sent    : 0 .. Rows,                  \* rows put into the channel
           seen    : 0 .. Rows,                  \* rows the handler has read
           buffer  : UNION {[1 .. n -> {"row", "error"}] : n \in 0 .. Buffer},
           open    : BOOLEAN,                    \* the sender is alive
           dropped : BOOLEAN,                    \* the receiver is gone
           failed  : BOOLEAN]                    \* the handler has read an error

ASSUME RoutesAssumption ==
  /\ Layers \in [Requests -> SUBSET Layer]
  /\ Plans \in [Requests -> SUBSET Plan]
  /\ None \notin Layer /\ None \notin Stream
  /\ None \notin [plan : Plan, tenant : Tenants \cup {None}]

-----------------------------------------------------------------------------
(* Looking things up. *)

Nowhere == [pool |-> None, replica |-> None, tenant |-> None]

(* The task-locals a piece of code sees: those of its own task only. *)
Seen(r, spawned) == IF spawned THEN Nowhere ELSE scope[r]

(* resolve_read_pool *)
ResolveRead(replica, seen) ==
  IF replica /\ seen.replica # None THEN seen.replica ELSE seen.pool

(* named_pool_override, then with_pool around the read: an unknown name    *)
(* is no override.                                                         *)
OverridePool(plan, seen) ==
  LET override == IF plan.on = None THEN None ELSE named[plan.on]
  IN  ResolveRead(plan.replica,
                  IF override = None THEN seen ELSE [seen EXCEPT !.pool = override])

(* pool_for_query: an unknown name is an error. *)
CheckedPool(plan, seen) ==
  IF plan.on = None THEN seen.pool ELSE named[plan.on]

(* Mutant: every terminal takes the way of the reads. *)
EveryCallOverrides(plan, seen) == OverridePool(plan, seen)

(* The pool a call runs on, None for the error that there is none. *)
PoolOf(plan, seen) ==
  IF plan.call \in OverrideReads \cup Aggregates \cup {"last"}
  THEN OverridePool(plan, seen) ELSE CheckedPool(plan, seen)

(* Mutant: the tenant is read where the query runs. *)
TenantWhenRun(r, plan) ==
  IF plan.scoped THEN Seen(r, plan.run # "here").tenant ELSE None

(* Model::query() reads the tenant when the builder is made, even if the   *)
(* query runs elsewhere; without_tenant_scope() does not.                  *)
TenantFilter(r, plan) ==
  IF plan.scoped THEN Seen(r, plan.run = "lazy").tenant ELSE None

Lent(p) ==
  LET holding == {h \in Holders : lease[h].pool = p}
      upTo[S \in SUBSET holding] ==
        IF S = {} THEN 0
        ELSE LET h == CHOOSE x \in S : TRUE IN lease[h].got + upTo[S \ {h}]
  IN  upTo[holding]

-----------------------------------------------------------------------------
Init ==
  /\ named = [n \in Names |-> None]
  /\ logger = [l \in Logs |-> None]
  /\ counters = [th \in Threads |-> 0]
  /\ scope = [r \in Requests |-> None]
  /\ calls = [r \in Requests |-> 0]
  /\ query = [r \in Requests |-> None]
  /\ lease = [h \in Holders |-> NoLease]
  /\ stream = [r \in Requests |-> None]
  /\ settings = 0

(* The application configures the process while requests are served.       *)
(* Settings that change nothing are left out.                              *)
RegisterNamedPool(n, p) ==
  /\ settings < MaxSettings /\ named[n] # p
  /\ named' = [named EXCEPT ![n] = p]
  /\ settings' = settings + 1
  /\ UNCHANGED <<logger, counters, scope, calls, query, lease, stream>>

UnregisterNamedPool(n) ==
  /\ settings < MaxSettings /\ named[n] # None
  /\ named' = [named EXCEPT ![n] = None]
  /\ settings' = settings + 1
  /\ UNCHANGED <<logger, counters, scope, calls, query, lease, stream>>

(* set_on_query, set_logger, clear_on_query: nothing once the mutex is     *)
(* poisoned.                                                               *)
SetLogger(l, callback) ==
  /\ settings < MaxSettings
  /\ callback = None => l = "every"
  /\ logger[l] \notin {"poisoned", callback}
  /\ logger' = [logger EXCEPT ![l] = callback]
  /\ settings' = settings + 1
  /\ UNCHANGED <<named, counters, scope, calls, query, lease, stream>>

(* OrmService::call and TenantService::call: the counters of the thread    *)
(* that accepts the request are reset, the handler runs inside the scopes. *)
Enter(r, layer, th) ==
  /\ scope[r] = None /\ query[r] = None /\ stream[r] = None
  /\ scope' = [scope EXCEPT ![r] = layer]
  /\ counters' = [counters EXCEPT ![th] = IF layer.pool = None THEN @ ELSE 0]
  /\ calls' = [calls EXCEPT ![r] = 0]
  /\ UNCHANGED <<named, logger, query, lease, stream, settings>>

(* The handler answers; a stream it has not read to the end is dropped. *)
DropReceiver(r) ==
  stream' = [stream EXCEPT ![r] =
    IF @ = None \/ ~ @.open THEN None ELSE [@ EXCEPT !.dropped = TRUE, !.buffer = <<>>]]

Leave(r) ==
  /\ scope[r] # None /\ query[r] = None
  /\ scope' = [scope EXCEPT ![r] = None]
  /\ DropReceiver(r)
  /\ UNCHANGED <<named, logger, counters, calls, query, lease, settings>>

(* The client disconnects: the handler's future is dropped as it is, and   *)
(* with it the connections the call holds or waits for.  A query running   *)
(* in a task of its own goes on.                                           *)
Cancel(r) ==
  /\ scope[r] # None /\ query[r] # None
  /\ scope' = [scope EXCEPT ![r] = None]
  /\ IF query[r].plan.run = "here"
     THEN /\ query' = [query EXCEPT ![r] = None]
          /\ lease' = [lease EXCEPT ![<<r, "call">>] = NoLease]
     ELSE UNCHANGED <<query, lease>>
  /\ DropReceiver(r)
  /\ UNCHANGED <<named, logger, counters, calls, settings>>

(* The handler builds a query; a stream in progress may be left waiting. *)
Build(r, plan) ==
  /\ scope[r] # None /\ query[r] = None /\ calls[r] < MaxCalls
  /\ plan.call = "stream" => stream[r] = None
  /\ stream[r] # None => ~ stream[r].dropped
  /\ query' = [query EXCEPT ![r] = [plan |-> plan, tenant |-> TenantFilter(r, plan)]]
  /\ calls' = [calls EXCEPT ![r] = @ + 1]
  /\ UNCHANGED <<named, logger, counters, scope, lease, stream, settings>>

(* The first poll of a terminal looks the pool up and asks it for a        *)
(* connection, warm() for n of them at once.                               *)
Start(r) ==
  LET plan == query[r].plan
      p    == PoolOf(plan, Seen(r, plan.run # "here"))
  IN
  /\ query[r] # None /\ lease[<<r, "call">>] = NoLease
  /\ plan.call # "stream"
  /\ IF p = None
     THEN query' = [query EXCEPT ![r] = None] /\ UNCHANGED lease
     ELSE /\ lease' = [lease EXCEPT ![<<r, "call">>] =
                         LeaseOf(p, IF plan.call = "warm" THEN Warm ELSE 1)]
          /\ UNCHANGED query
  /\ UNCHANGED <<named, logger, counters, scope, calls, stream, settings>>

(* stream(): pool and SQL are settled in the caller, then a task is        *)
(* spawned; without a pool that task sends the error and ends.             *)
StartStream(r) ==
  LET plan == query[r].plan
      p    == PoolOf(plan, Seen(r, plan.run # "here"))
  IN
  /\ query[r] # None /\ plan.call = "stream"
  /\ \E total \in 0 .. Rows :
       stream' = [stream EXCEPT ![r] =
         [total |-> total, sent |-> 0, seen |-> 0, open |-> p # None,
          buffer |-> IF p = None THEN <<"error">> ELSE <<>>,
          dropped |-> FALSE, failed |-> FALSE]]
  /\ lease' = [lease EXCEPT ![<<r, "stream">>] = IF p = None THEN NoLease ELSE LeaseOf(p, 1)]
  /\ query' = [query EXCEPT ![r] = None]
  /\ UNCHANGED <<named, logger, counters, scope, calls, settings>>

(* The pool hands a connection over. *)
Waiting(h) == lease[h].got < lease[h].want
Acquire(h) ==
  /\ Waiting(h) /\ Lent(lease[h].pool) < Size[lease[h].pool]
  /\ lease' = [lease EXCEPT ![h].got = @ + 1]
  /\ UNCHANGED <<named, logger, counters, scope, calls, query, stream, settings>>

GiveBack(h) == lease' = [lease EXCEPT ![h] = NoLease]

-----------------------------------------------------------------------------
(* The end of a statement. *)

(* n1::record on the thread that polled the answer, by get() only. *)
Recorded(call, th) ==
  IF call = "get"
  THEN [counters EXCEPT ![th] = IF @ > Threshold THEN @ ELSE @ + 1]
  ELSE counters

(* log_query runs the callbacks under their mutexes, first the one for     *)
(* every query and then, for a slow one, the other.  A callback that       *)
(* panics poisons its mutex and ends the task.                             *)
Panics(slow) ==
  IF logger["every"] = "panics" THEN {"every"}
  ELSE IF slow /\ logger["slow"] = "panics" THEN {"slow"} ELSE {}

(* The executor logs a statement whatever became of it; value(), pluck()   *)
(* and pairs(), warm() and streams run theirs without it.                  *)
Logged(call) == call \notin CheckedReads \cup {"warm"}

Ends(r, th, ok) ==
  LET plan == query[r].plan IN
  /\ GiveBack(<<r, "call">>)
  /\ query' = [query EXCEPT ![r] = None]
  /\ \E slow \in BOOLEAN :
       LET broken == IF Logged(plan.call) THEN Panics(slow) ELSE {}
       IN  /\ logger' = [l \in Logs |-> IF l \in broken THEN "poisoned" ELSE logger[l]]
           /\ counters' = IF ok /\ broken = {} THEN Recorded(plan.call, th) ELSE counters
           /\ IF broken # {} /\ plan.run = "here"
              THEN scope' = [scope EXCEPT ![r] = None] /\ DropReceiver(r)
              ELSE UNCHANGED <<scope, stream>>
  /\ UNCHANGED <<named, calls, settings>>

(* The acquire timed out; the statement failed; it was answered. *)
HasAll(r) == lease[<<r, "call">>].got > 0 /\ ~ Waiting(<<r, "call">>)
TimesOut(r, th) == Waiting(<<r, "call">>) /\ Ends(r, th, FALSE)
Fails(r, th)    == HasAll(r) /\ Ends(r, th, FALSE)
Answer(r, th)   == HasAll(r) /\ Ends(r, th, TRUE)

-----------------------------------------------------------------------------
(* The task stream() spawns, and its reader. *)

(* Mutant: a clone of the sender outlives the task. *)
SenderKept(s) == IF s.dropped THEN None ELSE s

(* The sender is dropped with the task; a stream nobody reads is gone. *)
Closes(s) == IF s.dropped THEN None ELSE [s EXCEPT !.open = FALSE]
Streaming(r) == stream[r] # None /\ stream[r].open
Connected(r) == Streaming(r) /\ lease[<<r, "stream">>].got = 1

(* send().await of the next row: it waits for room in the channel, and     *)
(* finds out there if the receiver is gone.                                *)
SendRow(r) ==
  LET s == stream[r] IN
  /\ Connected(r) /\ s.sent < s.total
  /\ IF s.dropped
     THEN stream' = [stream EXCEPT ![r] = Closes(s)] /\ GiveBack(<<r, "stream">>)
     ELSE /\ Len(s.buffer) < Buffer
          /\ stream' = [stream EXCEPT ![r].sent = @ + 1, ![r].buffer = Append(@, "row")]
          /\ UNCHANGED lease
  /\ UNCHANGED <<named, logger, counters, scope, calls, query, settings>>

(* No more rows: the task ends. *)
EndStream(r) ==
  LET s == stream[r] IN
  /\ Connected(r) /\ s.sent = s.total
  /\ stream' = [stream EXCEPT ![r] = Closes(s)]
  /\ GiveBack(<<r, "stream">>)
  /\ UNCHANGED <<named, logger, counters, scope, calls, query, settings>>

(* Mutant: the task just ends. *)
ErrorForgotten(s) == Closes(s)

(* No connection, or the statement failed: try_next() yields the error,    *)
(* which is sent as a row would be, and then the end.                      *)
WithError(s) == Closes([s EXCEPT !.buffer = Append(@, "error")])
StreamBreaks(r) ==
  LET s == stream[r] IN
  /\ s.dropped \/ Len(s.buffer) < Buffer
  /\ stream' = [stream EXCEPT ![r] = IF s.dropped THEN None ELSE WithError(s)]
  /\ GiveBack(<<r, "stream">>)
  /\ UNCHANGED <<named, logger, counters, scope, calls, query, settings>>
StreamTimesOut(r) == Streaming(r) /\ Waiting(<<r, "stream">>) /\ StreamBreaks(r)
StreamFails(r)    == Connected(r) /\ StreamBreaks(r)

(* poll_next: the next item, or the end once the sender is gone. *)
Reading(r) == scope[r] # None /\ query[r] = None /\ stream[r] # None /\ ~ stream[r].dropped
Read(r) ==
  LET s == stream[r] IN
  /\ Reading(r)
  /\ \/ /\ s.buffer # <<>>
        /\ stream' = [stream EXCEPT ![r].buffer = Tail(@),
                        ![r].seen = IF Head(s.buffer) = "row" THEN @ + 1 ELSE @,
                        ![r].failed = @ \/ Head(s.buffer) = "error"]
     \/ /\ s.buffer = <<>> /\ ~ s.open
        /\ stream' = [stream EXCEPT ![r] = None]
  /\ UNCHANGED <<named, logger, counters, scope, calls, query, lease, settings>>

-----------------------------------------------------------------------------
Next ==
  \/ \E n \in Names, p \in Databases : RegisterNamedPool(n, p)
  \/ \E n \in Names : UnregisterNamedPool(n)
  \/ \E l \in Logs, callback \in Callbacks \cup {None} : SetLogger(l, callback)
  \/ \E h \in Holders : Acquire(h)
  \/ \E r \in Requests :
       \/ \E layer \in Layers[r], th \in Threads : Enter(r, layer, th)
       \/ \E plan \in Plans[r] : Build(r, plan)
       \/ \E th \in Threads : TimesOut(r, th) \/ Fails(r, th) \/ Answer(r, th)
       \/ Leave(r) \/ Cancel(r) \/ Start(r) \/ StartStream(r)
       \/ SendRow(r) \/ EndStream(r)
       \/ StreamTimesOut(r) \/ StreamFails(r) \/ Read(r)

(* The runtime polls what is ready, the database answers, an acquire that  *)
(* gets nothing times out and a handler reads its stream on; nothing says  *)
(* that a statement fails, that a client goes away or that a handler ends. *)
Fairness ==
  /\ \A h \in Holders : WF_vars(Acquire(h))
  /\ \A r \in Requests :
       /\ WF_vars(Start(r)) /\ WF_vars(StartStream(r))
       /\ WF_vars(\E th \in Threads : TimesOut(r, th))
       /\ WF_vars(\E th \in Threads : Answer(r, th))
       /\ WF_vars(SendRow(r)) /\ WF_vars(EndStream(r)) /\ WF_vars(StreamTimesOut(r))
       /\ WF_vars(Read(r))

Spec == Init /\ [][Next]_vars
FairSpec == Spec /\ Fairness

-----------------------------------------------------------------------------
(* Properties. *)

RequestsTypeOK ==
  /\ named \in [Names -> Pools \cup {None}]
  /\ logger \in [Logs -> Callbacks \cup {None, "poisoned"}]
  /\ counters \in [Threads -> 0 .. Threshold + 1]
  /\ scope \in [Requests -> Layer \cup {None}]
  /\ calls \in [Requests -> 0 .. MaxCalls]
  /\ query \in [Requests -> [plan : Plan, tenant : Tenants \cup {None}] \cup {None}]
  /\ lease \in [Holders -> [pool : Pools \cup {None}, want : Nat, got : Nat]]
  /\ stream \in [Requests -> Stream \cup {None}]
  /\ settings \in 0 .. MaxSettings

(* A statement asks its pool for a connection in this step. *)
Asks(h) == lease[h] = NoLease /\ lease'[h] # NoLease

Reads(plan) == plan.call \notin Writes \cup {"warm"}

(* Every statement goes to a database of its own request: to the pool it   *)
(* names while that is registered, else to the pool of the request it is   *)
(* awaited in, and to that request's replica only if it is a read that     *)
(* asked for it.  Never to the pool of another request that shares the     *)
(* thread, never a write to a replica.                                     *)
OwnPool == [][
  \A r \in Requests, kind \in {"call", "stream"} : Asks(<<r, kind>>) =>
    LET plan == query[r].plan
        p    == lease'[<<r, kind>>].pool
        byName == plan.on # None /\ named[plan.on] # None
    IN  \/ byName /\ p = named[plan.on]
        \/ ~ byName /\ plan.run = "here" /\ p = scope[r].pool
        \/ Reads(plan) /\ plan.replica /\ plan.run = "here" /\ p = scope[r].replica ]_vars

(* Tenants stay apart: a query of a tenant's model that a request built in *)
(* its scope reaches the database with that request's tenant in its WHERE  *)
(* clause, also when another task runs it later.                           *)
OwnTenant == [][
  \A r \in Requests, kind \in {"call", "stream"} :
    Asks(<<r, kind>>) /\ scope[r] # None /\ query[r].plan.scoped =>
      \/ query[r].tenant = scope[r].tenant
      \/ query[r].tenant = None /\ query[r].plan.run = "lazy" ]_vars

(* A statement takes pool and tenant from its own request, and from no     *)
(* other: OwnPool and OwnTenant.                                           *)
OwnScope == OwnPool /\ OwnTenant

(* A stream that comes to its end without having yielded an error has      *)
(* yielded every row: a lost connection, a pool that gave none or a        *)
(* statement that failed is never taken for the end of the rows.           *)
EndMeansAll == [][
  \A r \in Requests :
    Read(r) /\ stream'[r] = None =>
      stream[r].failed \/ stream[r].seen = stream[r].total ]_vars

(* Everything ends: a call answers, and the task of a stream gives its     *)
(* connection back, whether its reader reads on, is queued behind the      *)
(* connections of other streams, or has gone away.                         *)
AllEnd ==
  \A r \in Requests : /\ query[r] # None ~> query[r] = None
                      /\ stream[r] # None ~> stream[r] = None
-----------------------------------------------------------------------------
(* What the code does not keep, each shown by a counterexample. *)

(* on(name) routes the query to the pool registered under that name, or to *)
(* none: but a name that is not registered is passed over by the terminals *)
(* that override the pool, and on_replica() leads to the replica of the    *)
(* database that is not named.                                             *)
NamedOrRefused == [][
  \A r \in Requests, kind \in {"call", "stream"} :
    Asks(<<r, kind>>) /\ query[r].plan.on # None =>
      lease'[<<r, kind>>].pool = named[query[r].plan.on] ]_vars

(* A warning is about the request that draws it: but the counters belong   *)
(* to the thread, and count the queries of every request that ran on it.   *)
WarnsOfOwnQueries == [][
  \A r \in Requests, th \in Threads :
    Answer(r, th) /\ counters[th] = Threshold /\ counters'[th] = Threshold + 1 =>
      calls[r] > Threshold ]_vars

(* A callback, once set, sees every query until it is replaced: but one    *)
(* panic in it silences the log for the rest of the process.               *)
LogGoesOn == [](\A l \in Logs : logger[l] # "poisoned")

(* A query inside the loop over a stream is answered: but the stream holds *)
(* a connection of the same pool.                                          *)
NestedAnswers == [][
  \A r \in Requests, th \in Threads : TimesOut(r, th) => stream[r] = None ]_vars
=============================================================================
