--------------------------- MODULE RequestsProofs ---------------------------
(***************************************************************************)
(* Proofs about Requests for any requests, threads, pools, names, plans    *)
(* and callbacks, and channels of any size: statements stay in the scope   *)
(* of their request, and a stream that ends has yielded every row or an    *)
(* error.                                                                  *)
(***************************************************************************)
EXTENDS Requests, TLAPS

Query == [plan : Plan, tenant : Tenants \cup {None}]
Lease == [pool : Pools \cup {None}, want : Nat, got : Nat]

-----------------------------------------------------------------------------
(* Scopes and the queries made in them.                                    *)

\* what a query knows of its request: it is not awaited outside of one, and
\* it has the tenant of the scope it was built in
OwnQuery(r) ==
  query[r] # None =>
    /\ query[r].plan.run = "here" => scope[r] # None
    /\ scope[r] # None /\ query[r].plan.scoped /\ query[r].plan.run # "lazy" =>
         query[r].tenant = scope[r].tenant
    /\ query[r].plan.run = "lazy" => query[r].tenant = None

QInv ==
  /\ named \in [Names -> Pools \cup {None}]
  /\ scope \in [Requests -> Layer \cup {None}]
  /\ query \in [Requests -> Query \cup {None}]
  /\ lease \in [Holders -> Lease]
  /\ \A r \in Requests : OwnQuery(r)

LEMMA LeaseTypes ==
  ASSUME NEW p \in Pools, NEW n \in Nat
  PROVE  LeaseOf(p, n) \in Lease /\ NoLease \in Lease
BY DEF LeaseOf, NoLease, Lease

LEMMA QInit == Init => QInv
BY LeaseTypes DEF Init, QInv, OwnQuery, NoLease, Lease

\* the pool a plan is led to is one of the pools there are
LEMMA PoolType ==
  ASSUME QInv, NEW plan \in Plan, NEW seen \in Layer
  PROVE  PoolOf(plan, seen) \in Pools \cup {None}
BY DEF QInv, Plan, Layer, PoolOf, OverridePool, CheckedPool, ResolveRead

LEMMA SeenType ==
  ASSUME QInv, NEW r \in Requests, query[r] # None
  PROVE  Seen(r, query[r].plan.run # "here") \in Layer
BY DEF QInv, OwnQuery, Seen, Nowhere, Layer

LEMMA EndsKeepsQ ==
  ASSUME QInv, NEW r \in Requests, NEW th, NEW ok, Ends(r, th, ok)
  PROVE  QInv'
<1>1. NoLease \in Lease /\ <<r, "call">> \in Holders
  BY DEF NoLease, Lease, Holders
<1>2. query' = [query EXCEPT ![r] = None] /\ named' = named
      /\ lease' = [lease EXCEPT ![<<r, "call">>] = NoLease]
  BY DEF Ends, GiveBack
<1>3. scope' = scope \/ scope' = [scope EXCEPT ![r] = None]
  BY DEF Ends
<1>4. QED
  BY <1>1, <1>2, <1>3 DEF QInv, OwnQuery

LEMMA QStep ==
  ASSUME QInv, [Next]_vars
  PROVE  QInv'
<1>0. NoLease \in Lease
  BY DEF NoLease, Lease
<1>1. ASSUME NEW n \in Names, NEW p \in Databases, RegisterNamedPool(n, p)
      PROVE  QInv'
  BY <1>1, BoundsAssumption DEF RegisterNamedPool, QInv, OwnQuery
<1>2. ASSUME NEW n \in Names, UnregisterNamedPool(n)
      PROVE  QInv'
  BY <1>2 DEF UnregisterNamedPool, QInv, OwnQuery
<1>3. ASSUME NEW l \in Logs, NEW callback, SetLogger(l, callback)
      PROVE  QInv'
  BY <1>3 DEF SetLogger, QInv, OwnQuery
<1>4. ASSUME NEW h \in Holders, Acquire(h)
      PROVE  QInv'
  <2>1. lease' \in [Holders -> Lease]
    BY <1>4 DEF Acquire, QInv, Lease
  <2>2. QED
    BY <1>4, <2>1 DEF Acquire, QInv, OwnQuery
<1>5. ASSUME NEW r \in Requests, NEW layer \in Layers[r], NEW th \in Threads, Enter(r, layer, th)
      PROVE  QInv'
  <2>1. layer \in Layer
    BY RoutesAssumption
  <2>2. QED
    BY <1>5, <2>1 DEF Enter, QInv, OwnQuery
<1>6. ASSUME NEW r \in Requests, NEW plan \in Plans[r], Build(r, plan)
      PROVE  QInv'
  <2>1. plan \in Plan /\ plan.run \in {"here", "spawned", "lazy"}
    BY RoutesAssumption DEF Plan
  <2>2. scope[r] \in Layer
    BY <1>6 DEF Build, QInv
  <2>3. TenantFilter(r, plan) \in Tenants \cup {None}
    BY <2>2 DEF TenantFilter, Seen, Nowhere, Layer
  <2>4. /\ plan.run = "lazy" => TenantFilter(r, plan) = None
        /\ plan.scoped /\ plan.run # "lazy" => TenantFilter(r, plan) = scope[r].tenant
    BY <2>1 DEF TenantFilter, Seen, Nowhere
  <2>5. query' = [query EXCEPT ![r] = [plan |-> plan, tenant |-> TenantFilter(r, plan)]]
    BY <1>6 DEF Build
  <2>6. query'[r] = [plan |-> plan, tenant |-> TenantFilter(r, plan)] /\ query'[r] \in Query
    BY <2>1, <2>3, <2>5 DEF Query, QInv
  <2>7. named' = named /\ scope' = scope /\ lease' = lease /\ scope[r] # None
    BY <1>6 DEF Build
  <2>8. QED
    BY <2>4, <2>5, <2>6, <2>7 DEF QInv, OwnQuery
<1>7. ASSUME NEW r \in Requests, NEW th \in Threads, TimesOut(r, th) \/ Fails(r, th) \/ Answer(r, th)
      PROVE  QInv'
  BY <1>7, EndsKeepsQ DEF TimesOut, Fails, Answer
<1>8. ASSUME NEW r \in Requests, Leave(r)
      PROVE  QInv'
  BY <1>8 DEF Leave, QInv, OwnQuery
<1>9. ASSUME NEW r \in Requests, Cancel(r)
      PROVE  QInv'
  <2>1. <<r, "call">> \in Holders
    BY DEF Holders
  <2>2. lease' \in [Holders -> Lease]
    BY <1>0, <1>9, <2>1 DEF Cancel, QInv
  <2>3. QED
    BY <1>9, <2>2 DEF Cancel, QInv, OwnQuery
<1>10. ASSUME NEW r \in Requests, Start(r)
       PROVE  QInv'
  <2>1. query[r] \in Query /\ query[r] # None
    BY <1>10 DEF Start, QInv
  <2>2. query[r].plan \in Plan
    BY <2>1 DEF Query
  <2>3. PoolOf(query[r].plan, Seen(r, query[r].plan.run # "here")) \in Pools \cup {None}
    BY <2>1, <2>2, SeenType, PoolType
  <2>4. <<r, "call">> \in Holders /\ Warm \in Nat
    BY BoundsAssumption DEF Holders
  <2>5. lease' \in [Holders -> Lease]
    BY <1>10, <2>3, <2>4, LeaseTypes DEF Start, QInv
  <2>6. QED
    BY <1>10, <2>5 DEF Start, QInv, OwnQuery
<1>11. ASSUME NEW r \in Requests, StartStream(r)
       PROVE  QInv'
  <2>1. query[r] \in Query /\ query[r] # None
    BY <1>11 DEF StartStream, QInv
  <2>2. query[r].plan \in Plan
    BY <2>1 DEF Query
  <2>3. PoolOf(query[r].plan, Seen(r, query[r].plan.run # "here")) \in Pools \cup {None}
    BY <2>1, <2>2, SeenType, PoolType
  <2>4. <<r, "stream">> \in Holders
    BY DEF Holders
  <2>5. lease' \in [Holders -> Lease]
    BY <1>0, <1>11, <2>3, <2>4, LeaseTypes DEF StartStream, QInv
  <2>6. QED
    BY <1>11, <2>5 DEF StartStream, QInv, OwnQuery
<1>12. ASSUME NEW r \in Requests,
              SendRow(r) \/ EndStream(r) \/ StreamTimesOut(r) \/ StreamFails(r) \/ Read(r)
       PROVE  QInv'
  <2>1. <<r, "stream">> \in Holders
    BY DEF Holders
  <2>2. lease' = lease \/ lease' = [lease EXCEPT ![<<r, "stream">>] = NoLease]
    BY <1>12 DEF SendRow, EndStream, StreamTimesOut, StreamFails, StreamBreaks, Read, GiveBack
  <2>3. named' = named /\ scope' = scope /\ query' = query
    BY <1>12 DEF SendRow, EndStream, StreamTimesOut, StreamFails, StreamBreaks, Read
  <2>4. QED
    BY <1>0, <2>1, <2>2, <2>3 DEF QInv, OwnQuery
<1>13. CASE UNCHANGED vars
  BY <1>13 DEF vars, QInv, OwnQuery
<1>14. QED
  BY <1>1, <1>2, <1>3, <1>4, <1>5, <1>6, <1>7, <1>8, <1>9, <1>10, <1>11, <1>12, <1>13 DEF Next

LEMMA QInvariant == Spec => []QInv
BY QInit, QStep, PTL DEF Spec

-----------------------------------------------------------------------------
(* A statement asks for a connection in Start and in StartStream only.     *)

LEMMA WhoAsks ==
  ASSUME QInv, [Next]_vars, NEW r \in Requests, NEW kind \in {"call", "stream"},
         Asks(<<r, kind>>)
  PROVE  /\ query[r] # None /\ scope' = scope /\ named' = named
         /\ lease'[<<r, kind>>].pool =
              PoolOf(query[r].plan, Seen(r, query[r].plan.run # "here"))
         /\ lease'[<<r, kind>>].pool # None
<1> DEFINE h == <<r, kind>>
<1>0. h \in Holders /\ lease[h] = NoLease /\ lease'[h] # NoLease
  BY DEF Asks, Holders
<1>1. ASSUME NEW g \in Holders, Acquire(g)
      PROVE  FALSE
  <2>1. g # h
    BY <1>0, <1>1 DEF Acquire, Waiting, NoLease
  <2>2. QED
    BY <1>0, <1>1, <2>1 DEF Acquire, QInv
<1>2. ASSUME NEW s \in Requests, NEW k \in {"call", "stream"},
             lease' = [lease EXCEPT ![<<s, k>>] = NoLease]
      PROVE  FALSE
  BY <1>0, <1>2 DEF QInv, Holders
<1>3. lease' # lease
  BY <1>0
<1>4. ASSUME NEW s \in Requests, NEW k \in {"call", "stream"}, NEW p, NEW n,
             lease' = [lease EXCEPT ![<<s, k>>] = LeaseOf(p, n)]
      PROVE  s = r /\ lease'[h].pool = p
  <2>1. <<s, k>> = h
    BY <1>0, <1>4 DEF QInv, Holders
  <2>2. lease'[h] = LeaseOf(p, n)
    BY <1>0, <1>4, <2>1 DEF QInv
  <2>3. QED
    BY <2>1, <2>2 DEF LeaseOf
<1>5. ASSUME NEW s \in Requests, Start(s)
      PROVE  /\ query[r] # None /\ scope' = scope /\ named' = named
             /\ lease'[h].pool = PoolOf(query[r].plan, Seen(r, query[r].plan.run # "here"))
             /\ lease'[h].pool # None
  <2> DEFINE p == PoolOf(query[s].plan, Seen(s, query[s].plan.run # "here"))
  <2>1. p # None /\ query[s] # None /\ scope' = scope /\ named' = named
    BY <1>3, <1>5 DEF Start
  <2>2. \E n : lease' = [lease EXCEPT ![<<s, "call">>] = LeaseOf(p, n)]
    BY <1>5, <2>1 DEF Start
  <2>3. s = r /\ lease'[h].pool = p
    BY <1>4, <2>2
  <2>4. QED
    BY <2>1, <2>3
<1>6. ASSUME NEW s \in Requests, StartStream(s)
      PROVE  /\ query[r] # None /\ scope' = scope /\ named' = named
             /\ lease'[h].pool = PoolOf(query[r].plan, Seen(r, query[r].plan.run # "here"))
             /\ lease'[h].pool # None
  <2> DEFINE p == PoolOf(query[s].plan, Seen(s, query[s].plan.run # "here"))
  <2>1. p # None /\ query[s] # None /\ scope' = scope /\ named' = named
    BY <1>2, <1>6 DEF StartStream
  <2>2. lease' = [lease EXCEPT ![<<s, "stream">>] = LeaseOf(p, 1)]
    BY <1>6, <2>1 DEF StartStream
  <2>3. s = r /\ lease'[h].pool = p
    BY <1>4, <2>2
  <2>4. QED
    BY <2>1, <2>3
<1>7. ASSUME NEW s \in Requests, NEW th \in Threads, TimesOut(s, th) \/ Fails(s, th) \/ Answer(s, th)
      PROVE  FALSE
  BY <1>2, <1>7 DEF TimesOut, Fails, Answer, Ends, GiveBack
<1>8. ASSUME NEW s \in Requests,
             SendRow(s) \/ EndStream(s) \/ StreamTimesOut(s) \/ StreamFails(s) \/ Cancel(s)
      PROVE  FALSE
  BY <1>2, <1>3, <1>8 DEF SendRow, EndStream, StreamTimesOut, StreamFails, StreamBreaks, Cancel,
     GiveBack
<1>9. ASSUME \/ \E n \in Names, p \in Databases : RegisterNamedPool(n, p)
             \/ \E n \in Names : UnregisterNamedPool(n)
             \/ \E l \in Logs, callback \in Callbacks \cup {None} : SetLogger(l, callback)
             \/ \E s \in Requests :
                  \/ \E layer \in Layers[s], th \in Threads : Enter(s, layer, th)
                  \/ \E plan \in Plans[s] : Build(s, plan)
                  \/ Leave(s) \/ Read(s)
             \/ UNCHANGED vars
      PROVE  FALSE
  BY <1>3, <1>9 DEF RegisterNamedPool, UnregisterNamedPool, SetLogger, Enter, Build, Leave, Read, vars
<1>10. QED
  BY <1>1, <1>5, <1>6, <1>7, <1>8, <1>9 DEF Next

LEMMA OwnPoolStep ==
  ASSUME QInv, [Next]_vars, NEW r \in Requests, NEW kind \in {"call", "stream"},
         Asks(<<r, kind>>)
  PROVE  LET plan == query[r].plan
             p    == lease'[<<r, kind>>].pool
             byName == plan.on # None /\ named[plan.on] # None
         IN  \/ byName /\ p = named[plan.on]
             \/ ~ byName /\ plan.run = "here" /\ p = scope[r].pool
             \/ Reads(plan) /\ plan.replica /\ plan.run = "here" /\ p = scope[r].replica
<1> DEFINE plan == query[r].plan
           seen == Seen(r, plan.run # "here")
           p == lease'[<<r, kind>>].pool
<1>1. query[r] # None /\ p = PoolOf(plan, seen) /\ p # None
  BY WhoAsks
<1>2. plan \in Plan /\ seen \in Layer
  BY <1>1, SeenType DEF QInv, Query
<1>3. plan.run # "here" => seen.pool = None /\ seen.replica = None
  BY DEF Seen, Nowhere
<1>4. plan.run = "here" => seen = scope[r]
  BY DEF Seen
<1>5. CASE plan.call \in OverrideReads \cup Aggregates \cup {"last"}
  <2>1. Reads(plan)
    BY <1>5 DEF Reads, OverrideReads, Aggregates, Writes
  <2>2. p = OverridePool(plan, seen)
    BY <1>1, <1>5 DEF PoolOf
  <2>3. CASE plan.on # None /\ named[plan.on] # None
    <3>1. p = ResolveRead(plan.replica, [seen EXCEPT !.pool = named[plan.on]])
      BY <2>2, <2>3 DEF OverridePool
    <3>2. p = named[plan.on] \/ (plan.replica /\ seen.replica # None /\ p = seen.replica)
      BY <1>2, <3>1 DEF ResolveRead, Layer
    <3>3. QED
      BY <1>3, <1>4, <2>1, <2>3, <3>2
  <2>4. CASE ~ (plan.on # None /\ named[plan.on] # None)
    <3>1. p = ResolveRead(plan.replica, seen)
      BY <2>2, <2>4 DEF OverridePool
    <3>2. QED
      BY <1>1, <1>3, <1>4, <2>1, <2>4, <3>1 DEF ResolveRead
  <2>5. QED
    BY <2>3, <2>4
<1>6. CASE plan.call \notin OverrideReads \cup Aggregates \cup {"last"}
  BY <1>1, <1>3, <1>4, <1>6 DEF PoolOf, CheckedPool
<1>7. QED
  BY <1>5, <1>6

\* OwnScope for any number of requests, pools, names and threads: a statement
\* goes to the pool it names, or else to the pool or, when it is a read, to the
\* replica of its own request, and it has the tenant of the scope it was built in.
THEOREM ScopesApart == Spec => OwnScope
<1>1. QInv /\ [Next]_vars =>
        \A r \in Requests, kind \in {"call", "stream"} : Asks(<<r, kind>>) =>
          LET plan == query[r].plan
              p    == lease'[<<r, kind>>].pool
              byName == plan.on # None /\ named[plan.on] # None
          IN  \/ byName /\ p = named[plan.on]
              \/ ~ byName /\ plan.run = "here" /\ p = scope[r].pool
              \/ Reads(plan) /\ plan.replica /\ plan.run = "here" /\ p = scope[r].replica
  BY OwnPoolStep
<1>2. QInv /\ [Next]_vars =>
        \A r \in Requests, kind \in {"call", "stream"} :
          Asks(<<r, kind>>) /\ scope[r] # None /\ query[r].plan.scoped =>
            \/ query[r].tenant = scope[r].tenant
            \/ query[r].tenant = None /\ query[r].plan.run = "lazy"
  BY WhoAsks DEF QInv, OwnQuery
<1>3. QED
  BY <1>1, <1>2, QInvariant, PTL DEF Spec, OwnScope, OwnPool, OwnTenant

-----------------------------------------------------------------------------
(* Streams.                                                                *)

Items == {"row", "error"}

\* an error is the last thing that is sent, and nothing is read behind it
EndsInError(s) == Len(s.buffer) > 0 /\ s.buffer[Len(s.buffer)] = "error"
RowsBuffered(s) == IF EndsInError(s) THEN Len(s.buffer) - 1 ELSE Len(s.buffer)

Record == [total : 0 .. Rows, sent : 0 .. Rows, seen : 0 .. Rows, buffer : Seq(Items),
           open : BOOLEAN, dropped : BOOLEAN, failed : BOOLEAN]

\* a stream whose rows are all accounted for: read, in the channel or not yet
\* sent; an end without an error is the end of the rows
Sound(s) ==
  /\ s \in Record
  /\ s.sent <= s.total /\ s.seen <= s.sent /\ Len(s.buffer) <= Buffer
  /\ \A i \in 1 .. Len(s.buffer) : s.buffer[i] = "error" => i = Len(s.buffer) /\ ~ s.open
  /\ s.failed => Len(s.buffer) = 0 /\ ~ s.open
  /\ s.dropped => Len(s.buffer) = 0 /\ s.open
  /\ ~ s.failed /\ ~ s.dropped => s.seen + RowsBuffered(s) = s.sent
  /\ ~ s.open /\ ~ s.failed /\ ~ EndsInError(s) => s.sent = s.total

SInv == /\ stream \in [Requests -> Stream \cup {None}]
        /\ \A r \in Requests : stream[r] # None => Sound(stream[r])

LEMMA SInit == Init => SInv
BY DEF Init, SInv

LEMMA SoundIsStream ==
  ASSUME NEW s, Sound(s)
  PROVE  s \in Stream
<1>1. s.buffer \in [1 .. Len(s.buffer) -> Items] /\ Len(s.buffer) \in 0 .. Buffer
  BY BoundsAssumption DEF Sound, Record
<1>2. s.buffer \in UNION {[1 .. n -> Items] : n \in 0 .. Buffer}
  BY <1>1
<1>3. QED
  BY <1>2 DEF Sound, Record, Stream, Items

LEMMA DroppedSound ==
  ASSUME NEW s, Sound(s), s.open
  PROVE  Sound([s EXCEPT !.dropped = TRUE, !.buffer = <<>>])
<1> DEFINE t == [s EXCEPT !.dropped = TRUE, !.buffer = <<>>]
<1>1. Len(t.buffer) = 0 /\ t.buffer \in Seq(Items) /\ t.dropped = TRUE
  BY DEF Sound, Record
<1>2. t.total = s.total /\ t.sent = s.sent /\ t.seen = s.seen /\ t.open = s.open /\ t.failed = s.failed
  BY DEF Sound, Record
<1>3. t \in Record
  <2>1. s \in Record
    BY DEF Sound
  <2>2. QED
    BY <1>1, <2>1 DEF Record
<1>4. QED
  BY <1>1, <1>2, <1>3, BoundsAssumption DEF Sound, EndsInError

LEMMA ClosedSound ==
  ASSUME NEW s, Sound(s), s.open, ~ s.dropped, s.sent = s.total
  PROVE  Sound([s EXCEPT !.open = FALSE])
BY DEF Sound, Record, EndsInError, RowsBuffered

LEMMA StartedSound ==
  ASSUME NEW total \in 0 .. Rows, NEW open \in BOOLEAN
  PROVE  Sound([total |-> total, sent |-> 0, seen |-> 0, open |-> open,
                buffer |-> IF open THEN <<>> ELSE <<"error">>,
                dropped |-> FALSE, failed |-> FALSE])
<1>1. CASE open = TRUE
  BY <1>1, BoundsAssumption DEF Sound, Record, EndsInError, RowsBuffered, Items
<1>2. CASE open = FALSE
  <2>1. <<"error">> \in Seq(Items) /\ Len(<<"error">>) = 1 /\ <<"error">>[1] = "error" 
    BY DEF Items
  <2>2. QED
    BY <1>2, <2>1, BoundsAssumption DEF Sound, Record, EndsInError, RowsBuffered
<1>3. QED
  BY <1>1, <1>2

\* what append and tail do to the channel
LEMMA Appended ==
  ASSUME NEW b \in Seq(Items), NEW x \in Items
  PROVE  /\ Append(b, x) \in Seq(Items)
         /\ Len(Append(b, x)) = Len(b) + 1
         /\ Append(b, x)[Len(b) + 1] = x
         /\ \A i \in 1 .. Len(b) : Append(b, x)[i] = b[i]
OBVIOUS

LEMMA TailRead ==
  ASSUME NEW b \in Seq(Items), b # <<>>
  PROVE  /\ Tail(b) \in Seq(Items) /\ Len(b) \in Nat \ {0} /\ Len(Tail(b)) = Len(b) - 1
         /\ \A i \in 1 .. Len(b) - 1 : Tail(b)[i] = b[i + 1]
         /\ Head(b) = b[1] /\ b[1] \in Items
OBVIOUS

\* the channel gets one item more, and it is a row
LEMMA RowSent ==
  ASSUME NEW s, Sound(s), s.open, ~ s.dropped, s.sent < s.total, Len(s.buffer) < Buffer
  PROVE  Sound([s EXCEPT !.sent = @ + 1, !.buffer = Append(@, "row")])
<1> DEFINE t == [s EXCEPT !.sent = @ + 1, !.buffer = Append(@, "row")]
<1>0. s \in Record
  BY DEF Sound
<1>1. /\ t.buffer = Append(s.buffer, "row") /\ t.sent = s.sent + 1 /\ t.total = s.total
      /\ t.seen = s.seen /\ t.open = s.open /\ t.dropped = s.dropped /\ t.failed = s.failed
  BY <1>0 DEF Record
<1>2. /\ t.buffer \in Seq(Items) /\ Len(t.buffer) = Len(s.buffer) + 1
      /\ t.buffer[Len(s.buffer) + 1] = "row"
      /\ \A i \in 1 .. Len(s.buffer) : t.buffer[i] = s.buffer[i]
      /\ Len(s.buffer) \in Nat
  BY <1>0, <1>1, Appended DEF Record, Items
<1>3. t \in Record
  <2>1. t.sent \in 0 .. Rows
    BY <1>0, <1>1, BoundsAssumption DEF Record
  <2>2. QED
    BY <1>0, <1>2, <2>1 DEF Record
<1>4. ~ EndsInError(t) /\ ~ EndsInError(s)
  BY <1>2 DEF EndsInError, Sound
<1>5. \A i \in 1 .. Len(t.buffer) : t.buffer[i] # "error"
  BY <1>2 DEF Sound
<1>6. t.seen + RowsBuffered(t) = t.sent
  BY <1>0, <1>1, <1>2, <1>4 DEF Sound, RowsBuffered, Record
<1>7. QED
  BY <1>0, <1>1, <1>2, <1>3, <1>5, <1>6, BoundsAssumption, SMTT(30) DEF Sound, Record

\* the channel gets one item more, and it is the error; the sender goes
LEMMA ErrorSent ==
  ASSUME NEW s, Sound(s), s.open, ~ s.dropped, Len(s.buffer) < Buffer
  PROVE  Sound([s EXCEPT !.buffer = Append(@, "error"), !.open = FALSE])
<1> DEFINE t == [s EXCEPT !.buffer = Append(@, "error"), !.open = FALSE]
<1>0. s \in Record
  BY DEF Sound
<1>1. /\ t.buffer = Append(s.buffer, "error") /\ t.sent = s.sent /\ t.total = s.total
      /\ t.seen = s.seen /\ t.open = FALSE /\ t.dropped = s.dropped /\ t.failed = s.failed
  BY <1>0 DEF Record
<1>2. /\ t.buffer \in Seq(Items) /\ Len(t.buffer) = Len(s.buffer) + 1
      /\ t.buffer[Len(s.buffer) + 1] = "error"
      /\ \A i \in 1 .. Len(s.buffer) : t.buffer[i] = s.buffer[i]
      /\ Len(s.buffer) \in Nat
  BY <1>0, <1>1, Appended DEF Record, Items
<1>3. t \in Record
  BY <1>0, <1>2 DEF Record
<1>4. EndsInError(t) /\ ~ EndsInError(s)
  BY <1>2 DEF EndsInError, Sound
<1>5. \A i \in 1 .. Len(t.buffer) : t.buffer[i] = "error" => i = Len(t.buffer)
  BY <1>2 DEF Sound
<1>6. t.seen + RowsBuffered(t) = t.sent
  BY <1>0, <1>1, <1>2, <1>4 DEF Sound, RowsBuffered, Record
<1>7. QED
  BY <1>0, <1>1, <1>2, <1>3, <1>4, <1>5, <1>6, BoundsAssumption DEF Sound, Record

\* a row is taken out of the channel: one row more is read
LEMMA RowRead ==
  ASSUME NEW s, Sound(s), ~ s.dropped, s.buffer # <<>>, s.buffer[1] = "row"
  PROVE  Sound([s EXCEPT !.buffer = Tail(@), !.seen = @ + 1, !.failed = FALSE])
<1> DEFINE t == [s EXCEPT !.buffer = Tail(@), !.seen = @ + 1, !.failed = FALSE]
           n == Len(s.buffer)
<1>0. s \in Record
  BY DEF Sound
<1>1. /\ t.buffer = Tail(s.buffer) /\ t.sent = s.sent /\ t.total = s.total
      /\ t.open = s.open /\ t.dropped = s.dropped
      /\ t.seen = s.seen + 1 /\ t.failed = FALSE
  BY <1>0 DEF Record
<1>2. /\ t.buffer \in Seq(Items) /\ n \in Nat \ {0} /\ Len(t.buffer) = n - 1
      /\ \A i \in 1 .. n - 1 : t.buffer[i] = s.buffer[i + 1]
  BY <1>0, <1>1, TailRead DEF Record
<1>3. s.failed = FALSE /\ s.seen + RowsBuffered(s) = s.sent
  BY <1>0, <1>2 DEF Sound, Record
<1>4. \A i \in 1 .. n : s.buffer[i] = "error" => i = n /\ ~ s.open
  BY DEF Sound
<1>5. 1 \in 1 .. n /\ (n # 1 => n - 1 \in 1 .. n - 1 /\ n \in 1 .. n /\ n - 1 > 0 /\ n > 0)
  <2>1. \A m \in Nat \ {0} : 1 \in 1 .. m /\ (m # 1 => m - 1 \in 1 .. m - 1 /\ m \in 1 .. m /\ m - 1 > 0 /\ m > 0)
    OBVIOUS
  <2>2. QED
    BY <1>2, <2>1
<1>6. EndsInError(t) <=> EndsInError(s)
  <2>1. CASE n = 1
    BY <1>2, <2>1 DEF EndsInError
  <2>2. CASE n # 1
    <3>1. t.buffer[n - 1] = s.buffer[n]
      BY <1>2, <1>5, <2>2
    <3>2. n - 1 > 0 /\ n > 0
      BY <1>5, <2>2
    <3>3. QED
      BY <1>2, <3>1, <3>2 DEF EndsInError
  <2>3. QED
    BY <2>1, <2>2
<1>7. RowsBuffered(t) = RowsBuffered(s) - 1 /\ RowsBuffered(s) \in Nat /\ RowsBuffered(s) >= 1
  <2>1. EndsInError(s) => n >= 2
    BY <1>2 DEF EndsInError
  <2>2. QED
    BY <1>2, <1>6, <2>1 DEF RowsBuffered
<1>8. \A i \in 1 .. n - 1 : t.buffer[i] = "error" => i = n - 1 /\ ~ s.open
  BY <1>2, <1>4
<1>9. t.seen \in 0 .. Rows /\ t.seen <= s.sent /\ t.seen + RowsBuffered(t) = s.sent
  BY <1>0, <1>1, <1>3, <1>7, BoundsAssumption, SMTT(30) DEF Record
<1>10. t \in Record
  BY <1>0, <1>1, <1>2, <1>9 DEF Record
<1>11. n - 1 <= Buffer /\ (s.dropped => FALSE) /\ s.sent <= s.total
       /\ (~ s.open /\ ~ s.failed /\ ~ EndsInError(s) => s.sent = s.total)
  BY <1>2, BoundsAssumption DEF Sound
<1>12. QED
  BY <1>1, <1>2, <1>3, <1>6, <1>8, <1>9, <1>10, <1>11 DEF Sound

\* the error is taken out of the channel: it was the last item
LEMMA ErrorRead ==
  ASSUME NEW s, Sound(s), ~ s.dropped, s.buffer # <<>>, s.buffer[1] = "error"
  PROVE  Sound([s EXCEPT !.buffer = Tail(@), !.seen = @, !.failed = TRUE])
<1> DEFINE t == [s EXCEPT !.buffer = Tail(@), !.seen = @, !.failed = TRUE]
           n == Len(s.buffer)
<1>0. s \in Record
  BY DEF Sound
<1>1. /\ t.buffer = Tail(s.buffer) /\ t.sent = s.sent /\ t.total = s.total
      /\ t.open = s.open /\ t.dropped = s.dropped
      /\ t.seen = s.seen /\ t.failed = TRUE
  BY <1>0 DEF Record
<1>2. /\ t.buffer \in Seq(Items) /\ n \in Nat \ {0} /\ Len(t.buffer) = n - 1
      /\ \A i \in 1 .. n - 1 : t.buffer[i] = s.buffer[i + 1]
  BY <1>0, <1>1, TailRead DEF Record
<1>3. s.failed = FALSE /\ s.seen + RowsBuffered(s) = s.sent
  BY <1>0, <1>2 DEF Sound, Record
<1>4. \A i \in 1 .. n : s.buffer[i] = "error" => i = n /\ ~ s.open
  BY DEF Sound
<1>5. 1 \in 1 .. n /\ (n # 1 => n - 1 \in 1 .. n - 1 /\ n \in 1 .. n /\ n - 1 > 0 /\ n > 0)
  <2>1. \A m \in Nat \ {0} : 1 \in 1 .. m /\ (m # 1 => m - 1 \in 1 .. m - 1 /\ m \in 1 .. m /\ m - 1 > 0 /\ m > 0)
    OBVIOUS
  <2>2. QED
    BY <1>2, <2>1
<1>6. n = 1 /\ ~ s.open /\ Len(t.buffer) = 0
  BY <1>2, <1>4, <1>5
<1>7. t \in Record
  BY <1>0, <1>1, <1>2 DEF Record
<1>8. s.sent <= s.total /\ s.seen <= s.sent /\ 0 <= Buffer
  BY BoundsAssumption DEF Sound
<1>9. t.failed = TRUE /\ t.dropped = FALSE /\ t.open = FALSE
  BY <1>0, <1>1, <1>6 DEF Record
<1>10. t.sent <= t.total /\ t.seen <= t.sent /\ Len(t.buffer) <= Buffer
  BY <1>1, <1>6, <1>8
<1> HIDE DEF t
<1>11. \A i \in 1 .. Len(t.buffer) : t.buffer[i] = "error" => i = Len(t.buffer) /\ ~ t.open
  <2>1. \A i \in 1 .. 0 : FALSE
    OBVIOUS
  <2>2. QED
    BY <1>6, <2>1
<1>12. Sound(t)
  BY <1>6, <1>7, <1>9, <1>10, <1>11 DEF Sound
<1>13. QED
  BY <1>12 DEF t

LEMMA ItemRead ==
  ASSUME NEW s, Sound(s), ~ s.dropped, s.buffer # <<>>
  PROVE  Sound([s EXCEPT !.buffer = Tail(@),
                         !.seen = IF Head(s.buffer) = "row" THEN @ + 1 ELSE @,
                         !.failed = @ \/ Head(s.buffer) = "error"])
<1>1. s \in Record /\ Head(s.buffer) = s.buffer[1] /\ s.buffer[1] \in Items /\ ~ s.failed
  <2>1. Len(s.buffer) # 0
    BY TailRead DEF Sound, Record
  <2>2. QED
    BY <2>1, TailRead DEF Sound, Record
<1>2. CASE s.buffer[1] = "row"
  <2>1. (s.failed \/ Head(s.buffer) = "error") = FALSE
    BY <1>1, <1>2
  <2>2. QED
    BY <1>1, <1>2, <2>1, RowRead
<1>3. CASE s.buffer[1] = "error"
  <2>1. (s.failed \/ Head(s.buffer) = "error") = TRUE
    BY <1>1, <1>3
  <2>2. QED
    BY <1>1, <1>3, <2>1, ErrorRead
<1>4. QED
  BY <1>1, <1>2, <1>3 DEF Items

LEMMA DropReceiverKeepsS ==
  ASSUME SInv, NEW r \in Requests, DropReceiver(r)
  PROVE  SInv'
<1>1. ASSUME stream[r] # None, stream[r].open
      PROVE  Sound([stream[r] EXCEPT !.dropped = TRUE, !.buffer = <<>>])
  BY <1>1, DroppedSound DEF SInv
<1>2. QED
  BY <1>1, SoundIsStream DEF DropReceiver, SInv

LEMMA StreamKept ==
  ASSUME SInv, NEW r \in Requests, NEW s, s = None \/ Sound(s),
         stream' = [stream EXCEPT ![r] = s]
  PROVE  SInv'
BY SoundIsStream DEF SInv

LEMMA SStep ==
  ASSUME SInv, [Next]_vars
  PROVE  SInv'
<1>1. ASSUME stream' = stream
      PROVE  SInv'
  BY <1>1 DEF SInv
<1>2. ASSUME NEW r \in Requests, DropReceiver(r)
      PROVE  SInv'
  BY <1>2, DropReceiverKeepsS
<1>3. ASSUME NEW r \in Requests, StartStream(r)
      PROVE  SInv'
  <2> DEFINE p == PoolOf(query[r].plan, Seen(r, query[r].plan.run # "here"))
             s(n) == [total |-> n, sent |-> 0, seen |-> 0, open |-> p # None,
                      buffer |-> IF p = None THEN <<"error">> ELSE <<>>,
                      dropped |-> FALSE, failed |-> FALSE]
  <2>1. PICK n \in 0 .. Rows : stream' = [stream EXCEPT ![r] = s(n)]
    BY <1>3 DEF StartStream
  <2>2. Sound(s(n))
    <3>1. CASE p = None
      BY <3>1, StartedSound
    <3>2. CASE p # None
      BY <3>2, StartedSound
    <3>3. QED
      BY <3>1, <3>2
  <2>3. QED
    BY <2>1, <2>2, StreamKept
<1>4. ASSUME NEW r \in Requests, SendRow(r)
      PROVE  SInv'
  <2> DEFINE s == stream[r]
  <2>1. Sound(s) /\ s.open /\ s.sent < s.total
    BY <1>4 DEF SendRow, Connected, Streaming, SInv
  <2>2. CASE s.dropped
    <3>1. stream' = [stream EXCEPT ![r] = None]
      BY <1>4, <2>2 DEF SendRow, Closes
    <3>2. QED
      BY <3>1, StreamKept
  <2>3. CASE ~ s.dropped
    <3>1. stream' = [stream EXCEPT ![r] = [s EXCEPT !.sent = @ + 1, !.buffer = Append(@, "row")]]
      BY <1>4, <2>3 DEF SendRow, SInv
    <3>2. Len(s.buffer) < Buffer
      BY <1>4, <2>3 DEF SendRow
    <3>3. QED
      BY <2>1, <2>3, <3>1, <3>2, RowSent, StreamKept
  <2>4. QED
    BY <2>2, <2>3
<1>5. ASSUME NEW r \in Requests, EndStream(r)
      PROVE  SInv'
  <2> DEFINE s == stream[r]
  <2>1. Sound(s) /\ s.open /\ s.sent = s.total
    BY <1>5 DEF EndStream, Connected, Streaming, SInv
  <2>2. stream' = [stream EXCEPT ![r] = Closes(s)]
    BY <1>5 DEF EndStream
  <2>3. Closes(s) = None \/ Sound(Closes(s))
    BY <2>1, ClosedSound DEF Closes
  <2>4. QED
    BY <2>2, <2>3, StreamKept
<1>6. ASSUME NEW r \in Requests, StreamTimesOut(r) \/ StreamFails(r)
      PROVE  SInv'
  <2> DEFINE s == stream[r]
  <2>1. Sound(s) /\ s.open /\ StreamBreaks(r)
    BY <1>6 DEF StreamTimesOut, StreamFails, Connected, Streaming, SInv
  <2>2. CASE s.dropped
    <3>1. stream' = [stream EXCEPT ![r] = None]
      BY <2>1, <2>2 DEF StreamBreaks
    <3>2. QED
      BY <3>1, StreamKept
  <2>3. CASE ~ s.dropped
    <3>1. stream' = [stream EXCEPT ![r] = WithError(s)] /\ Len(s.buffer) < Buffer
      BY <2>1, <2>3 DEF StreamBreaks
    <3>2. WithError(s) = [s EXCEPT !.buffer = Append(@, "error"), !.open = FALSE]
      BY <2>1, <2>3 DEF WithError, Closes, Sound, Record
    <3>3. QED
      BY <2>1, <2>3, <3>1, <3>2, ErrorSent, StreamKept
  <2>4. QED
    BY <2>2, <2>3
<1>7. ASSUME NEW r \in Requests, Read(r)
      PROVE  SInv'
  <2> DEFINE s == stream[r]
             t == [s EXCEPT !.buffer = Tail(@),
                            !.seen = IF Head(s.buffer) = "row" THEN @ + 1 ELSE @,
                            !.failed = @ \/ Head(s.buffer) = "error"]
  <2>1. Sound(s) /\ ~ s.dropped
    BY <1>7 DEF Read, Reading, SInv
  <2>2. CASE stream' = [stream EXCEPT ![r] = None]
    BY <2>2, StreamKept
  <2>3. CASE s.buffer # <<>> /\ stream' = [stream EXCEPT ![r].buffer = Tail(@),
                        ![r].seen = IF Head(s.buffer) = "row" THEN @ + 1 ELSE @,
                        ![r].failed = @ \/ Head(s.buffer) = "error"]
    <3>1. stream' = [stream EXCEPT ![r] = t]
      BY <2>3 DEF SInv
    <3>2. Sound(t)
      BY <2>1, <2>3, ItemRead
    <3>3. QED
      BY <3>1, <3>2, StreamKept
  <2>4. QED
    BY <1>7, <2>2, <2>3 DEF Read
<1>8. ASSUME NEW r \in Requests, NEW th, NEW ok, Ends(r, th, ok)
      PROVE  SInv'
  BY <1>1, <1>2, <1>8 DEF Ends
<1>9. QED
  <2>1. ASSUME \/ \E n \in Names, p \in Databases : RegisterNamedPool(n, p)
               \/ \E n \in Names : UnregisterNamedPool(n)
               \/ \E l \in Logs, callback \in Callbacks \cup {None} : SetLogger(l, callback)
               \/ \E h \in Holders : Acquire(h)
               \/ \E r \in Requests :
                    \/ \E layer \in Layers[r], th \in Threads : Enter(r, layer, th)
                    \/ \E plan \in Plans[r] : Build(r, plan)
                    \/ Start(r)
               \/ UNCHANGED vars
        PROVE  stream' = stream
    BY <2>1 DEF RegisterNamedPool, UnregisterNamedPool, SetLogger, Acquire, Enter, Build, Start, vars
  <2>2. ASSUME NEW r \in Requests, Leave(r) \/ Cancel(r)
        PROVE  DropReceiver(r)
    BY <2>2 DEF Leave, Cancel
  <2>3. ASSUME NEW r \in Requests, NEW th \in Threads, TimesOut(r, th) \/ Fails(r, th) \/ Answer(r, th)
        PROVE  SInv'
    BY <1>8, <2>3 DEF TimesOut, Fails, Answer
  <2>4. QED
    BY <1>1, <1>2, <1>3, <1>4, <1>5, <1>6, <1>7, <2>1, <2>2, <2>3 DEF Next

LEMMA SInvariant == Spec => []SInv
BY SInit, SStep, PTL DEF Spec

\* EndMeansAll for any requests, pools and faults, and a channel of any size: a
\* reader that is told the end and has seen no error has seen every row.
THEOREM EndIsTheEnd == Spec => EndMeansAll
<1>1. SInv =>
        \A r \in Requests :
          Read(r) /\ stream'[r] = None => stream[r].failed \/ stream[r].seen = stream[r].total
  <2> SUFFICES ASSUME SInv, NEW r \in Requests, Read(r), stream'[r] = None, ~ stream[r].failed
               PROVE  stream[r].seen = stream[r].total
    OBVIOUS
  <2> DEFINE s == stream[r]
  <2>1. Sound(s) /\ ~ s.dropped
    BY DEF Read, Reading, SInv
  <2>2. s.buffer = <<>> /\ ~ s.open
    <3>1. SUFFICES ASSUME s.buffer # <<>>
                   PROVE  FALSE
      BY DEF Read
    <3>2. stream'[r] = [s EXCEPT !.buffer = Tail(@),
                                 !.seen = IF Head(s.buffer) = "row" THEN @ + 1 ELSE @,
                                 !.failed = @ \/ Head(s.buffer) = "error"]
      BY <3>1 DEF Read, SInv
    <3>3. Sound(stream'[r])
      BY <2>1, <3>1, <3>2, ItemRead
    <3>4. QED
      BY <3>3, SoundIsStream, RoutesAssumption
  <2>3. Len(s.buffer) = 0
    BY <2>2
  <2>4. QED
    BY <2>1, <2>2, <2>3 DEF Sound, EndsInError, RowsBuffered, Record
<1>2. QED
  BY <1>1, SInvariant, PTL DEF Spec, EndMeansAll

=============================================================================
