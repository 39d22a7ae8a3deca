------------------------------ MODULE Records -------------------------------
(***************************************************************************)
(* Callers that read and write the rows of one table through PgModel: the  *)
(* single-statement calls of RecordApi, the calls framed by hooks, the     *)
(* chunked insert and the two upsert helpers, which run a transaction with *)
(* SELECT ... FOR UPDATE.                                                  *)
(*                                                                         *)
(* Each step is one statement.  Ids are drawn from a sequence and never    *)
(* used twice.  An uncommitted row is in mine, its id in held.             *)
(***************************************************************************)
EXTENDS RecordApi, Integers, Sequences, FiniteSets

CONSTANTS
    Clients, Nobody,
    Keys,            \* values of the column the rows are found by
    MaxId,           \* bound: rows ever inserted
    NoRow,
    Indexes,         \* whether there is a unique index on that column: TRUE, FALSE
    Workloads,       \* the calls the clients make, functions on Clients
    StartingRows,    \* the tables to start from
    Repositories,    \* the repositories that may be registered
    StackSize        \* bound: nested calls the stack has room for

Ids == 1 .. MaxId
Row == [key : Keys, val : Clients \cup {Nobody}, trashed : BOOLEAN,
        by : Clients \cup {Nobody}]

\* what a client does: a plain call, insert/save/destroy with their hooks, a
\* chunked insert of keys, or one of the upserts
Kinds == {"none", "call", "hooked", "chunked", "first_or_create", "update_or_create"}
Vetoes == {"none", "first", "second"}
Jobs == [kind : Kinds, call : Api, key : Keys, id : Ids, keys : Seq(Keys),
         chunk : Nat, veto : Vetoes]

ASSUME RecordsAssumption ==
    /\ MaxId \in Nat /\ StackSize \in Nat \ {0}
    /\ NoRow \notin Row /\ Nobody \notin Clients
    /\ Indexes \subseteq BOOLEAN
    /\ Workloads \subseteq [Clients -> Jobs]
    /\ StartingRows \subseteq [Ids -> Row \cup {NoRow}]
    /\ Repositories \subseteq {"none", "overrides", "delegates"}

\* the rows of a starting table have the first ids of the sequence, and no client made them
ASSUME StartingAssumption ==
    \A table \in StartingRows : \A id \in Ids : table[id] # NoRow =>
        table[id].by = Nobody /\ \A j \in 1 .. id : table[j] # NoRow

\* hooks frame an insert of one row, or an update or delete by primary key
ASSUME HookedAssumption ==
    \A w \in Workloads : \A c \in Clients : w[c].kind = "hooked" =>
        \/ w[c].call.verb = "insert" /\ w[c].keys = <<w[c].key>>
        \/ /\ w[c].call.verb \in {"update", "delete"}
           /\ w[c].call.where = "pk" /\ w[c].call.only = "any"

VARIABLES
    job, repo, unique,
    rows,     \* the committed table
    next,     \* the sequence of the primary key
    pc,       \* pc[c]: start, asking, sending, chunk, the phases of an upsert, done
    seen,     \* seen[c]: rows of the snapshot the locking SELECT still has to try
    held,     \* held[c]: the row c has locked or inserted, 0 for none
    mine,     \* mine[c]: that row as c's transaction sees it
    got,      \* got[c]: the rows the call returned, <<id, row>>
    made,     \* made[c]: rows of the chunks sent
    hooks,    \* hooks[c]: the hooks that ran
    depth,    \* depth[c]: nested calls of a delegating repository
    answer,   \* answer[c]
    before    \* history: the calls that were over when c's began

vars == <<job, repo, unique, rows, next, pc, seen, held, mine, got, made, hooks, depth,
          answer, before>>

Phases == {"begun", "scan", "found", "missing", "updated", "commit"}
Aborted == \E c \in Clients : answer[c] = "crash"

-----------------------------------------------------------------------------
(* The table.                                                              *)

Present == {id \in Ids : rows[id] # NoRow}
\* mutated form: FOR UPDATE left out
NeverLocked(c, id) == FALSE
LockedFor(c, id) == \E d \in Clients \ {c} : held[d] = id

\* an uncommitted insert of one of the keys by somebody else: an insert waits for it
Waits(c, keys) ==
    unique /\ \E d \in Clients \ {c}, i \in DOMAIN keys :
        mine[d] # NoRow /\ held[d] \notin Present /\ mine[d].key = keys[i]
\* the unique index refuses these keys
Conflict(keys) ==
    unique /\ \E i \in DOMAIN keys :
        \/ \E id \in Present : rows[id].key = keys[i]
        \/ \E j \in DOMAIN keys : i # j /\ keys[i] = keys[j]

NewRow(c, key) == [key |-> key, val |-> c, trashed |-> FALSE, by |-> c]

Kept(id, only) ==
    CASE only = "any" -> TRUE
      [] only = "active" -> ~rows[id].trashed
      [] only = "trashed" -> rows[id].trashed

\* the rows a statement of c is about: one set, or one of several where the
\* statement says LIMIT 1 without an order
Matches(c) ==
    LET call == job[c].call
        kept == {id \in Present : Kept(id, call.only)}
    IN {ids \in SUBSET kept :
          CASE call.where = "pk" -> ids = kept \cap {job[c].id}
            [] call.where = "key" -> ids = {id \in kept : rows[id].key = job[c].key}
            [] call.where = "all" -> ids = kept
            [] call.where = "first" -> Cardinality(ids) = IF kept = {} THEN 0 ELSE 1
            [] call.where = "last" -> ids = {id \in kept : \A j \in kept : j <= id}}

Written(c, verb, ids) ==
    [id \in Ids |->
        IF id \notin ids THEN rows[id]
        ELSE CASE verb = "update" -> [rows[id] EXCEPT !.val = c]
               [] verb = "trash" -> [rows[id] EXCEPT !.trashed = TRUE]
               [] verb = "restore" -> [rows[id] EXCEPT !.trashed = FALSE]
               [] verb = "touch" -> rows[id]
               [] verb = "delete" -> NoRow]

\* the bound leaves n ids of the sequence
Room(n) == next + n <= MaxId + 1
Inserted(c, keys) ==
    [id \in Ids |-> IF id \in next .. next + Len(keys) - 1
                    THEN NewRow(c, keys[id - next + 1]) ELSE rows[id]]

Pairs(table, ids) == {<<id, table[id]>> : id \in ids}

-----------------------------------------------------------------------------
(* Beginning and ending a call.                                            *)

Hooked(c) == job[c].kind = "hooked"
HookNames(verb) ==
    CASE verb = "insert" -> <<"before_create", "before_save", "after_create", "after_save">>
      [] verb = "update" -> <<"before_update", "before_save", "after_update", "after_save">>
      [] verb = "delete" -> <<"before_delete", "after_delete">>
Hooks(c) == HookNames(job[c].call.verb)
HalfOf(s) == Len(s) \div 2

Goto(c, label) == pc' = [pc EXCEPT ![c] = label]

\* mutated form: the hooks after the write run whatever became of it
EndsWithHooks(c, ans, result) ==
    /\ Goto(c, "done")
    /\ answer' = [answer EXCEPT ![c] = ans]
    /\ got' = [got EXCEPT ![c] = result]
    /\ held' = [held EXCEPT ![c] = 0]
    /\ mine' = [mine EXCEPT ![c] = NoRow]
    /\ hooks' = IF Hooked(c) THEN [hooks EXCEPT ![c] = Hooks(c)] ELSE hooks
    /\ UNCHANGED <<job, repo, unique, seen, depth, before>>
\* what the call holds is released; hooks after the write run when it succeeded
Ends(c, ans, result) ==
    /\ Goto(c, "done")
    /\ answer' = [answer EXCEPT ![c] = ans]
    /\ got' = [got EXCEPT ![c] = result]
    /\ held' = [held EXCEPT ![c] = 0]
    /\ mine' = [mine EXCEPT ![c] = NoRow]
    /\ hooks' = IF Hooked(c) /\ ans = "ok" THEN [hooks EXCEPT ![c] = Hooks(c)] ELSE hooks
    /\ UNCHANGED <<job, repo, unique, seen, depth, before>>

Refused(c) == Ends(c, "error", {}) /\ UNCHANGED <<rows, next, made>>

Starts(workloads, tables, repositories, indexes) ==
    /\ job \in workloads /\ repo \in repositories /\ unique \in indexes
    /\ repo # "none" => \E c \in Clients : job[c].call.overridable   \* else nobody asks it
    /\ rows \in tables
    /\ unique => \A i, j \in Present : rows[i].key = rows[j].key => i = j
    /\ next = 1 + Cardinality(Present)
    /\ pc = [c \in Clients |-> IF job[c].kind = "none" THEN "done" ELSE "start"]
    /\ seen = [c \in Clients |-> {}]
    /\ held = [c \in Clients |-> 0]
    /\ mine = [c \in Clients |-> NoRow]
    /\ got = [c \in Clients |-> {}]
    /\ made = [c \in Clients |-> 0]
    /\ hooks = [c \in Clients |-> <<>>]
    /\ depth = [c \in Clients |-> 0]
    /\ answer = [c \in Clients |-> "none"]
    /\ before = [c \in Clients |-> {}]

Init == Starts(Workloads, StartingRows, Repositories, Indexes)

AsksRepository(c) == job[c].call.overridable /\ repo = "delegates"
FirstLabel(c) ==
    CASE job[c].kind \in {"call", "hooked"} ->
              IF AsksRepository(c) THEN "asking" ELSE "sending"
      [] job[c].kind = "chunked" -> "chunk"
      [] OTHER -> "begun"

Begins(c, label) ==
    /\ pc[c] = "start"
    /\ Goto(c, label)
    /\ before' = [before EXCEPT ![c] =
          {d \in Clients : pc[d] = "done" /\ job[d].kind # "none"}]
    /\ UNCHANGED <<job, repo, unique, rows, next, seen, held, mine, made, got, depth>>

Start(c) == ~Hooked(c) /\ Begins(c, FirstLabel(c)) /\ UNCHANGED <<hooks, answer>>

\* insert, save and destroy run their first hooks before anything is sent
HooksPass(c) ==
    /\ Hooked(c) /\ job[c].veto = "none"
    /\ hooks' = [hooks EXCEPT ![c] = SubSeq(Hooks(c), 1, HalfOf(Hooks(c)))]
    /\ Begins(c, FirstLabel(c))
    /\ UNCHANGED answer

HooksVeto(c) ==
    /\ Hooked(c) /\ job[c].veto # "none"
    /\ hooks' = [hooks EXCEPT ![c] =
          SubSeq(Hooks(c), 1, IF job[c].veto = "first" THEN 1 ELSE HalfOf(Hooks(c)))]
    /\ answer' = [answer EXCEPT ![c] = "vetoed"]
    /\ Begins(c, "done")

\* a registered repository answers instead (with its own statement, taken here
\* to be the same); one that calls the model again is asked again
RepositoryAsked(c) ==
    /\ pc[c] = "asking" /\ depth[c] < StackSize
    /\ depth' = [depth EXCEPT ![c] = @ + 1]
    /\ UNCHANGED <<job, repo, unique, rows, next, pc, seen, held, mine, got, made, hooks,
                   answer, before>>

StackOverflows(c) ==
    /\ pc[c] = "asking" /\ depth[c] = StackSize
    /\ Ends(c, "crash", {})
    /\ UNCHANGED <<rows, next, made>>

-----------------------------------------------------------------------------
(* The calls of one statement.                                             *)

Sending(c, verbs) == pc[c] = "sending" /\ job[c].call.verb \in verbs

\* the statement commits and is answered, or its answer is lost
Executed(c, table, n, result) ==
    /\ rows' = table /\ next' = next + n
    /\ Ends(c, "ok", result) \/ Ends(c, "error", {})
    /\ UNCHANGED made

Select(c) ==
    /\ Sending(c, {"select", "nothing"})
    /\ \E ids \in (IF job[c].call.verb = "nothing" THEN {{}} ELSE Matches(c)) :
          Ends(c, IF job[c].call.answer = "fail" /\ ids = {} THEN "not found" ELSE "ok",
               Pairs(rows, ids))
    /\ UNCHANGED <<rows, next, made>>

Insert(c) ==
    /\ Sending(c, {"insert", "insert many"})
    /\ ~Waits(c, job[c].keys) /\ ~Conflict(job[c].keys) /\ Room(Len(job[c].keys))
    /\ LET table == Inserted(c, job[c].keys)
       IN Executed(c, table, Len(job[c].keys),
                   Pairs(table, next .. next + Len(job[c].keys) - 1))

Change(c) ==
    /\ Sending(c, {"update", "delete", "trash", "restore", "touch"})
    /\ \E ids \in Matches(c) :
          /\ \A id \in ids : ~LockedFor(c, id)
          /\ Executed(c, Written(c, job[c].call.verb, ids), 0, Pairs(rows, ids))

\* INSERT ... ON CONFLICT DO UPDATE, which needs the unique index
Upsert(c) ==
    LET old == {id \in Present : rows[id].key = job[c].key}
    IN /\ Sending(c, {"upsert"}) /\ unique
       /\ ~Waits(c, <<job[c].key>>) /\ \A id \in old : ~LockedFor(c, id)
       /\ IF old # {}
          THEN Executed(c, Written(c, "update", old), 0,
                        Pairs(Written(c, "update", old), old))
          ELSE /\ Room(1)
               /\ Executed(c, Inserted(c, <<job[c].key>>), 1,
                           Pairs(Inserted(c, <<job[c].key>>), {next}))

\* any statement may fail: a lost connection, an error of its own
StatementFails(c) == pc[c] = "sending" /\ Refused(c)

-----------------------------------------------------------------------------
(* bulk_insert_chunked: one statement, of its own transaction, per chunk.  *)

ChunkLen(c) ==
    IF job[c].chunk < Len(job[c].keys) - made[c]
    THEN job[c].chunk ELSE Len(job[c].keys) - made[c]
ChunkKeys(c) == SubSeq(job[c].keys, made[c] + 1, made[c] + ChunkLen(c))

\* chunks(0) panics
ChunkSizePanics(c) ==
    /\ pc[c] = "chunk" /\ job[c].chunk = 0
    /\ Ends(c, "panic", {})
    /\ UNCHANGED <<rows, next, made>>

ChunkInserted(c) ==
    /\ pc[c] = "chunk" /\ job[c].chunk > 0 /\ made[c] < Len(job[c].keys)
    /\ ~Waits(c, ChunkKeys(c)) /\ ~Conflict(ChunkKeys(c)) /\ Room(ChunkLen(c))
    /\ rows' = Inserted(c, ChunkKeys(c))
    /\ next' = next + ChunkLen(c)
    /\ made' = [made EXCEPT ![c] = @ + ChunkLen(c)]
    /\ \/ UNCHANGED <<job, repo, unique, pc, seen, held, mine, got, hooks, depth, answer, before>>
       \/ Ends(c, "error", {})

ChunksDone(c) ==
    /\ pc[c] = "chunk" /\ job[c].chunk > 0 /\ made[c] = Len(job[c].keys)
    /\ Ends(c, "ok", {})
    /\ UNCHANGED <<rows, next, made>>

\* mutated form: the loop goes on with the next chunk
ChunkSkipped(c) ==
    /\ pc[c] = "chunk" /\ job[c].chunk > 0 /\ made[c] < Len(job[c].keys)
    /\ made' = [made EXCEPT ![c] = @ + ChunkLen(c)]
    /\ UNCHANGED <<job, repo, unique, rows, next, pc, seen, held, mine, got, hooks, depth,
                   answer, before>>
ChunkFails(c) ==
    /\ pc[c] = "chunk" /\ job[c].chunk > 0 /\ made[c] < Len(job[c].keys)
    /\ Refused(c)

\* mutated form: no check of the chunk size
ChunksUnchecked(c) == ChunkInserted(c) \/ ChunksDone(c)
Chunked(c) == ChunkSizePanics(c) \/ ChunkInserted(c) \/ ChunksDone(c)

-----------------------------------------------------------------------------
(* first_or_create and update_or_create.                                   *)

\* mutated form: soft-deleted rows are left out of the search
ActiveWith(key) == {id \in Present : rows[id].key = key /\ ~rows[id].trashed}
Found(key) == {id \in Present : rows[id].key = key}

InPhase(c, label, kinds) == pc[c] = label /\ job[c].kind \in kinds
Upserts == {"first_or_create", "update_or_create"}

SelectForUpdate(c) ==
    /\ InPhase(c, "begun", Upserts)
    /\ seen' = [seen EXCEPT ![c] = Found(job[c].key)]
    /\ Goto(c, "scan")
    /\ UNCHANGED <<job, repo, unique, rows, next, held, mine, got, made, hooks, depth, answer, before>>

\* LIMIT 1 FOR UPDATE takes the first row of its snapshot that still matches
\* once whoever holds it has finished
LockRow(c) ==
    /\ InPhase(c, "scan", Upserts)
    /\ \E id \in seen[c] :
          /\ ~LockedFor(c, id)
          /\ \/ /\ id \in Found(job[c].key)
                /\ held' = [held EXCEPT ![c] = id]
                /\ mine' = [mine EXCEPT ![c] = rows[id]]
                /\ got' = [got EXCEPT ![c] = Pairs(rows, {id})]
                /\ Goto(c, "found") /\ UNCHANGED seen
             \/ /\ id \notin Found(job[c].key)
                /\ seen' = [seen EXCEPT ![c] = @ \ {id}]
                /\ UNCHANGED <<pc, held, mine, got>>
    /\ UNCHANGED <<job, repo, unique, rows, next, made, hooks, depth, answer, before>>

NoneFound(c) ==
    /\ InPhase(c, "scan", Upserts) /\ seen[c] = {}
    /\ Goto(c, "missing")
    /\ UNCHANGED <<job, repo, unique, rows, next, seen, held, mine, got, made, hooks, depth,
                   answer, before>>

FirstFound(c) ==
    /\ InPhase(c, "found", {"first_or_create"})
    /\ Ends(c, "ok", got[c])
    /\ UNCHANGED <<rows, next, made>>

UpdateFound(c) ==
    /\ InPhase(c, "found", {"update_or_create"})
    /\ mine' = [mine EXCEPT ![c].val = c]
    /\ Goto(c, "updated")
    /\ UNCHANGED <<job, repo, unique, rows, next, seen, held, got, made, hooks, depth, answer, before>>

Reselect(c) ==
    /\ InPhase(c, "updated", {"update_or_create"})
    /\ got' = [got EXCEPT ![c] = {<<held[c], mine[c]>>}]
    /\ Goto(c, "commit")
    /\ UNCHANGED <<job, repo, unique, rows, next, seen, held, mine, made, hooks, depth, answer, before>>

InsertMissing(c) ==
    /\ InPhase(c, "missing", Upserts)
    /\ ~Waits(c, <<job[c].key>>) /\ ~Conflict(<<job[c].key>>) /\ Room(1)
    /\ held' = [held EXCEPT ![c] = next] /\ next' = next + 1
    /\ mine' = [mine EXCEPT ![c] = NewRow(c, job[c].key)]
    /\ got' = [got EXCEPT ![c] = {<<next, NewRow(c, job[c].key)>>}]
    /\ Goto(c, "commit")
    /\ UNCHANGED <<job, repo, unique, rows, seen, made, hooks, depth, answer, before>>

Commit(c) ==
    /\ InPhase(c, "commit", Upserts)
    /\ rows' = [rows EXCEPT ![held[c]] = mine[c]]
    /\ Ends(c, "ok", got[c]) \/ Ends(c, "error", {})
    /\ UNCHANGED <<next, made>>

\* a statement is refused, or the caller drops the future: sqlx rolls back
UpsertFails(c) == pc[c] \in Phases /\ Refused(c)

Upserting(c) ==
    \/ SelectForUpdate(c) \/ LockRow(c) \/ NoneFound(c) \/ FirstFound(c)
    \/ UpdateFound(c) \/ Reselect(c) \/ InsertMissing(c) \/ Commit(c)

\* the error of the unique index, or of an ON CONFLICT without one
IndexRefuses(c) ==
    /\ \/ Sending(c, {"insert", "insert many"}) /\ Conflict(job[c].keys)
       \/ Sending(c, {"upsert"}) /\ ~unique
       \/ pc[c] = "chunk" /\ job[c].chunk > 0 /\ Conflict(ChunkKeys(c))
       \/ pc[c] = "missing" /\ Conflict(<<job[c].key>>)
    /\ Refused(c)

-----------------------------------------------------------------------------
Step(c) ==
    /\ ~Aborted
    /\ \/ Start(c) \/ HooksPass(c) \/ HooksVeto(c) \/ RepositoryAsked(c) \/ StackOverflows(c)
       \/ Select(c) \/ Insert(c) \/ Change(c) \/ Upsert(c)
       \/ Chunked(c) \/ Upserting(c) \/ IndexRefuses(c)

Fails(c) == ~Aborted /\ (StatementFails(c) \/ ChunkFails(c) \/ UpsertFails(c))

RecordsNext == \E c \in Clients : Step(c) \/ Fails(c)

\* a statement that is due is sent and executed or refused by the index;
\* nothing else has to fail
RecordsSpec == Init /\ [][RecordsNext]_vars /\ \A c \in Clients : WF_vars(Step(c))

-----------------------------------------------------------------------------
(* Properties.                                                             *)

TypeOK ==
    /\ job \in [Clients -> Jobs] /\ unique \in BOOLEAN /\ repo \in {"none", "overrides", "delegates"}
    /\ rows \in [Ids -> Row \cup {NoRow}] /\ next \in Nat \ {0}
    /\ pc \in [Clients -> Phases \cup {"start", "asking", "sending", "chunk", "done"}]
    /\ seen \in [Clients -> SUBSET Ids] /\ held \in [Clients -> Nat]
    /\ mine \in [Clients -> Row \cup {NoRow}]
    /\ got \in [Clients -> SUBSET (Nat \X (Row \cup {NoRow}))]
    /\ made \in [Clients -> Nat] /\ hooks \in [Clients -> Seq(STRING)]
    /\ depth \in [Clients -> 0 .. StackSize]
    /\ answer \in [Clients -> {"none", "ok", "error", "not found", "vetoed", "panic", "crash"}]
    /\ before \in [Clients -> SUBSET Clients]

Answered(c, ans) == answer[c] = "none" /\ answer'[c] = ans

\* What an upsert returns is what the table holds at that moment: nobody changed
\* or deleted the row between its SELECT and its COMMIT (model.rs:646-747, "Uses
\* a transaction with SELECT ... FOR UPDATE to prevent races").
UpsertReturnsStored ==
    [][\A c \in Clients : job[c].kind \in Upserts /\ Answered(c, "ok") =>
          /\ Cardinality(got'[c]) = 1
          /\ \A p \in got'[c] :
                /\ rows'[p[1]] = p[2] /\ p[2].key = job[c].key
                /\ job[c].kind = "update_or_create" => p[2].val = c]_vars

Made(c) == {id \in Present : rows[id].by = c}

\* An upsert adds a second row of a key only while another call that adds one is
\* under way: what was inserted before it began is found, soft-deleted or not
\* (model.rs:656, 705: QueryBuilder::new has no soft-delete filter).
DuplicatesNeedOverlap ==
    \A c \in Clients : job[c].kind \in Upserts =>
        \A d \in before[c] : \A i \in Made(c), j \in Made(d) : rows[i].key # rows[j].key

NobodyDeletes ==
    \A c \in Clients : job[c].kind \in {"call", "hooked"} => job[c].call.verb # "delete"

\* A chunked insert has put whole chunks of a prefix of its rows into the table,
\* and all of them if it says so (model.rs:231-255; while nobody deletes).
BulkIsPrefix ==
    \A c \in Clients : job[c].kind = "chunked" /\ NobodyDeletes =>
        \E n \in 0 .. Len(job[c].keys) :
            /\ {rows[id].key : id \in Made(c)} = {job[c].keys[i] : i \in 1 .. n}
            /\ Cardinality(Made(c)) = n
            /\ n \in {0, Len(job[c].keys)} \/ n % job[c].chunk = 0
            /\ answer[c] = "ok" => n = Len(job[c].keys)

\* after_create, after_update and after_delete run for a write that is in the
\* table at that moment, and a veto leaves no trace (model.rs:562-635).
HooksFrameTheWrite ==
    [][\A c \in Clients : Hooked(c) =>
          /\ Len(hooks'[c]) > Len(hooks[c]) /\ hooks[c] # <<>> =>
                CASE job[c].call.verb = "insert" -> \E id \in Ids :
                            rows[id] = NoRow /\ rows'[id] = NewRow(c, job[c].key)
                  [] job[c].call.verb = "update" ->
                            rows'[job[c].id] # NoRow => rows'[job[c].id].val = c
                  [] job[c].call.verb = "delete" -> rows'[job[c].id] = NoRow
          /\ Answered(c, "vetoed") => rows' = rows]_vars


\* Statement of model.rs:471: "Uses a transaction with SELECT ... FOR UPDATE to
\* prevent duplicate inserts".  Violated without a unique index: there is no row
\* to lock yet.
FirstOrCreateOnce ==
    \A c, d \in Clients : c # d /\ job[c].kind = "first_or_create"
                          /\ job[d].kind = "first_or_create" =>
        \A i \in Made(c), j \in Made(d) : rows[i].key # rows[j].key

\* Statement of repository.rs:13-34: an override that logs and then calls
\* User::find_by_pk answers.  Violated: that call asks the repository again.
RepositoryAnswers == ~Aborted
=============================================================================
