----------------------------- MODULE Relations -----------------------------
(***************************************************************************)
(* Loading the rows related to rows: the batch loaders of orm/eager.rs,    *)
(* which query once for all parents and group the answer in memory, and    *)
(* the one-statement relations of orm/through.rs and orm/morph.rs.         *)
(*                                                                         *)
(* Posts belong to owners.  The same column serves as foreign key and as   *)
(* polymorphic id; kind is the polymorphic type.  Owners live in regions,  *)
(* and the posts of a region are reached through its owners.  Between the  *)
(* statements of a loader other clients change the tables.                 *)
(*                                                                         *)
(* A job is the call with the fields it needs: tenant, the tenant of the   *)
(* scope it runs in; of, load and joined for the eager loading of rows of  *)
(* a table; region, owner, kind, expected and end for a single statement.  *)
(***************************************************************************)
EXTENDS Naturals, Sequences, FiniteSets, SequencesExt

CONSTANTS
    Loaders,
    OwnerIds, PostIds, Tenants, Kinds, Regions,
    Jobs,            \* Jobs[l]: the calls loader l may make
    FirstOwners, FirstPosts,  \* the tables at the start
    MaxChanges,      \* bound: changes other clients make
    NoRow

\* load_eager of a model knows the relations of that model
RelationsOf(of) == IF of = "posts" THEN {"belongs_to"} ELSE {"has_many", "has_one"}

ASSUME RelationsAssumption ==
    /\ MaxChanges \in Nat
    /\ IsFiniteSet(OwnerIds) /\ IsFiniteSet(PostIds)
    /\ \A l \in Loaders : \A j \in Jobs[l] :
          j.call = "eager" => j.load \in Seq(RelationsOf(j.of))
    /\ \A t \in FirstOwners : DOMAIN t = OwnerIds
    /\ \A t \in FirstPosts : DOMAIN t = PostIds

VARIABLES
    owners, posts,   \* the tables: a row for an id, or NoRow
    job,             \* job[l]: the call
    at,              \* at[l]: start, related, done, error
    held,            \* held[l]: the rows fetched first, each with the key that relates it
    todo,            \* todo[l]: the relations still to be loaded
    got,             \* got[l]: a grouping for each relation loaded so far
    changes

vars == <<owners, posts, job, at, held, todo, got, changes>>

OwnerRow == [tenant : Tenants, trashed : BOOLEAN, region : Regions]
PostRow  == [owner : OwnerIds, kind : Kinds, tenant : Tenants, trashed : BOOLEAN]
Present(table) == {id \in DOMAIN table : table[id] # NoRow}

\* what a query that begins with query() and ends as a ModelQuery sees
Scoped(table, tenant) ==
    {id \in Present(table) : table[id].tenant = tenant /\ ~table[id].trashed}
\* mutated form: a builder without scopes
Everything(table, tenant) == Present(table)
\* rows of a relation's model, as the batch loaders query them
Queried(table, tenant) == Scoped(table, tenant)

Init ==
    /\ owners \in FirstOwners /\ posts \in FirstPosts
    /\ job \in {j \in [Loaders -> UNION {Jobs[l] : l \in Loaders}] :
                   \A l \in Loaders : j[l] \in Jobs[l]}
    /\ at = [l \in Loaders |-> "start"]
    /\ held = [l \in Loaders |-> <<>>]
    /\ todo = [l \in Loaders |-> <<>>]
    /\ got = [l \in Loaders |-> <<>>]
    /\ changes = 0

-----------------------------------------------------------------------------
(* Grouping.  A row in memory is its id with the key that relates it.      *)

Row(id, key) == [id |-> id, key |-> key]
RowsOf(ids, Key(_)) == SetToSeqs({Row(id, Key(id)) : id \in ids})
IdsOf(rows) == {rows[i].id : i \in DOMAIN rows}
KeysOf(rows) == {rows[i].key : i \in DOMAIN rows}

\* collecting (key, index) pairs into a HashMap keeps the last index of a key
Place(rows, key) ==
    {i \in DOMAIN rows : /\ rows[i].key = key
                         /\ \A k \in DOMAIN rows : rows[k].key = key => k <= i}

\* A group is the part of an answer that goes to one place: its rows, each at
\* the position it has in the answer.

\* mutated form: by position instead of by key
GroupByPosition(parents, children) ==
    [i \in DOMAIN parents |-> Restrict(children, DOMAIN children \cap {i})]
\* a child goes to the place of its parent, or nowhere
GroupHasMany(parents, children) ==
    [i \in DOMAIN parents |->
        Restrict(children, {j \in DOMAIN children : i \in Place(parents, children[j].key)})]

\* the first child that comes for a parent is kept
GroupHasOne(parents, children) ==
    [i \in DOMAIN parents |->
        LET all == GroupHasMany(parents, children)[i]
        IN  Restrict(all, {j \in DOMAIN all : \A k \in DOMAIN all : j <= k})]

\* the parent of each child, looked up in a map of the parents found
GroupBelongsTo(children, parents) ==
    [i \in DOMAIN children |-> Restrict(parents, Place(parents, children[i].key))]

-----------------------------------------------------------------------------
(* eager_get and the batch loaders.                                        *)

OwnerKey(o) == o
PostKey(p) == posts[p].owner

\* The handler's own query for the rows whose relations it wants.  A join may
\* return an owner more than once.
FetchFirst(l) ==
    /\ at[l] = "start" /\ job[l].call = "eager"
    /\ \E list \in IF job[l].of = "posts"
                    THEN RowsOf(Queried(posts, job[l].tenant), PostKey)
                    ELSE RowsOf(Queried(owners, job[l].tenant), OwnerKey) :
         held' = [held EXCEPT ![l] =
            IF job[l].joined /\ list # <<>> THEN Append(list, list[1]) ELSE list]
    /\ todo' = [todo EXCEPT ![l] = job[l].load]
    /\ at' = [at EXCEPT ![l] = "related"]
    /\ UNCHANGED <<owners, posts, job, got, changes>>

\* the next relation is loaded with one statement, with none if nothing is held
Loads(l, relation, groups) ==
    /\ at[l] = "related" /\ todo[l] # <<>> /\ Head(todo[l]) = relation
    /\ got' = [got EXCEPT ![l] = Append(@, groups)]
    /\ todo' = [todo EXCEPT ![l] = Tail(@)]
    /\ UNCHANGED <<owners, posts, job, at, held, changes>>

\* WHERE fk IN (keys of the parents held)
Children(l) ==
    RowsOf({p \in Queried(posts, job[l].tenant) : posts[p].owner \in KeysOf(held[l])}, PostKey)
Parents(l) ==
    RowsOf(Queried(owners, job[l].tenant) \cap KeysOf(held[l]), OwnerKey)

WithHasMany(l) ==
    \E rows \in Children(l) : Loads(l, "has_many", GroupHasMany(held[l], rows))
WithHasOne(l) ==
    \E rows \in Children(l) : Loads(l, "has_one", GroupHasOne(held[l], rows))
WithBelongsTo(l) ==
    \E rows \in Parents(l) : Loads(l, "belongs_to", GroupBelongsTo(held[l], rows))

EagerDone(l) ==
    /\ at[l] = "related" /\ todo[l] = <<>>
    /\ at' = [at EXCEPT ![l] = "done"]
    /\ UNCHANGED <<owners, posts, job, held, todo, got, changes>>

\* a statement fails: the whole load fails, what it had loaded is lost
LoadFails(l) ==
    /\ \/ at[l] = "start"
       \/ at[l] = "related" /\ todo[l] # <<>> /\ held[l] # <<>>
    /\ at' = [at EXCEPT ![l] = "error"]
    /\ got' = [got EXCEPT ![l] = <<>>]
    /\ UNCHANGED <<owners, posts, job, held, todo, changes>>

-----------------------------------------------------------------------------
(* Relations of one statement, written by hand: no scope is in it.         *)

\* get returns the rows, first one of them, count their number, exists whether
\* there is one
Single(l, call, ids) ==
    /\ at[l] = "start" /\ job[l].call = call
    /\ \E taken \in SUBSET ids :
         /\ job[l].end \in {"get", "count", "exists"} => taken = ids
         /\ job[l].end = "first" => Cardinality(taken) = IF ids = {} THEN 0 ELSE 1
         /\ got' = [got EXCEPT ![l] =
               << CASE job[l].end = "count"  -> Cardinality(taken)
                    [] job[l].end = "exists" -> taken # {}
                    [] OTHER                 -> taken >>]
    /\ at' = [at EXCEPT ![l] = "done"]
    /\ UNCHANGED <<owners, posts, job, held, todo, changes>>

\* ... FROM posts INNER JOIN owners ... WHERE owners.region = $1
Through(l) ==
    Single(l, "through", {p \in Present(posts) :
        /\ posts[p].owner \in Present(owners)
        /\ owners[posts[p].owner].region = job[l].region})

\* WHERE {key}_type = $1 AND {key}_id = $2
Morphs(l) == {p \in Present(posts) :
                posts[p].kind = job[l].kind /\ posts[p].owner = job[l].owner}
MorphMany(l) == Single(l, "morph_many", Morphs(l))
\* the same with LIMIT 1: it is asked for the first row or for its existence
MorphOne(l) == Single(l, "morph_one", Morphs(l)) /\ job[l].end \in {"first", "exists"}

\* a stored type that is not that of the table asked for is refused
MorphTo(l) ==
    /\ Single(l, "morph_to", {job[l].owner} \cap Present(owners))
    /\ job[l].kind = job[l].expected /\ job[l].end = "first"
MorphToRefused(l) ==
    /\ at[l] = "start" /\ job[l].call = "morph_to" /\ job[l].end = "first"
    /\ job[l].kind # job[l].expected
    /\ at' = [at EXCEPT ![l] = "error"]
    /\ UNCHANGED <<owners, posts, job, held, todo, got, changes>>

-----------------------------------------------------------------------------
(* Other clients insert, delete, soft-delete and reassign rows.            *)

Change ==
    /\ changes < MaxChanges /\ changes' = changes + 1
    /\ \/ /\ \E o \in OwnerIds, row \in OwnerRow \cup {NoRow} :
               owners' = [owners EXCEPT ![o] = row] /\ owners' # owners
          /\ UNCHANGED posts
       \/ /\ \E p \in PostIds, row \in PostRow \cup {NoRow} :
               posts' = [posts EXCEPT ![p] = row] /\ posts' # posts
          /\ UNCHANGED owners
    /\ UNCHANGED <<job, at, held, todo, got>>

Statement(l) ==
    \/ FetchFirst(l) \/ WithHasMany(l) \/ WithHasOne(l) \/ WithBelongsTo(l) \/ EagerDone(l)
    \/ Through(l) \/ MorphMany(l) \/ MorphOne(l) \/ MorphTo(l) \/ MorphToRefused(l)

Next == Change \/ \E l \in Loaders : Statement(l) \/ LoadFails(l)
Spec == Init /\ [][Next]_vars

-----------------------------------------------------------------------------
(* Properties.                                                             *)

RelationsTypeOK ==
    /\ owners \in [OwnerIds -> OwnerRow \cup {NoRow}]
    /\ posts \in [PostIds -> PostRow \cup {NoRow}]
    /\ at \in [Loaders -> {"start", "related", "done", "error"}]
    /\ \A l \in Loaders : job[l] \in Jobs[l]
    /\ changes \in 0 .. MaxChanges

\* the grouping that a step has added
Added(l) == got'[l][Len(got'[l])]
Loaded(l, relation) ==
    at[l] = "related" /\ todo[l] # <<>> /\ Head(todo[l]) = relation /\ todo'[l] = Tail(todo[l])

\* Batch loading answers like one query per parent at that moment would: whatever
\* happened to the tables since the parents were fetched, a parent gets children of
\* its own only, of the loader's tenant and not trashed, and every such child is
\* there exactly once (has_one: one for each parent that has any).
ChildrenOfTheirParents ==
    [][\A l \in Loaders :
         /\ Loaded(l, "has_many") \/ Loaded(l, "has_one") =>
              \A i \in DOMAIN held[l] :
                 IdsOf(Added(l)[i]) \subseteq
                    {p \in Scoped(posts, job[l].tenant) : posts[p].owner = held[l][i].id}
         /\ Loaded(l, "has_many") =>
              \A p \in Scoped(posts, job[l].tenant) : posts[p].owner \in IdsOf(held[l]) =>
                 Cardinality({w \in (DOMAIN held[l]) \X (1 .. Cardinality(PostIds)) :
                    /\ w[2] \in DOMAIN Added(l)[w[1]]
                    /\ Added(l)[w[1]][w[2]].id = p}) = 1
         /\ Loaded(l, "has_one") =>
              \A p \in Scoped(posts, job[l].tenant) : posts[p].owner \in IdsOf(held[l]) =>
                 Cardinality({i \in DOMAIN held[l] :
                    /\ held[l][i].id = posts[p].owner
                    /\ Cardinality(DOMAIN Added(l)[i]) = 1}) = 1]_vars

\* A child gets the owner its foreign key named when the child was fetched, if that
\* owner is of the loader's tenant and still there; never another one.
OwnersOfTheirChildren ==
    [][\A l \in Loaders : Loaded(l, "belongs_to") =>
         \A i \in DOMAIN held[l] :
            IdsOf(Added(l)[i]) = {held[l][i].key} \cap Scoped(owners, job[l].tenant)]_vars

\* Every position of the answer has the children of its parent.  Violated when a
\* query with a join returns a parent twice: the first of the two gets none.
EveryParentServed ==
    [][\A l \in Loaders : Loaded(l, "has_many") =>
         \A i, j \in DOMAIN held[l] :
            held[l][i] = held[l][j] =>
               Cardinality(DOMAIN Added(l)[i]) = Cardinality(DOMAIN Added(l)[j])]_vars

\* No relation shows a row of another tenant or a trashed one.  Violated by the
\* relations of one statement, which put no scope into it.
RelationsScoped ==
    [][\A l \in Loaders :
         /\ at[l] = "start" /\ at'[l] = "done"
         /\ job[l].call \in {"through", "morph_many"} /\ job[l].end = "get" =>
              Added(l) \subseteq Scoped(posts, job[l].tenant)]_vars
=============================================================================
