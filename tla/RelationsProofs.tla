-------------------------- MODULE RelationsProofs --------------------------
(***************************************************************************)
(* Proofs about Relations for any tables, loaders and changes by others:   *)
(* what the batch loaders of orm/eager.rs group is what one query per      *)
(* parent would have found at the moment of their statement.               *)
(***************************************************************************)
EXTENDS Relations, FiniteSetTheorems, WellFoundedInduction, TLAPS

-----------------------------------------------------------------------------
(* Least and last positions.                                               *)

LEMMA Least ==
  ASSUME NEW S, S \subseteq Nat, S # {}
  PROVE  \E m \in S : \A k \in S : m <= k
<1> DEFINE R == {ss \in Nat \X Nat : ss[1] < ss[2]}
<1>1. IsWellFoundedOn(R, Nat)
  BY NatLessThanWellFounded DEF OpToRel
<1>2. \E x \in S : \A y \in S : ~(<<y, x>> \in R)
  <2> HIDE DEF R
  <2>1. \A T : T \subseteq Nat /\ T # {} => \E x \in T : \A y \in T : ~(<<y, x>> \in R)
    BY <1>1, WFMin
  <2>2. QED
    BY <2>1
<1>3. PICK x \in S : \A y \in S : ~(<<y, x>> \in R)
  BY <1>2
<1>4. ASSUME NEW y \in S
      PROVE  x <= y
  <2>1. ~(<<y, x>> \in R)
    BY <1>3
  <2>2. x \in Nat /\ y \in Nat
    OBVIOUS
  <2>3. QED
    BY <2>1, <2>2
<1>5. QED
  BY <1>4

LEMMA Greatest ==
  ASSUME NEW n \in Nat, NEW S, S \subseteq 1 .. n, S # {}
  PROVE  \E m \in S : \A k \in S : k <= m
<1> DEFINE T == {n - k : k \in S}
<1>1. T \subseteq Nat /\ T # {}
  <2>1. \A k \in S : n - k \in Nat
    OBVIOUS
  <2>2. QED
    BY <2>1
<1>2. PICK t \in T : \A u \in T : t <= u
  <2> HIDE DEF T
  <2>1. QED
    BY <1>1, Least
<1>3. PICK m \in S : t = n - m
  OBVIOUS
<1>4. ASSUME NEW k \in S
      PROVE  k <= m
  <2>1. n - k \in T /\ k \in Int /\ m \in Int
    OBVIOUS
  <2>2. t <= n - k
    BY <1>2, <2>1
  <2>3. QED
    BY <1>3, <2>1, <2>2
<1>5. m \in S /\ \A k \in S : k <= m
  BY <1>4
<1>6. QED
  BY <1>5

-----------------------------------------------------------------------------
(* The rows a statement returns, and their grouping.                       *)

Listed(s) == \E S : s \in Seq(S)

\* list has a row for each of the ids, once, with its key
Lists(list, ids, key) ==
  /\ \E n \in Nat : n <= Cardinality(ids) /\ DOMAIN list = 1 .. n
  /\ \A j \in DOMAIN list : list[j].id \in ids /\ list[j].key = key[list[j].id]
  /\ \A j, k \in DOMAIN list : list[j].id = list[k].id => j = k
  /\ \A x \in ids : \E j \in DOMAIN list : list[j].id = x

LEMMA RowsList ==
  ASSUME NEW ids, IsFiniteSet(ids), NEW key,
         NEW list \in SetToSeqs({Row(x, key[x]) : x \in ids})
  PROVE  Lists(list, ids, key) /\ Listed(list)
<1> DEFINE S == {Row(x, key[x]) : x \in ids}
           n == Cardinality(S)
           f == [x \in ids |-> Row(x, key[x])]
<1>1. f \in Surjection(ids, S)
  BY DEF Surjection
<1>2. IsFiniteSet(S) /\ n <= Cardinality(ids) /\ n \in Nat
  <2> HIDE DEF S, f
  <2>1. QED
    BY <1>1, FS_Surjection, FS_CardinalityType
<1>3. list \in [1 .. n -> S] /\ \A i, j \in 1 .. n : i # j => list[i] # list[j]
  BY DEF SetToSeqs
<1>4. list \in Surjection(1 .. n, S)
  <2> HIDE DEF S
  <2>1. list \in Injection(1 .. n, S)
    BY <1>3 DEF Injection, IsInjective
  <2>2. IsFiniteSet(1 .. n) /\ Cardinality(1 .. n) = Cardinality(S)
    BY <1>2, FS_Interval
  <2>3. QED
    BY <1>2, <2>1, <2>2, FS_Injection
<1>5. \A s \in S : \E j \in 1 .. n : list[j] = s
  BY <1>4 DEF Surjection
<1>6. \A j \in 1 .. n : list[j].id \in ids /\ list[j] = Row(list[j].id, key[list[j].id])
  BY <1>3 DEF Row
<1>7. \A x \in ids : \E j \in 1 .. n : list[j].id = x
  <2> SUFFICES ASSUME NEW x \in ids PROVE \E j \in 1 .. n : list[j].id = x
    OBVIOUS
  <2>1. PICK j \in 1 .. n : list[j] = Row(x, key[x])
    BY <1>5
  <2>2. QED
    BY <2>1 DEF Row
<1>8. \A j, k \in 1 .. n : list[j].id = list[k].id => j = k
  BY <1>3, <1>6
<1>9. \A j \in 1 .. n : list[j].key = key[list[j].id]
  <2> SUFFICES ASSUME NEW j \in 1 .. n PROVE list[j].key = key[list[j].id]
    OBVIOUS
  <2>1. list[j] = Row(list[j].id, key[list[j].id])
    BY <1>6
  <2>2. Row(list[j].id, key[list[j].id]).key = key[list[j].id]
    BY DEF Row
  <2>3. QED
    BY <2>1, <2>2
<1>10. DOMAIN list = 1 .. n /\ Listed(list)
  <2> HIDE DEF S
  <2>1. n \in Nat /\ list \in [1 .. n -> S]
    BY <1>2, <1>3
  <2>2. list \in Seq(S)
    BY <2>1
  <2>3. QED
    BY <2>1, <2>2 DEF Listed
<1>11. QED
  BY <1>2, <1>6, <1>7, <1>8, <1>9, <1>10 DEF Lists

LEMMA PlaceIs ==
  ASSUME NEW rows, NEW key, NEW i \in Place(rows, key)
  PROVE  i \in DOMAIN rows /\ rows[i].key = key
BY DEF Place

LEMMA OnePlace ==
  ASSUME NEW n \in Nat, NEW rows, DOMAIN rows = 1 .. n, NEW k \in 1 .. n
  PROVE  \E i \in 1 .. n : Place(rows, rows[k].key) = {i}
<1> DEFINE S == {j \in 1 .. n : rows[j].key = rows[k].key}
<1>1. PICK i \in S : \A j \in S : j <= i
  <2>1. S \subseteq 1 .. n /\ S # {}
    OBVIOUS
  <2>2. \A T : T \subseteq 1 .. n /\ T # {} => \E m \in T : \A j \in T : j <= m
    BY Greatest
  <2> HIDE DEF S
  <2>3. QED
    BY <2>1, <2>2
<1>2. i \in Place(rows, rows[k].key)
  BY <1>1 DEF Place
<1>3. ASSUME NEW j \in Place(rows, rows[k].key)
      PROVE  j = i
  BY <1>1, <1>2, <1>3 DEF Place
<1>4. QED
  BY <1>2, <1>3

GroupAt(parents, children, i) == GroupHasMany(parents, children)[i]
FirstAt(parents, children, i) == GroupHasOne(parents, children)[i]

\* a group has children of its parent, at their positions in the answer
LEMMA GroupIs ==
  ASSUME NEW parents, NEW children, NEW i \in DOMAIN parents
  PROVE  /\ \A j : j \in DOMAIN GroupAt(parents, children, i)
                     <=> j \in DOMAIN children /\ i \in Place(parents, children[j].key)
         /\ \A j \in DOMAIN GroupAt(parents, children, i) :
               /\ GroupAt(parents, children, i)[j] = children[j]
               /\ children[j].key = parents[i].key
<1> DEFINE group == GroupAt(parents, children, i)
<1>1. group = [j \in {j \in DOMAIN children : i \in Place(parents, children[j].key)}
                 |-> children[j]]
  BY DEF GroupHasMany, GroupAt, Restrict
<1> HIDE DEF group
<1>2. /\ \A j : j \in DOMAIN group
                  <=> j \in DOMAIN children /\ i \in Place(parents, children[j].key)
      /\ \A j \in DOMAIN group : /\ group[j] = children[j]
                                 /\ children[j].key = parents[i].key
  BY <1>1 DEF Place
<1>3. QED
  BY <1>2 DEF group

LEMMA FirstIs ==
  ASSUME NEW parents, NEW children, NEW n \in Nat, DOMAIN children = 1 .. n,
         NEW i \in DOMAIN parents
  PROVE  LET group == GroupAt(parents, children, i)
             first == FirstAt(parents, children, i)
         IN
         /\ DOMAIN first \subseteq DOMAIN group /\ \A j \in DOMAIN first : first[j] = group[j]
         /\ DOMAIN group = {} => Cardinality(DOMAIN first) = 0
         /\ DOMAIN group # {} => Cardinality(DOMAIN first) = 1
<1> DEFINE group == GroupAt(parents, children, i)
           first == FirstAt(parents, children, i)
<1>1. first = [j \in {j \in DOMAIN group : \A k \in DOMAIN group : j <= k} |-> group[j]]
  BY DEF GroupHasOne, GroupAt, FirstAt, Restrict
<1>2. DOMAIN first = {j \in DOMAIN group : \A k \in DOMAIN group : j <= k}
  BY <1>1
<1>3. DOMAIN group \subseteq Nat
  <2>1. DOMAIN group \subseteq DOMAIN children
    BY GroupIs
  <2> HIDE DEF group
  <2>2. QED
    BY <2>1
<1> HIDE DEF group, first
<1>4. ASSUME DOMAIN group # {}
      PROVE  Cardinality(DOMAIN first) = 1
  <2>1. PICK m \in DOMAIN group : \A k \in DOMAIN group : m <= k
    BY <1>3, <1>4, Least
  <2>2. ASSUME NEW j \in DOMAIN first
        PROVE  j = m
    <3>1. j <= m /\ m <= j /\ j \in Nat /\ m \in Nat
      BY <1>2, <1>3, <2>1, <2>2
    <3>2. QED
      BY <3>1
  <2>3. DOMAIN first = {m}
    BY <1>2, <2>1, <2>2
  <2>4. QED
    BY <2>3, FS_Singleton
<1>5. ASSUME DOMAIN group = {}
      PROVE  Cardinality(DOMAIN first) = 0
  BY <1>2, <1>5, FS_EmptySet
<1>6. /\ DOMAIN first \subseteq DOMAIN group /\ \A j \in DOMAIN first : first[j] = group[j]
      /\ DOMAIN group = {} => Cardinality(DOMAIN first) = 0
      /\ DOMAIN group # {} => Cardinality(DOMAIN first) = 1
  BY <1>1, <1>2, <1>4, <1>5
<1>7. QED
  BY <1>6 DEF group, first

-----------------------------------------------------------------------------
(* What a loader has while it loads.                                       *)

\* the rows held are a list; those of owners are related by their own id
Holds(l) ==
  /\ Listed(held[l])
  /\ todo[l] \in Seq(RelationsOf(job[l].of))
  /\ job[l].of # "posts" => \A i \in DOMAIN held[l] : held[l][i].key = held[l][i].id

Tables == DOMAIN owners = OwnerIds /\ DOMAIN posts = PostIds

Places == DOMAIN at = Loaders /\ DOMAIN held = Loaders
          /\ DOMAIN todo = Loaders /\ DOMAIN got = Loaders

LoaderInv(l) ==
  /\ job[l] \in Jobs[l]
  /\ at[l] \in {"start", "related"} => Listed(got[l])
  /\ at[l] = "related" => Holds(l)

Inv == Tables /\ Places /\ \A l \in Loaders : LoaderInv(l)

LEMMA ListDomain ==
  ASSUME NEW s, Listed(s)
  PROVE  Len(s) \in Nat /\ DOMAIN s = 1 .. Len(s)
BY DEF Listed

LEMMA ListGrows ==
  ASSUME NEW s, Listed(s), NEW e
  PROVE  /\ Listed(Append(s, e)) /\ Append(s, e)[Len(Append(s, e))] = e
         /\ \A i \in DOMAIN Append(s, e) :
               Append(s, e)[i] = e \/ (i \in DOMAIN s /\ Append(s, e)[i] = s[i])
<1>1. PICK S : s \in Seq(S)
  BY DEF Listed
<1>2. s \in Seq(S \cup {e}) /\ e \in S \cup {e}
  <2>1. s \in [1 .. Len(s) -> S \cup {e}] /\ Len(s) \in Nat
    BY <1>1
  <2>2. QED
    BY <2>1
<1>3. QED
  BY <1>2 DEF Listed

LEMMA TailIs ==
  ASSUME NEW S, NEW s \in Seq(S), s # <<>>
  PROVE  Tail(s) \in Seq(S) /\ Tail(s) # s /\ Head(s) \in S
<1>1. Len(s) \in Nat \ {0}
  OBVIOUS
<1>2. Tail(s) \in Seq(S) /\ Len(Tail(s)) = Len(s) - 1 /\ Head(s) \in S
  BY <1>1
<1>3. ASSUME Tail(s) = s
      PROVE  FALSE
  <2>1. Len(s) = Len(s) - 1
    BY <1>2, <1>3
  <2>2. QED
    BY <1>1, <2>1
<1>4. QED
  BY <1>2, <1>3

LEMMA ScopedIn ==
  ASSUME NEW table, NEW tenant
  PROVE  Queried(table, tenant) = Scoped(table, tenant)
         /\ Scoped(table, tenant) \subseteq DOMAIN table
BY DEF Queried, Scoped, Present

LEMMA PostsList ==
  ASSUME Tables, NEW ids, ids \subseteq PostIds, NEW list \in RowsOf(ids, PostKey)
  PROVE  /\ Lists(list, ids, [p \in PostIds |-> posts[p].owner]) /\ Listed(list)
<1> DEFINE key == [p \in PostIds |-> posts[p].owner]
<1>1. IsFiniteSet(ids)
  BY RelationsAssumption, FS_Subset
<1>2. {Row(p, PostKey(p)) : p \in ids} = {Row(p, key[p]) : p \in ids}
  BY DEF PostKey
<1>3. list \in SetToSeqs({Row(p, key[p]) : p \in ids})
  BY <1>2 DEF RowsOf
<1>4. QED
  <2> HIDE DEF key
  <2>1. Lists(list, ids, key) /\ Listed(list)
    BY <1>1, <1>3, RowsList
  <2>2. QED
    BY <2>1 DEF key

LEMMA OwnersList ==
  ASSUME Tables, NEW ids, ids \subseteq OwnerIds, NEW list \in RowsOf(ids, OwnerKey)
  PROVE  Lists(list, ids, [o \in OwnerIds |-> o]) /\ Listed(list)
<1> DEFINE key == [o \in OwnerIds |-> o]
<1>1. IsFiniteSet(ids)
  BY RelationsAssumption, FS_Subset
<1>2. {Row(o, OwnerKey(o)) : o \in ids} = {Row(o, key[o]) : o \in ids}
  BY DEF OwnerKey
<1>3. list \in SetToSeqs({Row(o, key[o]) : o \in ids})
  BY <1>2 DEF RowsOf
<1>4. QED
  <2> HIDE DEF key
  <2>1. Lists(list, ids, key) /\ Listed(list)
    BY <1>1, <1>3, RowsList
  <2>2. QED
    BY <2>1 DEF key

\* a row of an owner is related by its id
LEMMA OwnKeys ==
  ASSUME NEW list, NEW ids, ids \subseteq OwnerIds, Lists(list, ids, [o \in OwnerIds |-> o])
  PROVE  \A i \in DOMAIN list : list[i].key = list[i].id
BY DEF Lists

LEMMA InvInit == Init => Inv
<1> SUFFICES ASSUME Init PROVE Inv
  OBVIOUS
<1>1. Tables
  BY RelationsAssumption DEF Init, Tables
<1>2. Places
  BY DEF Init, Places
<1>3. ASSUME NEW l \in Loaders
      PROVE  LoaderInv(l)
  <2>1. at[l] = "start" /\ got[l] = <<>> /\ job[l] \in Jobs[l]
    BY DEF Init
  <2>2. Listed(<<>>)
    <3>1. <<>> \in Seq({})
      OBVIOUS
    <3>2. QED
      BY <3>1 DEF Listed
  <2>3. QED
    BY <2>1, <2>2 DEF LoaderInv
<1>4. QED
  BY <1>1, <1>2, <1>3 DEF Inv

-----------------------------------------------------------------------------
(* The steps.                                                              *)

\* a step of one loader leaves the tables and the other loaders alone
Alone(l) ==
  /\ UNCHANGED <<owners, posts, job>> /\ Places'
  /\ \A m \in Loaders \ {l} :
        at'[m] = at[m] /\ held'[m] = held[m] /\ todo'[m] = todo[m] /\ got'[m] = got[m]

LEMMA AloneKeeps ==
  ASSUME Inv, NEW l \in Loaders, Alone(l), LoaderInv(l)'
  PROVE  Inv'
<1>1. Tables' /\ Places'
  BY DEF Inv, Tables, Alone
<1>2. ASSUME NEW m \in Loaders \ {l}
      PROVE  LoaderInv(m)'
  <2>1. /\ at'[m] = at[m] /\ held'[m] = held[m] /\ todo'[m] = todo[m] /\ got'[m] = got[m]
        /\ job' = job
    BY <1>2 DEF Alone
  <2>2. LoaderInv(m)
    BY <1>2 DEF Inv
  <2>3. QED
    BY <2>1, <2>2 DEF LoaderInv, Holds
<1>3. QED
  BY <1>1, <1>2 DEF Inv

LEMMA FetchFirstKeeps ==
  ASSUME Inv, NEW l \in Loaders, FetchFirst(l)
  PROVE  Inv'
<1>1. Tables /\ Places /\ job[l] \in Jobs[l] /\ Listed(got[l]) /\ job[l].call = "eager"
  BY DEF Inv, LoaderInv, FetchFirst
<1>2. Alone(l)
  BY <1>1 DEF FetchFirst, Alone, Places
<1>3. at'[l] = "related" /\ got' = got /\ job' = job /\ todo'[l] = job[l].load
  BY <1>1 DEF FetchFirst, Places
<1>4. todo'[l] \in Seq(RelationsOf(job'[l].of))
  BY <1>1, <1>3, RelationsAssumption
<1>5. PICK list \in IF job[l].of = "posts"
                    THEN RowsOf(Queried(posts, job[l].tenant), PostKey)
                    ELSE RowsOf(Queried(owners, job[l].tenant), OwnerKey) :
         held' = [held EXCEPT ![l] =
            IF job[l].joined /\ list # <<>> THEN Append(list, list[1]) ELSE list]
  BY DEF FetchFirst
<1>6. /\ Queried(posts, job[l].tenant) \subseteq PostIds
      /\ Queried(owners, job[l].tenant) \subseteq OwnerIds
  BY <1>1, ScopedIn DEF Tables
<1>7. Listed(list) /\ (job[l].of # "posts" => \A i \in DOMAIN list : list[i].key = list[i].id)
  <2>1. CASE job[l].of = "posts"
    <3>1. list \in RowsOf(Queried(posts, job[l].tenant), PostKey)
      BY <1>5, <2>1
    <3>2. QED
      BY <1>1, <1>6, <2>1, <3>1, PostsList
  <2>2. CASE job[l].of # "posts"
    <3>1. list \in RowsOf(Queried(owners, job[l].tenant), OwnerKey)
      BY <1>5, <2>2
    <3>2. Lists(list, Queried(owners, job[l].tenant), [o \in OwnerIds |-> o]) /\ Listed(list)
      BY <1>1, <1>6, <3>1, OwnersList
    <3>3. QED
      BY <1>6, <3>2, OwnKeys
  <2>3. QED
    BY <2>1, <2>2
<1>8. held'[l] = IF job[l].joined /\ list # <<>> THEN Append(list, list[1]) ELSE list
  BY <1>1, <1>5 DEF Places
<1>9. Listed(held'[l])
      /\ (job[l].of # "posts" => \A i \in DOMAIN held'[l] : held'[l][i].key = held'[l][i].id)
  <2>1. CASE job[l].joined /\ list # <<>>
    <3>1. held'[l] = Append(list, list[1]) /\ 1 \in DOMAIN list
      <4>1. Len(list) # 0
        BY <1>7, <2>1 DEF Listed
      <4>2. QED
        BY <1>7, <1>8, <2>1, <4>1, ListDomain
    <3>2. QED
      BY <1>7, <3>1, ListGrows
  <2>2. CASE ~(job[l].joined /\ list # <<>>)
    BY <1>7, <1>8, <2>2
  <2>3. QED
    BY <2>1, <2>2
<1>10. LoaderInv(l)'
  BY <1>1, <1>3, <1>4, <1>9 DEF LoaderInv, Holds
<1>11. QED
  BY <1>2, <1>10, AloneKeeps

LEMMA LoadsIs ==
  ASSUME Inv, NEW l \in Loaders, NEW relation, NEW groups, Loads(l, relation, groups)
  PROVE  /\ Alone(l) /\ Added(l) = groups /\ Head(todo[l]) = relation
         /\ at'[l] = "related" /\ Listed(got'[l]) /\ held' = held /\ job' = job
         /\ todo'[l] = Tail(todo[l])
<1>1. Places /\ at[l] = "related" /\ Listed(got[l])
  BY DEF Inv, LoaderInv, Loads
<1>2. got'[l] = Append(got[l], groups) /\ todo'[l] = Tail(todo[l])
  BY <1>1 DEF Loads, Places
<1>3. Alone(l)
  BY <1>1 DEF Loads, Alone, Places
<1>4. QED
  BY <1>1, <1>2, <1>3, ListGrows DEF Loads, Added

LEMMA LoadsKeeps ==
  ASSUME Inv, NEW l \in Loaders, NEW relation, NEW groups, Loads(l, relation, groups)
  PROVE  Inv'
<1>1. Holds(l) /\ job[l] \in Jobs[l] /\ todo[l] # <<>>
  BY DEF Loads, Inv, LoaderInv
<1>2. Tail(todo[l]) \in Seq(RelationsOf(job[l].of))
  BY <1>1, TailIs DEF Holds
<1>3. LoaderInv(l)'
  BY <1>1, <1>2, LoadsIs DEF LoaderInv, Holds
<1>4. QED
  BY <1>3, LoadsIs, AloneKeeps

\* a step after which nothing is loaded any more
LEMMA EndKeeps ==
  ASSUME Inv, NEW l \in Loaders, NEW e \in {"done", "error"},
         at' = [at EXCEPT ![l] = e], UNCHANGED <<owners, posts, job, held, todo>>,
         got' = got \/ \E g : got' = [got EXCEPT ![l] = g]
  PROVE  Inv'
<1>1. Places
  BY DEF Inv
<1>2. at'[l] = e /\ \A m \in Loaders \ {l} : at'[m] = at[m]
  BY <1>1 DEF Places
<1>3. DOMAIN got' = Loaders /\ \A m \in Loaders \ {l} : got'[m] = got[m]
  BY <1>1 DEF Places
<1>4. Alone(l)
  BY <1>1, <1>2, <1>3 DEF Alone, Places
<1>5. LoaderInv(l)'
  BY <1>2 DEF Inv, LoaderInv
<1>6. QED
  BY <1>4, <1>5, AloneKeeps

LEMMA InvStep ==
  ASSUME Inv, [Next]_vars
  PROVE  Inv'
<1>1. CASE UNCHANGED vars
  BY <1>1 DEF vars, Inv, Tables, Places, LoaderInv, Holds
<1>2. CASE Change
  <2>1. UNCHANGED <<job, at, held, todo, got>>
    BY <1>2 DEF Change
  <2>2. Tables'
    BY <1>2 DEF Change, Inv, Tables
  <2>3. QED
    BY <2>1, <2>2 DEF Inv, Places, LoaderInv, Holds
<1>3. ASSUME NEW l \in Loaders, Statement(l) \/ LoadFails(l)
      PROVE  Inv'
  <2>1. CASE FetchFirst(l)
    BY <2>1, FetchFirstKeeps
  <2>2. CASE WithHasMany(l) \/ WithHasOne(l) \/ WithBelongsTo(l)
    BY <2>2, LoadsKeeps DEF WithHasMany, WithHasOne, WithBelongsTo
  <2>3. CASE EagerDone(l)
    BY <2>3, EndKeeps DEF EagerDone
  <2>4. CASE LoadFails(l)
    BY <2>4, EndKeeps DEF LoadFails
  <2>5. CASE MorphToRefused(l)
    BY <2>5, EndKeeps DEF MorphToRefused
  <2>6. ASSUME NEW call, NEW ids, Single(l, call, ids)
        PROVE  Inv'
    BY <2>6, EndKeeps DEF Single
  <2>7. CASE Through(l) \/ MorphMany(l) \/ MorphOne(l) \/ MorphTo(l)
    BY <2>6, <2>7 DEF Through, MorphMany, MorphOne, MorphTo
  <2>8. QED
    BY <1>3, <2>1, <2>2, <2>3, <2>4, <2>5, <2>7 DEF Statement
<1>4. QED
  BY <1>1, <1>2, <1>3 DEF Next

LEMMA Always == Spec => []Inv
BY InvInit, InvStep, PTL DEF Spec

\* which step it is that loads a relation
LEMMA WhoLoads ==
  ASSUME Inv, [Next]_vars, NEW l \in Loaders, NEW relation, Loaded(l, relation)
  PROVE  /\ Holds(l)
         /\ \/ /\ relation = "has_many"
               /\ \E rows \in Children(l) : Added(l) = GroupHasMany(held[l], rows)
            \/ /\ relation = "has_one"
               /\ \E rows \in Children(l) : Added(l) = GroupHasOne(held[l], rows)
            \/ /\ relation = "belongs_to"
               /\ \E rows \in Parents(l) : Added(l) = GroupBelongsTo(held[l], rows)
<1>1. Holds(l) /\ at[l] = "related" /\ todo'[l] # todo[l] /\ Head(todo[l]) = relation
      /\ todo[l] # <<>>
  BY TailIs DEF Inv, LoaderInv, Holds, Loaded
<1>2. PICK m \in Loaders : Statement(m) \/ LoadFails(m)
  BY <1>1 DEF Next, vars, Change
<1>3. todo' # todo
  BY <1>1
<1>4. CASE FetchFirst(m)
  <2>1. at[m] = "start" /\ todo' = [todo EXCEPT ![m] = job[m].load]
    BY <1>4 DEF FetchFirst
  <2>2. QED
    BY <1>1, <2>1 DEF Inv, Places
<1>5. ASSUME NEW name, NEW groups, Loads(m, name, groups)
      PROVE  m = l /\ Added(l) = groups /\ name = relation
  <2>1. m = l
    BY <1>1, <1>5, LoadsIs DEF Alone
  <2>2. QED
    BY <1>1, <1>5, <2>1, LoadsIs
<1>6. CASE WithHasMany(m)
  BY <1>1, <1>5, <1>6 DEF WithHasMany
<1>7. CASE WithHasOne(m)
  BY <1>1, <1>5, <1>7 DEF WithHasOne
<1>8. CASE WithBelongsTo(m)
  BY <1>1, <1>5, <1>8 DEF WithBelongsTo
<1>9. CASE EagerDone(m) \/ LoadFails(m) \/ MorphToRefused(m)
  BY <1>3, <1>9 DEF EagerDone, LoadFails, MorphToRefused
<1>10. CASE Through(m) \/ MorphMany(m) \/ MorphOne(m) \/ MorphTo(m)
  BY <1>3, <1>10 DEF Through, MorphMany, MorphOne, MorphTo, Single
<1>11. QED
  BY <1>2, <1>4, <1>6, <1>7, <1>8, <1>9, <1>10 DEF Statement

-----------------------------------------------------------------------------
(* Children and their parents.                                             *)

Wanted(l) == {p \in Scoped(posts, job[l].tenant) : posts[p].owner \in KeysOf(held[l])}
OwnerOf == [p \in PostIds |-> posts[p].owner]

LEMMA ChildrenList ==
  ASSUME Inv, NEW l \in Loaders, NEW rows \in Children(l)
  PROVE  /\ Lists(rows, Wanted(l), OwnerOf) /\ Wanted(l) \subseteq PostIds
         /\ Cardinality(Wanted(l)) <= Cardinality(PostIds)
         /\ Cardinality(PostIds) \in Nat /\ Cardinality(Wanted(l)) \in Nat
<1>1. Tables
  BY DEF Inv
<1>2. Wanted(l) \subseteq PostIds
  BY <1>1, ScopedIn DEF Wanted, Tables
<1>3. rows \in RowsOf(Wanted(l), PostKey)
  BY ScopedIn DEF Children, Wanted
<1>4. /\ Cardinality(Wanted(l)) <= Cardinality(PostIds)
      /\ Cardinality(PostIds) \in Nat /\ Cardinality(Wanted(l)) \in Nat
  BY <1>2, RelationsAssumption, FS_Subset, FS_CardinalityType
<1>5. Lists(rows, Wanted(l), OwnerOf)
  BY <1>1, <1>2, <1>3, PostsList DEF OwnerOf
<1>6. QED
  BY <1>2, <1>4, <1>5

\* the owners whose children are wanted
LEMMA WantedAre ==
  ASSUME NEW l \in Loaders, Holds(l), job[l].of # "posts",
         NEW p \in Scoped(posts, job[l].tenant)
  PROVE  p \in Wanted(l) <=> posts[p].owner \in IdsOf(held[l])
<1>1. KeysOf(held[l]) = IdsOf(held[l])
  BY DEF KeysOf, IdsOf, Holds
<1>2. QED
  BY <1>1 DEF Wanted

Group(l, rows, i) == GroupAt(held[l], rows, i)

\* a group has nothing but children of its parent
LEMMA GroupsChildren ==
  ASSUME Inv, NEW l \in Loaders, Holds(l), job[l].of # "posts", NEW rows \in Children(l),
         NEW i \in DOMAIN held[l], NEW j \in DOMAIN Group(l, rows, i)
  PROVE  /\ Group(l, rows, i)[j].id \in Scoped(posts, job[l].tenant)
         /\ posts[Group(l, rows, i)[j].id].owner = held[l][i].id
<1>1. /\ j \in DOMAIN rows /\ Group(l, rows, i)[j] = rows[j]
      /\ rows[j].key = held[l][i].key
  BY GroupIs DEF Group
<1>2. rows[j].id \in Wanted(l) /\ rows[j].key = OwnerOf[rows[j].id] /\ Wanted(l) \subseteq PostIds
  BY <1>1, ChildrenList DEF Lists
<1>3. held[l][i].key = held[l][i].id
  BY DEF Holds
<1>4. QED
  BY <1>1, <1>2, <1>3 DEF Wanted, OwnerOf

\* the place of a child among the parents
LEMMA ChildPlace ==
  ASSUME Inv, NEW l \in Loaders, Holds(l), job[l].of # "posts", NEW rows \in Children(l),
         NEW p \in Scoped(posts, job[l].tenant), posts[p].owner \in IdsOf(held[l])
  PROVE  \E i \in DOMAIN held[l], j \in DOMAIN rows :
            /\ rows[j].id = p /\ \A k \in DOMAIN rows : rows[k].id = p => k = j
            /\ Place(held[l], rows[j].key) = {i}
            /\ held[l][i].id = posts[p].owner /\ rows[j].key = posts[p].owner
<1>1. p \in Wanted(l)
  BY WantedAre
<1>2. /\ Wanted(l) \subseteq PostIds
      /\ \A j \in DOMAIN rows : rows[j].key = OwnerOf[rows[j].id]
      /\ \A j, k \in DOMAIN rows : rows[j].id = rows[k].id => j = k
      /\ \E j \in DOMAIN rows : rows[j].id = p
  BY <1>1, ChildrenList DEF Lists
<1>3. PICK j \in DOMAIN rows : rows[j].id = p
  BY <1>2
<1>4. rows[j].key = posts[p].owner /\ \A k \in DOMAIN rows : rows[k].id = p => k = j
  BY <1>1, <1>2, <1>3 DEF OwnerOf
<1>5. PICK k \in DOMAIN held[l] : held[l][k].id = posts[p].owner
  BY DEF IdsOf
<1>6. held[l][k].key = rows[j].key
  BY <1>4, <1>5 DEF Holds
<1>7. Len(held[l]) \in Nat /\ DOMAIN held[l] = 1 .. Len(held[l])
  BY ListDomain DEF Holds
<1>8. PICK i \in DOMAIN held[l] : Place(held[l], rows[j].key) = {i}
  <2>1. k \in 1 .. Len(held[l])
    BY <1>5, <1>7
  <2>2. \A n \in Nat : DOMAIN held[l] = 1 .. n => \A m \in 1 .. n :
           \E i \in 1 .. n : Place(held[l], held[l][m].key) = {i}
    BY OnePlace
  <2>3. QED
    BY <1>6, <1>7, <2>1, <2>2
<1>9. held[l][i].id = posts[p].owner
  <2>1. held[l][i].key = rows[j].key
    BY <1>8, PlaceIs
  <2>2. QED
    BY <1>4, <2>1 DEF Holds
<1>10. QED
  BY <1>3, <1>4, <1>8, <1>9

\* the children wanted are each in one group, once
LEMMA OneGroup ==
  ASSUME Inv, NEW l \in Loaders, Holds(l), job[l].of # "posts", NEW rows \in Children(l),
         NEW p \in Scoped(posts, job[l].tenant), posts[p].owner \in IdsOf(held[l])
  PROVE  \E i \in DOMAIN held[l], j \in 1 .. Cardinality(PostIds) :
            /\ j \in DOMAIN Group(l, rows, i) /\ Group(l, rows, i)[j].id = p
            /\ \A m \in DOMAIN held[l] : \A k \in DOMAIN Group(l, rows, m) :
                  Group(l, rows, m)[k].id = p => m = i /\ k = j
            /\ \A m \in DOMAIN held[l] :
                  held[l][m].id = posts[p].owner /\ DOMAIN Group(l, rows, m) # {} => m = i
            /\ held[l][i].id = posts[p].owner
<1>1. PICK i \in DOMAIN held[l], j \in DOMAIN rows :
            /\ rows[j].id = p /\ \A k \in DOMAIN rows : rows[k].id = p => k = j
            /\ Place(held[l], rows[j].key) = {i}
            /\ held[l][i].id = posts[p].owner /\ rows[j].key = posts[p].owner
  BY ChildPlace, SMTT(30)
<1>2. j \in 1 .. Cardinality(PostIds)
  <2>1. PICK n \in Nat : n <= Cardinality(Wanted(l)) /\ DOMAIN rows = 1 .. n
    BY ChildrenList DEF Lists
  <2>2. QED
    BY <2>1, ChildrenList
<1>3. \A m \in DOMAIN held[l] :
         /\ \A k : k \in DOMAIN Group(l, rows, m)
                     <=> k \in DOMAIN rows /\ m \in Place(held[l], rows[k].key)
         /\ \A k \in DOMAIN Group(l, rows, m) :
               /\ Group(l, rows, m)[k] = rows[k]
               /\ rows[k].key = held[l][m].key
  BY GroupIs DEF Group
<1>4. j \in DOMAIN Group(l, rows, i) /\ Group(l, rows, i)[j].id = p
  <2>1. i \in Place(held[l], rows[j].key)
    BY <1>1
  <2>2. j \in DOMAIN Group(l, rows, i)
    BY <1>3, <2>1
  <2>3. QED
    BY <1>1, <1>3, <2>2
<1>5. ASSUME NEW m \in DOMAIN held[l], NEW k \in DOMAIN Group(l, rows, m),
             Group(l, rows, m)[k].id = p
      PROVE  m = i /\ k = j
  <2>1. k \in DOMAIN rows /\ rows[k].id = p /\ m \in Place(held[l], rows[k].key)
    BY <1>3, <1>5
  <2>2. k = j
    BY <1>1, <2>1
  <2>3. m \in {i}
    BY <1>1, <2>1, <2>2
  <2>4. QED
    BY <2>2, <2>3
<1>6. ASSUME NEW m \in DOMAIN held[l], held[l][m].id = posts[p].owner,
             NEW k \in DOMAIN Group(l, rows, m)
      PROVE  m = i
  <2>1. k \in DOMAIN rows /\ rows[k].key = held[l][m].key /\ m \in Place(held[l], rows[k].key)
    BY <1>3, <1>6
  <2>2. rows[k].key = rows[j].key
    BY <1>1, <1>6, <2>1 DEF Holds
  <2>3. m \in {i}
    BY <1>1, <2>1, <2>2
  <2>4. QED
    BY <2>3
<1>7. \A m \in DOMAIN held[l] :
         held[l][m].id = posts[p].owner /\ DOMAIN Group(l, rows, m) # {} => m = i
  BY <1>6
<1>8. \A m \in DOMAIN held[l] : \A k \in DOMAIN Group(l, rows, m) :
         Group(l, rows, m)[k].id = p => m = i /\ k = j
  BY <1>5
<1>9. WITNESS i \in DOMAIN held[l], j \in 1 .. Cardinality(PostIds)
<1>10. QED
  BY <1>1, <1>4, <1>7, <1>8

LEMMA HasManyServes ==
  ASSUME Inv, NEW l \in Loaders, Holds(l), job[l].of # "posts", NEW rows \in Children(l),
         NEW groups, groups = GroupHasMany(held[l], rows)
  PROVE  /\ \A i \in DOMAIN held[l] :
               IdsOf(groups[i]) \subseteq
                  {p \in Scoped(posts, job[l].tenant) : posts[p].owner = held[l][i].id}
         /\ \A p \in Scoped(posts, job[l].tenant) : posts[p].owner \in IdsOf(held[l]) =>
               Cardinality({w \in (DOMAIN held[l]) \X (1 .. Cardinality(PostIds)) :
                  /\ w[2] \in DOMAIN groups[w[1]]
                  /\ groups[w[1]][w[2]].id = p}) = 1
<1>0. \A i : groups[i] = Group(l, rows, i)
  BY DEF Group, GroupAt
<1>1. ASSUME NEW i \in DOMAIN held[l]
      PROVE  IdsOf(groups[i]) \subseteq
                {p \in Scoped(posts, job[l].tenant) : posts[p].owner = held[l][i].id}
  <2>1. ASSUME NEW j \in DOMAIN groups[i]
        PROVE  /\ groups[i][j].id \in Scoped(posts, job[l].tenant)
               /\ posts[groups[i][j].id].owner = held[l][i].id
    <3>1. j \in DOMAIN Group(l, rows, i) /\ groups[i] = Group(l, rows, i)
      BY <1>0, <2>1
    <3>2. QED
      BY <3>1, GroupsChildren
  <2>2. QED
    BY <2>1 DEF IdsOf
<1>2. ASSUME NEW p \in Scoped(posts, job[l].tenant), posts[p].owner \in IdsOf(held[l])
      PROVE  Cardinality({w \in (DOMAIN held[l]) \X (1 .. Cardinality(PostIds)) :
                /\ w[2] \in DOMAIN groups[w[1]]
                /\ groups[w[1]][w[2]].id = p}) = 1
  <2> DEFINE W == {w \in (DOMAIN held[l]) \X (1 .. Cardinality(PostIds)) :
                     /\ w[2] \in DOMAIN groups[w[1]]
                     /\ groups[w[1]][w[2]].id = p}
  <2>1. PICK i \in DOMAIN held[l], j \in 1 .. Cardinality(PostIds) :
            /\ j \in DOMAIN groups[i] /\ groups[i][j].id = p
            /\ \A m \in DOMAIN held[l] : \A k \in DOMAIN groups[m] :
                  groups[m][k].id = p => m = i /\ k = j
    <3>1. PICK i \in DOMAIN held[l], j \in 1 .. Cardinality(PostIds) :
            /\ j \in DOMAIN Group(l, rows, i) /\ Group(l, rows, i)[j].id = p
            /\ \A m \in DOMAIN held[l] : \A k \in DOMAIN Group(l, rows, m) :
                  Group(l, rows, m)[k].id = p => m = i /\ k = j
      BY <1>2, OneGroup
    <3>2. QED
      BY <1>0, <3>1
  <2>2. <<i, j>> \in W
    BY <2>1
  <2>3. ASSUME NEW w \in W
        PROVE  w = <<i, j>>
    <3>1. /\ w \in (DOMAIN held[l]) \X (1 .. Cardinality(PostIds))
          /\ w[2] \in DOMAIN groups[w[1]] /\ groups[w[1]][w[2]].id = p
      BY <2>3
    <3>2. w[1] = i /\ w[2] = j
      BY <2>1, <3>1
    <3>3. QED
      BY <3>1, <3>2
  <2>4. W = {<<i, j>>}
    <3> HIDE DEF W
    <3>1. QED
      BY <2>2, <2>3
  <2>5. Cardinality(W) = 1
    <3> HIDE DEF W
    <3>1. QED
      BY <2>4, FS_Singleton
  <2>6. QED
    BY <2>5
<1>3. QED
  BY <1>1, <1>2

LEMMA HasOneServes ==
  ASSUME Inv, NEW l \in Loaders, Holds(l), job[l].of # "posts", NEW rows \in Children(l),
         NEW groups, groups = GroupHasOne(held[l], rows)
  PROVE  /\ \A i \in DOMAIN held[l] :
               IdsOf(groups[i]) \subseteq
                  {p \in Scoped(posts, job[l].tenant) : posts[p].owner = held[l][i].id}
         /\ \A p \in Scoped(posts, job[l].tenant) : posts[p].owner \in IdsOf(held[l]) =>
               Cardinality({i \in DOMAIN held[l] :
                  /\ held[l][i].id = posts[p].owner
                  /\ Cardinality(DOMAIN groups[i]) = 1}) = 1
<1>1. PICK n \in Nat : DOMAIN rows = 1 .. n
  BY ChildrenList DEF Lists
<1>2. \A i \in DOMAIN held[l] :
         /\ DOMAIN groups[i] \subseteq DOMAIN Group(l, rows, i)
         /\ \A j \in DOMAIN groups[i] : groups[i][j] = Group(l, rows, i)[j]
         /\ DOMAIN Group(l, rows, i) = {} => Cardinality(DOMAIN groups[i]) = 0
         /\ DOMAIN Group(l, rows, i) # {} => Cardinality(DOMAIN groups[i]) = 1
  <2>1. \A i \in DOMAIN held[l] : groups[i] = FirstAt(held[l], rows, i)
    BY DEF FirstAt
  <2>2. \A i \in DOMAIN held[l] :
           LET group == GroupAt(held[l], rows, i)
               first == FirstAt(held[l], rows, i)
           IN
           /\ DOMAIN first \subseteq DOMAIN group
           /\ \A j \in DOMAIN first : first[j] = group[j]
           /\ DOMAIN group = {} => Cardinality(DOMAIN first) = 0
           /\ DOMAIN group # {} => Cardinality(DOMAIN first) = 1
    BY <1>1, FirstIs
  <2>3. QED
    BY <2>1, <2>2 DEF Group
<1>3. ASSUME NEW i \in DOMAIN held[l]
      PROVE  IdsOf(groups[i]) \subseteq
                {p \in Scoped(posts, job[l].tenant) : posts[p].owner = held[l][i].id}
  <2>1. ASSUME NEW j \in DOMAIN groups[i]
        PROVE  /\ groups[i][j].id \in Scoped(posts, job[l].tenant)
               /\ posts[groups[i][j].id].owner = held[l][i].id
    <3>1. j \in DOMAIN Group(l, rows, i) /\ groups[i][j] = Group(l, rows, i)[j]
      BY <1>2, <2>1
    <3>2. QED
      BY <3>1, GroupsChildren
  <2>2. QED
    BY <2>1 DEF IdsOf
<1>4. ASSUME NEW p \in Scoped(posts, job[l].tenant), posts[p].owner \in IdsOf(held[l])
      PROVE  Cardinality({i \in DOMAIN held[l] :
                /\ held[l][i].id = posts[p].owner
                /\ Cardinality(DOMAIN groups[i]) = 1}) = 1
  <2> DEFINE I == {i \in DOMAIN held[l] : /\ held[l][i].id = posts[p].owner
                                          /\ Cardinality(DOMAIN groups[i]) = 1}
  <2>1. PICK i \in DOMAIN held[l], j \in 1 .. Cardinality(PostIds) :
            /\ j \in DOMAIN Group(l, rows, i)
            /\ \A m \in DOMAIN held[l] :
                  held[l][m].id = posts[p].owner /\ DOMAIN Group(l, rows, m) # {} => m = i
            /\ held[l][i].id = posts[p].owner
    BY <1>4, OneGroup
  <2>2. i \in I
    BY <1>2, <2>1
  <2>3. ASSUME NEW m \in I
        PROVE  m = i
    <3>1. /\ m \in DOMAIN held[l] /\ held[l][m].id = posts[p].owner
          /\ Cardinality(DOMAIN groups[m]) = 1
      BY <2>3
    <3>2. DOMAIN Group(l, rows, m) # {}
      <4> SUFFICES ASSUME DOMAIN Group(l, rows, m) = {} PROVE FALSE
        OBVIOUS
      <4>1. Cardinality(DOMAIN groups[m]) = 0
        BY <1>2, <3>1
      <4>2. 0 = 1
        BY <3>1, <4>1
      <4>3. QED
        BY <4>2
    <3>3. QED
      BY <2>1, <3>1, <3>2
  <2>4. I = {i}
    <3> HIDE DEF I
    <3>1. QED
      BY <2>2, <2>3
  <2>5. Cardinality(I) = 1
    <3> HIDE DEF I
    <3>1. QED
      BY <2>4, FS_Singleton
  <2>6. QED
    BY <2>5
<1>5. QED
  BY <1>3, <1>4

\* For any tables, loaders and changes by others: with_has_many and with_has_one
\* (eager.rs) give each parent children of its own only, and each child that is
\* there exactly once, whatever happened since the parents were fetched and
\* however often a join returned one of them.
THEOREM ParentsGetTheirChildren == Spec => ChildrenOfTheirParents
<1> DEFINE Right(l) ==
         /\ Loaded(l, "has_many") \/ Loaded(l, "has_one") =>
              \A i \in DOMAIN held[l] :
                 IdsOf(Added(l)[i]) \subseteq
                    {p \in Scoped(posts, job[l].tenant) : posts[p].owner = held[l][i].id}
         /\ Loaded(l, "has_many") =>
              \A p \in Scoped(posts, job[l].tenant) : posts[p].owner \in IdsOf(held[l]) =>
                 Cardinality({w \in (DOMAIN held[l]) \X (1 .. Cardinality(PostIds)) :
                    /\ w[2] \in DOMAIN Added(l)[w[1]]
                    /\ Added(l)[w[1]][w[2]].id = p}) = 1
         /\ Loaded(l, "has_one") =>
              \A p \in Scoped(posts, job[l].tenant) : posts[p].owner \in IdsOf(held[l]) =>
                 Cardinality({i \in DOMAIN held[l] :
                    /\ held[l][i].id = posts[p].owner
                    /\ Cardinality(DOMAIN Added(l)[i]) = 1}) = 1
<1>1. ASSUME Inv, [Next]_vars, NEW l \in Loaders
      PROVE  Right(l)
  <2>1. ASSUME Loaded(l, "has_many") \/ Loaded(l, "has_one")
        PROVE  job[l].of # "posts"
    <3>1. Holds(l) /\ Head(todo[l]) \in {"has_many", "has_one"} /\ todo[l] # <<>>
      BY <1>1, <2>1, WhoLoads DEF Loaded
    <3>2. Head(todo[l]) \in RelationsOf(job[l].of)
      BY <3>1, TailIs DEF Holds
    <3>3. QED
      BY <3>1, <3>2 DEF RelationsOf
  <2>2. ASSUME Loaded(l, "has_many")
        PROVE  Right(l)
    <3>1. PICK rows \in Children(l) : Added(l) = GroupHasMany(held[l], rows)
      BY <1>1, <2>2, WhoLoads
    <3>2. Holds(l) /\ ~Loaded(l, "has_one")
      BY <1>1, <2>2, WhoLoads DEF Loaded
    <3>3. /\ \A i \in DOMAIN held[l] :
                IdsOf(Added(l)[i]) \subseteq
                   {p \in Scoped(posts, job[l].tenant) : posts[p].owner = held[l][i].id}
          /\ \A p \in Scoped(posts, job[l].tenant) : posts[p].owner \in IdsOf(held[l]) =>
                Cardinality({w \in (DOMAIN held[l]) \X (1 .. Cardinality(PostIds)) :
                   /\ w[2] \in DOMAIN Added(l)[w[1]]
                   /\ Added(l)[w[1]][w[2]].id = p}) = 1
      BY <1>1, <2>1, <2>2, <3>1, <3>2, HasManyServes, SMTT(30)
    <3>4. QED
      BY <3>2, <3>3
  <2>3. ASSUME Loaded(l, "has_one")
        PROVE  Right(l)
    <3>1. PICK rows \in Children(l) : Added(l) = GroupHasOne(held[l], rows)
      BY <1>1, <2>3, WhoLoads
    <3>2. Holds(l) /\ ~Loaded(l, "has_many")
      BY <1>1, <2>3, WhoLoads DEF Loaded
    <3>3. QED
      BY <1>1, <2>1, <2>3, <3>1, <3>2, HasOneServes
  <2>4. QED
    BY <2>2, <2>3
<1>2. Inv /\ [Next]_vars => [\A l \in Loaders : Right(l)]_vars
  BY <1>1
<1>3. QED
  BY <1>2, Always, PTL DEF Spec, ChildrenOfTheirParents

-----------------------------------------------------------------------------
(* Owners of children.                                                     *)

\* For any tables, loaders and changes by others: with_belongs_to (eager.rs)
\* gives each child the owner its foreign key named when it was fetched, if that
\* owner is there and of the loader's tenant, and no other.
THEOREM ChildrenGetTheirOwner == Spec => OwnersOfTheirChildren
<1> DEFINE Right(l) == Loaded(l, "belongs_to") =>
         \A i \in DOMAIN held[l] :
            IdsOf(Added(l)[i]) = {held[l][i].key} \cap Scoped(owners, job[l].tenant)
<1>1. ASSUME Inv, [Next]_vars, NEW l \in Loaders, Loaded(l, "belongs_to"),
             NEW i \in DOMAIN held[l]
      PROVE  IdsOf(Added(l)[i]) = {held[l][i].key} \cap Scoped(owners, job[l].tenant)
  <2>1. PICK rows \in Parents(l) : Added(l) = GroupBelongsTo(held[l], rows)
    BY <1>1, WhoLoads
  <2> DEFINE ids == Scoped(owners, job[l].tenant) \cap KeysOf(held[l])
             key == held[l][i].key
             group == Added(l)[i]
  <2>2. ids \subseteq OwnerIds /\ key \in KeysOf(held[l])
    BY <1>1, ScopedIn DEF Inv, Tables, KeysOf
  <2>3. Lists(rows, ids, [o \in OwnerIds |-> o])
    BY <1>1, <2>2, ScopedIn, OwnersList DEF Inv, Parents
  <2>4. /\ \A j \in DOMAIN rows : rows[j].id \in ids /\ rows[j].key = rows[j].id
        /\ \A j, k \in DOMAIN rows : rows[j].id = rows[k].id => j = k
        /\ \A x \in ids : \E j \in DOMAIN rows : rows[j].id = x
        /\ \E n \in Nat : DOMAIN rows = 1 .. n
    BY <2>2, <2>3 DEF Lists
  <2>5. DOMAIN group = Place(rows, key) /\ \A j \in Place(rows, key) : group[j] = rows[j]
    BY <2>1 DEF GroupBelongsTo, Restrict
  <2> HIDE DEF ids, group
  <2>6. Place(rows, key) = {j \in DOMAIN rows : rows[j].id = key}
    BY <2>4 DEF Place
  <2>7. IdsOf(group) = {key} \cap ids
    <3>1. ASSUME NEW x \in IdsOf(group)
          PROVE  x \in {key} \cap ids
      BY <2>4, <2>5, <2>6 DEF IdsOf
    <3>2. ASSUME key \in ids
          PROVE  key \in IdsOf(group)
      BY <2>4, <2>5, <2>6, <3>2 DEF IdsOf
    <3>3. QED
      BY <3>1, <3>2
  <2>8. QED
    BY <2>2, <2>7 DEF ids, group
<1>2. Inv /\ [Next]_vars => [\A l \in Loaders : Right(l)]_vars
  BY <1>1
<1>3. QED
  BY <1>2, Always, PTL DEF Spec, OwnersOfTheirChildren
=============================================================================
