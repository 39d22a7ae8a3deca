---------------------------- MODULE PagingProofs ----------------------------
(***************************************************************************)
(* Proofs about Paging for every table, every page size and every sequence *)
(* of writes by other sessions: the types, keyset pages hand every row out *)
(* at most once and every row that stays exactly once, and they implement  *)
(* the sweep of module Sweep; pages by offset do the same as far as they   *)
(* can, and what a page says of itself is true.                            *)
(***************************************************************************)
EXTENDS Paging, FiniteSetTheorems, TLAPS

LEMMA KeyType ==
    ASSUME NEW c, NEW r \in Ids
    PROVE  Key(c, r) \in 0 .. MaxKey
BY PagingAssumption DEF Key

LEMMA FiniteRows ==
    ASSUME NEW S, S \subseteq Ids
    PROVE  IsFiniteSet(S) /\ Cardinality(S) \in Nat
<1>1. 0 \in Int /\ MaxKey \in Int /\ Ids \subseteq 0 .. MaxKey
  BY PagingAssumption
<1>2. IsFiniteSet(0 .. MaxKey)
  BY <1>1, FS_Interval
<1>3. IsFiniteSet(S)
  BY <1>1, <1>2, FS_Subset
<1>4. QED
  BY <1>3, FS_CardinalityType

LEMMA WrapType ==
    ASSUME NEW n \in Int
    PROVE  Wrap(n) \in 0 .. MaxU32
BY PagingAssumption DEF Wrap

LEMMA SliceSubset ==
    ASSUME NEW c, NEW S, NEW m, NEW n, NEW T \in Slice(c, S, m, n)
    PROVE  T \subseteq S
BY DEF Slice, Firsts

LEMMA DeliverType ==
    ASSUME served \in [Ids -> 0 .. 2], NEW data, Deliver(data)
    PROVE  served' \in [Ids -> 0 .. 2]
BY DEF Deliver

LEMMA PageType ==
    ASSUME NEW data, data \subseteq Ids, NEW count, NEW p \in Nat, NEW size \in Nat
    PROVE  Page(data, count, size, p) \in
               [from : 0 .. MaxU32, to : Nat, size : Nat, more : BOOLEAN]
<1>1. Cardinality(data) \in Nat
  BY FiniteRows
<1>2. From(p, size) \in 0 .. MaxU32
  <2>1. Wrap(p - 1) \in 0 .. MaxU32
    BY WrapType
  <2>2. Wrap(p - 1) * size \in Int
    BY <2>1
  <2>3. Wrap(Wrap(p - 1) * size) + 1 \in Int
    BY <2>2, WrapType
  <2>4. QED
    BY <2>3, WrapType DEF From
<1>3. 0 \in 0 .. MaxU32
  BY PagingAssumption
<1>4. (p < LastPage(count, size)) \in BOOLEAN
  OBVIOUS
<1>5. QED
  BY <1>1, <1>2, <1>3, <1>4 DEF Page

-----------------------------------------------------------------------------
(* Types.                                                                  *)

LEMMA JobType ==
    ASSUME job \in Jobs
    PROVE  /\ job \in AllJobs
           /\ job.size \in Nat /\ job.page \in Nat
           /\ PerPage \in Nat /\ OneMore \in Nat
<1>1. job \in AllJobs /\ job.size \in Nat /\ job.page \in Nat
  BY PagingAssumption DEF AllJobs
<1>2. PerPage \in Nat
  BY <1>1 DEF PerPage, AtLeast1
<1>3. OneMore \in Nat
  BY <1>2, WrapType DEF OneMore
<1>4. QED
  BY <1>1, <1>2, <1>3

LEMMA PageNoType ==
    ASSUME TypeOK, pos \in Nat
    PROVE  PageNo \in Nat
BY JobType DEF TypeOK, PageNo, AtLeast1

\* only a cursor is ever negative
PosOK == job.api # "cursor" => pos \in Nat

LEMMA ChunkType ==
    ASSUME TypeOK, PosOK, Chunk
    PROVE  TypeOK' /\ PosOK'
<1>1. PICK batch \in Slice(FirstKey, rows, pos, job.size) :
         /\ Deliver(batch)
         /\ page' = PageOf(batch, ~(Cardinality(batch) < job.size))
         /\ \/ pc' = "aborted" /\ UNCHANGED pos
            \/ Cardinality(batch) < job.size /\ pc' = "done" /\ UNCHANGED pos
            \/ ~(Cardinality(batch) < job.size) /\ pc' = "ask" /\ pos' = pos + job.size
  BY DEF Chunk
<1>2. batch \subseteq Ids
  BY SliceSubset DEF TypeOK
<1>3. Cardinality(batch) \in Nat
  BY <1>2, FiniteRows
<1>4. page' \in [from : 0 .. MaxU32, to : Nat, size : Nat, more : BOOLEAN]
  <2>1. (~(Cardinality(batch) < job.size)) \in BOOLEAN
    OBVIOUS
  <2>2. QED
    BY <1>1, <1>3, <2>1, PagingAssumption DEF PageOf
<1>5. served' \in [Ids -> 0 .. 2]
  BY <1>1, DeliverType DEF TypeOK
<1>6. pos \in Nat /\ pos' \in Nat
  BY <1>1, JobType DEF PosOK, TypeOK, Chunk
<1>7. QED
  BY <1>1, <1>4, <1>5, <1>6 DEF Chunk, TypeOK, PosOK

LEMMA TurnType ==
    ASSUME TypeOK, NEW data, NEW p,
           p \in [from : 0 .. MaxU32, to : Nat, size : Nat, more : BOOLEAN],
           Turn(data, p), pos' \in Nat
    PROVE  TypeOK' /\ PosOK'
<1>1. served' \in [Ids -> 0 .. 2]
  BY DeliverType DEF TypeOK, Turn
<1>2. QED
  BY <1>1 DEF TypeOK, PosOK, Turn

LEMMA FailType ==
    ASSUME TypeOK, PosOK, NEW how \in {"failed", "panicked"}, Fail(how)
    PROVE  TypeOK' /\ PosOK'
BY DEF TypeOK, PosOK, Fail

LEMMA PageOfType ==
    ASSUME NEW data, data \subseteq Ids, NEW more \in BOOLEAN
    PROVE  PageOf(data, more) \in
               [from : 0 .. MaxU32, to : Nat, size : Nat, more : BOOLEAN]
<1>1. Cardinality(data) \in Nat
  BY FiniteRows
<1>2. QED
  BY <1>1, PagingAssumption DEF PageOf

LEMMA PaginateType ==
    ASSUME TypeOK, PosOK, Paginate, job.api = "paginate"
    PROVE  TypeOK' /\ PosOK'
<1>0. pos \in Nat /\ PageNo \in Nat /\ PerPage \in Nat
  BY PageNoType, JobType DEF PosOK, TypeOK
<1>1. CASE Fail("failed")
  BY <1>1, FailType
<1>2. ASSUME NEW data \in Slice(FirstKey, rows, Offset, PerPage), Fail("panicked")
      PROVE  TypeOK' /\ PosOK'
  BY <1>2, FailType
<1>3. ASSUME NEW data \in Slice(FirstKey, rows, Offset, PerPage),
             Turn(data, Page(data, total, PerPage, PageNo)), pos' = PageNo + 1
      PROVE  TypeOK' /\ PosOK'
  <2>1. data \subseteq Ids
    BY SliceSubset DEF TypeOK
  <2>2. Page(data, total, PerPage, PageNo) \in
            [from : 0 .. MaxU32, to : Nat, size : Nat, more : BOOLEAN]
    BY <1>0, <2>1, PageType
  <2>3. QED
    BY <1>0, <1>3, <2>2, TurnType
<1>4. QED
  BY <1>1, <1>2, <1>3 DEF Paginate, ModelPaginate, SelectPaginate, PageByNumber

LEMMA SimpleType ==
    ASSUME TypeOK, PosOK, SimplePaginate
    PROVE  TypeOK' /\ PosOK'
<1>0. pos \in Nat /\ PageNo \in Nat
  BY PageNoType DEF PosOK, SimplePaginate, ModelSimplePaginate,
       SelectSimplePaginate, Fails, OneRowMore
<1>1. CASE Fail("failed")
  BY <1>1, FailType
<1>2. CASE Fail("panicked")
  BY <1>2, FailType
<1>3. ASSUME NEW found \in Slice(FirstKey, rows, Offset, OneMore),
             NEW data \in Kept(found, PerPage),
             Turn(data, PageOf(data, Cardinality(found) > PerPage)),
             pos' = Wrap(PageNo + 1)
      PROVE  TypeOK' /\ PosOK'
  <2>1. data \subseteq Ids
    BY SliceSubset DEF TypeOK, Kept, Firsts
  <2>2. (Cardinality(found) > PerPage) \in BOOLEAN
    OBVIOUS
  <2>3. pos' \in Nat
    BY <1>0, <1>3, WrapType
  <2>4. QED
    BY <1>3, <2>1, <2>2, <2>3, PageOfType, TurnType
<1>4. QED
  BY <1>1, <1>2, <1>3 DEF SimplePaginate, ModelSimplePaginate,
       SelectSimplePaginate, Fails, OneRowMore

LEMMA CursorType ==
    ASSUME TypeOK, PosOK, CursorPaginate
    PROVE  TypeOK' /\ PosOK'
<1>1. CASE Fail("failed")
  BY <1>1, FailType
<1>2. CASE Fail("panicked")
  BY <1>2, FailType
<1>3. ASSUME NEW found, found \subseteq Ids, LastPageOfCursor(found)
      PROVE  TypeOK' /\ PosOK'
  <2>1. PageOf(found, FALSE) \in
            [from : 0 .. MaxU32, to : Nat, size : Nat, more : BOOLEAN]
    BY <1>3, PageOfType
  <2>2. served' \in [Ids -> 0 .. 2]
    BY <1>3, DeliverType DEF TypeOK, LastPageOfCursor, Turn
  <2>3. QED
    BY <1>3, <2>1, <2>2 DEF LastPageOfCursor, Turn, TypeOK, PosOK
<1>4. ASSUME NEW found, found \subseteq Ids, NextPageOfCursor(found)
      PROVE  TypeOK' /\ PosOK'
  <2>1. PICK data \in Kept(found, PerPage) :
           /\ Turn(data, PageOf(data, TRUE))
           /\ \E last \in data : pos' = last
    BY <1>4 DEF NextPageOfCursor
  <2>2. data \subseteq Ids
    BY <1>4 DEF Kept, Firsts
  <2>3. pos' \in Nat
    BY <2>1, <2>2, PagingAssumption
  <2>4. QED
    BY <2>1, <2>2, <2>3, PageOfType, TurnType
<1>5. ASSUME NEW n, NEW found \in Firsts(FirstKey, After(pos), n)
      PROVE  /\ found \subseteq Ids
             /\ \A data \in Kept(found, PerPage) : data \subseteq Ids
  BY DEF Firsts, After, TypeOK, Kept
<1>6. CASE ModelCursorPaginate
  BY <1>2, <1>3, <1>4, <1>5, <1>6 DEF ModelCursorPaginate, Keyset
<1>7. CASE SelectCursorPaginate
  BY <1>1, <1>2, <1>3, <1>5, <1>7 DEF SelectCursorPaginate, Fails
<1>8. QED
  BY <1>6, <1>7 DEF CursorPaginate

\* paginate's second statement is only ever reached from its first
CountedOK == pc = "counted" => job.api = "paginate"

LEMMA CountedStep ==
    ASSUME TypeOK, CountedOK, [Next]_vars
    PROVE  CountedOK'
BY DEF CountedOK, Next, Caller, vars, Chunk, Count, Paginate, ModelPaginate, SelectPaginate, PageByNumber, SimplePaginate, ModelSimplePaginate,
       SelectSimplePaginate, Fails, OneRowMore,
       CursorPaginate, ModelCursorPaginate, SelectCursorPaginate,
       Keyset, LastPageOfCursor, NextPageOfCursor, Turn, Fail, Insert, Delete

TInv == TypeOK /\ PosOK /\ CountedOK

LEMMA InitTypes == Init => TInv
<1> SUFFICES ASSUME Init PROVE TInv
  OBVIOUS
<1>1. job.page \in Nat
  BY JobType DEF Init
<1>2. pos \in Nat \cup {-1} /\ PosOK
  BY <1>1 DEF Init, PosOK
<1>3. NoPage \in [from : 0 .. MaxU32, to : Nat, size : Nat, more : BOOLEAN]
  BY PagingAssumption DEF NoPage
<1>4. QED
  BY <1>2, <1>3 DEF Init, TInv, TypeOK, CountedOK

LEMMA TypesKept ==
    ASSUME TInv, [Next]_vars
    PROVE  TInv'
<1>0. CountedOK'
  BY CountedStep DEF TInv
<1>1. CASE Chunk
  BY <1>0, <1>1, ChunkType DEF TInv
<1>2. CASE Count
  <2>1. total' \in Nat
    BY <1>2, FiniteRows DEF Count, TInv, TypeOK
  <2>2. QED
    BY <1>0, <1>2, <2>1 DEF Count, TInv, TypeOK, PosOK
<1>3. CASE Paginate
  BY <1>0, <1>3, PaginateType DEF TInv, Paginate, ModelPaginate, SelectPaginate, PageByNumber, CountedOK
<1>4. CASE SimplePaginate
  BY <1>0, <1>4, SimpleType DEF TInv
<1>5. CASE CursorPaginate
  BY <1>0, <1>5, CursorType DEF TInv
<1>6. ASSUME NEW r \in Ids, Insert(r) \/ Delete(r)
      PROVE  TInv'
  BY <1>0, <1>6 DEF Insert, Delete, TInv, TypeOK, PosOK
<1>7. CASE UNCHANGED vars
  BY <1>0, <1>7 DEF vars, TInv, TypeOK, PosOK
<1>8. QED
  BY <1>1, <1>2, <1>3, <1>4, <1>5, <1>6, <1>7 DEF Next, Caller

\* Every variable keeps its type, in debug and release builds: page numbers and
\* the first row of a page that are computed modulo 2^32 stay within a u32.
THEOREM TypeCorrect == Spec => []TypeOK
<1>1. Init => TInv
  BY InitTypes
<1>2. TInv /\ [Next]_vars => TInv'
  BY TypesKept
<1>3. TInv => TypeOK
  BY DEF TInv
<1>4. QED
  BY <1>1, <1>2, <1>3, PTL DEF Spec

-----------------------------------------------------------------------------
(* Keyset pages.                                                           *)

\* what is at or below the cursor has been handed over once, the rest not yet
CInv ==
    SteadyCursor =>
        /\ pc \in {"ask", "done", "panicked"}
        /\ pos <= MaxKey
        /\ \A r \in Ids : served[r] <= 1
        /\ pc = "ask" => \A r \in Ids : served[r] > 0 => r <= pos
        /\ pc = "ask" => \A r \in stayed : r <= pos => served[r] = 1
        /\ pc = "done" => \A r \in stayed : served[r] = 1

LEMMA SteadyKey ==
    ASSUME SteadyCursor, TypeOK
    PROVE  /\ FirstKey = "id"
           /\ \A r : Key("id", r) = r
           /\ \A t : After(t) = {r \in rows : r > t}
BY JobType DEF SteadyCursor, FirstKey, After, EscapesCursor, Key, TypeOK, AllJobs

LEMMA JobSteady ==
    ASSUME [Next]_vars
    PROVE  /\ job' = job
           /\ SteadyCursor' <=> SteadyCursor
<1>1. job' = job
  BY DEF Next, Caller, vars, Chunk, Count, Paginate, ModelPaginate, SelectPaginate, PageByNumber, SimplePaginate, ModelSimplePaginate,
       SelectSimplePaginate, Fails, OneRowMore, CursorPaginate, ModelCursorPaginate, SelectCursorPaginate,
       Keyset,
         LastPageOfCursor, NextPageOfCursor, Turn, Fail, Insert, Delete
<1>2. QED
  BY <1>1 DEF SteadyCursor

\* The pages of a keyset walk: the last one is everything above the cursor, any
\* other is everything above the cursor and up to the next one.
LEMMA CursorPageRows ==
    ASSUME TInv, CInv, SteadyCursor, CursorPaginate
    PROVE  \/ Fail("panicked")
           \/ /\ Turn(After(pos), PageOf(After(pos), FALSE))
              /\ pos' = pos
           \/ \E data \in SUBSET rows :
                /\ Turn(data, PageOf(data, TRUE))
                /\ \E last \in data : pos' = last
                /\ data = {r \in rows : pos < r /\ r <= pos'}
                /\ \E r \in rows : r > pos'
<1>2. /\ FirstKey = "id" /\ \A r : Key("id", r) = r
      /\ After(pos) = {r \in rows : r > pos}
  BY SteadyKey DEF TInv
<1>3. PerPage \in Nat
  BY JobType DEF TInv, TypeOK
<1>4. PICK found \in Firsts(FirstKey, After(pos), PerPage + 1) :
         Fail("panicked") \/ LastPageOfCursor(found) \/ NextPageOfCursor(found)
  BY DEF SteadyCursor, CursorPaginate, ModelCursorPaginate, SelectCursorPaginate,
       Keyset
<1>5. found \subseteq After(pos) /\ After(pos) \subseteq Ids
  BY <1>4, <1>2 DEF Firsts, TInv, TypeOK
<1>6. CASE LastPageOfCursor(found)
  <2>1. Cardinality(found) \in Nat /\ ~(Cardinality(found) > PerPage)
    BY <1>5, <1>6, FiniteRows DEF LastPageOfCursor
  <2>2. found = After(pos)
    BY <1>3, <1>4, <2>1 DEF Firsts
  <2>3. QED
    BY <1>6, <2>2 DEF LastPageOfCursor
<1>7. CASE NextPageOfCursor(found)
  <2>1. PICK data \in Kept(found, PerPage) :
           /\ Turn(data, PageOf(data, TRUE))
           /\ \E last \in data :
                 /\ \A r \in data : Key(FirstKey, r) <= Key(FirstKey, last)
                 /\ pos' = last
    BY <1>7 DEF NextPageOfCursor
  <2>2. PICK last \in data : (\A r \in data : r <= last) /\ pos' = last
    BY <1>2, <2>1
  <2>3. data \subseteq found
    BY <2>1 DEF Kept, Firsts
  <2>4. ASSUME NEW r \in data
        PROVE  r \in rows /\ pos < r /\ r <= pos'
    <3>1. r \in rows /\ r > pos
      BY <1>2, <1>5, <2>3
    <3>2. r \in Ids
      BY <1>5, <2>3
    <3>3. r \in Int /\ pos \in Int
      BY <3>2, PagingAssumption DEF TInv, TypeOK
    <3>4. QED
      BY <3>1, <3>3, <2>2
  <2>5. ASSUME NEW r \in rows, pos < r, r <= pos'
        PROVE  r \in data
    <3>1. r \in Ids /\ last \in Ids
      BY <1>5, <2>3 DEF TInv, TypeOK
    <3>2. r \in Int /\ last \in Int /\ pos \in Int
      BY <3>1, PagingAssumption DEF TInv, TypeOK
    <3>3. r \in After(pos)
      BY <1>2, <2>5, <3>2
    <3>4. ~(last < r)
      BY <2>2, <2>5, <3>2
    <3>5. r \in found
      BY <1>2, <1>3, <1>4, <2>2, <2>3, <3>3, <3>4 DEF Firsts
    <3>6. QED
      BY <1>2, <1>3, <2>1, <2>2, <3>4, <3>5 DEF Kept, Firsts
  <2>6. data = {r \in rows : pos < r /\ r <= pos'}
    BY <2>4, <2>5
  <2>7. \E r \in rows : r > pos'
    <3>1. Cardinality(found) > PerPage /\ Cardinality(data) <= PerPage
      BY <1>7, <2>1 DEF NextPageOfCursor, Kept, Firsts
    <3>2. Cardinality(found) \in Nat /\ Cardinality(data) \in Nat
      BY <1>5, <2>3, FiniteRows
    <3>3. PICK r \in found : r \notin data
      BY <1>3, <2>3, <3>1, <3>2
    <3>4. last < r
      BY <1>2, <1>3, <2>1, <3>3 DEF Kept, Firsts
    <3>5. r \in Ids /\ last \in Ids /\ r \in rows
      BY <1>2, <1>5, <2>3, <3>3
    <3>6. r \in Int /\ last \in Int
      BY <3>5, PagingAssumption
    <3>7. QED
      BY <2>2, <3>4, <3>5, <3>6
  <2>8. QED
    BY <2>1, <2>2, <2>6, <2>7
<1>8. QED
  BY <1>4, <1>6, <1>7

LEMMA CInvKept ==
    ASSUME TInv, CInv, [Next]_vars
    PROVE  CInv'
<1> SUFFICES ASSUME SteadyCursor' PROVE CInv'
  BY DEF CInv
<1>0. SteadyCursor /\ job' = job
  BY JobSteady
<1>1. \A r \in Ids : r \in 0 .. MaxKey
  BY PagingAssumption
<1>2. /\ pos \in Int /\ MaxKey \in Nat
      /\ rows \subseteq Ids /\ stayed \subseteq rows
      /\ served \in [Ids -> 0 .. 2]
  BY PagingAssumption DEF TInv, TypeOK
<1>3. job.api = "cursor"
  BY <1>0 DEF SteadyCursor
<1>4. CASE CursorPaginate
  <2>0. pc = "ask"
    BY <1>4 DEF CursorPaginate, ModelCursorPaginate, SelectCursorPaginate,
       Keyset
  <2>1. CASE Fail("panicked")
    BY <1>0, <2>1 DEF CInv, Fail
  <2>2. CASE Turn(After(pos), PageOf(After(pos), FALSE)) /\ pos' = pos
    <3>1. After(pos) = {r \in rows : r > pos}
      BY <1>0, SteadyKey DEF TInv
    <3>2. pc' = "done" /\ stayed' = stayed
      BY <2>2 DEF Turn, PageOf
    <3>3. \A r \in Ids : served'[r] = IF r \in rows /\ r > pos /\ served[r] < 2
                                      THEN served[r] + 1 ELSE served[r]
      BY <2>2, <3>1 DEF Turn, Deliver
    <3>4. \A r \in Ids : served'[r] <= 1
      BY <1>0, <1>1, <1>2, <2>0, <3>3 DEF CInv
    <3>5. \A r \in stayed : served'[r] = 1
      BY <1>0, <1>1, <1>2, <2>0, <3>3 DEF CInv
    <3>6. QED
      BY <1>0, <2>2, <3>2, <3>4, <3>5 DEF CInv
  <2>3. ASSUME NEW data \in SUBSET rows, Turn(data, PageOf(data, TRUE)),
               NEW last \in data, pos' = last,
               data = {r \in rows : pos < r /\ r <= pos'}
        PROVE  CInv'
    <3>1. pos < pos' /\ pos' \in 0 .. MaxKey
      BY <1>1, <1>2, <2>3
    <3>2. stayed' = stayed /\ pc' = "ask"
      BY <2>3 DEF Turn, PageOf
    <3>3. \A r \in Ids : served'[r] = IF r \in rows /\ pos < r /\ r <= pos' /\ served[r] < 2
                                      THEN served[r] + 1 ELSE served[r]
      BY <2>3 DEF Turn, Deliver
    <3>4. \A r \in Ids : served'[r] <= 1
      BY <1>0, <1>1, <1>2, <2>0, <3>3 DEF CInv
    <3>5. \A r \in Ids : served'[r] > 0 => r <= pos'
      BY <1>0, <1>1, <1>2, <2>0, <3>1, <3>3 DEF CInv
    <3>6. \A r \in stayed : r <= pos' => served'[r] = 1
      BY <1>0, <1>1, <1>2, <2>0, <3>1, <3>3 DEF CInv
    <3>7. pos' <= MaxKey
      BY <1>2, <3>1
    <3>8. QED
      BY <1>0, <3>2, <3>4, <3>5, <3>6, <3>7 DEF CInv
  <2>4. QED
    BY <1>0, <1>4, <2>1, <2>2, <2>3, CursorPageRows
<1>5. ASSUME NEW r \in Ids, Insert(r)
      PROVE  CInv'
  BY <1>0, <1>5 DEF CInv, Insert
<1>6. ASSUME NEW r \in Ids, Delete(r)
      PROVE  CInv'
  BY <1>0, <1>6 DEF CInv, Delete
<1>7. CASE UNCHANGED vars
  BY <1>0, <1>7 DEF CInv, vars
<1>8. ~Chunk /\ ~Count /\ ~Paginate /\ ~SimplePaginate
  BY <1>3 DEF Chunk, Count, Paginate, ModelPaginate, SelectPaginate, PageByNumber, SimplePaginate, ModelSimplePaginate,
       SelectSimplePaginate, Fails, OneRowMore, TInv, CountedOK
<1>9. QED
  BY <1>4, <1>5, <1>6, <1>7, <1>8 DEF Next, Caller

LEMMA CInvInit == Init => CInv
<1> SUFFICES ASSUME Init, SteadyCursor PROVE CInv
  BY DEF CInv
<1>1. \A r \in Ids : r \in 0 .. MaxKey
  BY PagingAssumption
<1>2. pos = -1
  BY DEF Init, SteadyCursor
<1>3. stayed \subseteq Ids
  BY DEF Init
<1>4. \A r \in Ids : ~(r <= pos)
  BY <1>1, <1>2, PagingAssumption
<1>5. QED
  BY <1>2, <1>3, <1>4, PagingAssumption DEF Init, CInv

LEMMA CursorInvariant == Spec => [](TInv /\ CInv)
<1>1. Init => TInv /\ CInv
  BY InitTypes, CInvInit
<1>2. TInv /\ CInv /\ [Next]_vars => (TInv /\ CInv)'
  BY TypesKept, CInvKept
<1>3. QED
  BY <1>1, <1>2, PTL DEF Spec

\* A walk of ModelQuery::cursor_paginate by primary key hands no row over twice,
\* whatever other sessions insert or delete between its pages and whatever the
\* page size, which is counted in usize.
THEOREM NoRowTwice == Spec => []CursorOnce
<1>1. CInv => CursorOnce
  BY DEF CInv, CursorOnce
<1>2. QED
  BY <1>1, CursorInvariant, PTL

\* ... and by the time there is no next cursor it has handed over every row that
\* was in the table from the first page to the last.  SelectBuilder's walks are
\* not among them: they get no next cursor, see SelectCursorPaginate.
THEOREM NoRowMissed == Spec => []CursorComplete
<1>1. TInv /\ CInv => CursorComplete
  BY DEF CInv, CursorComplete
<1>2. QED
  BY <1>1, CursorInvariant, PTL

-----------------------------------------------------------------------------
(* The refinement.                                                         *)

SweptPresent == IF SteadyCursor THEN rows ELSE {}
SweptMark == IF ~SteadyCursor THEN -1 ELSE IF pc = "done" THEN MaxKey + 1 ELSE pos
SweptRows == IF SteadyCursor THEN {r \in Ids : served[r] > 0} ELSE {}

LEMMA SweepInit ==
    ASSUME Init
    PROVE  Swept!Init
<1>2. SweptPresent \in SUBSET Ids
  BY DEF Init, SweptPresent
<1>3. SweptMark = -1
  BY DEF Init, SweptMark, SteadyCursor
<1>4. SweptRows = {}
  BY DEF Init, SweptRows
<1>5. QED
  BY <1>2, <1>3, <1>4 DEF Swept!Init, SweptPresent, SweptMark, SweptRows

\* A page whose rows are those between the cursor and some higher mark is one
\* advance of the sweep.
LEMMA PageAdvances ==
    ASSUME TInv, CInv, SteadyCursor, pc = "ask",
           NEW data, Deliver(data),
           NEW to \in Ids \cup {MaxKey + 1}, pos < to,
           data = {r \in rows : pos < r /\ r <= to},
           job' = job, rows' = rows, SweptMark' = to
    PROVE  Swept!Advance
<1>1. SteadyCursor'
  BY DEF SteadyCursor
<1>2. rows \subseteq Ids /\ served \in [Ids -> 0 .. 2]
  BY DEF TInv, TypeOK
<1>3. SweptPresent' = SweptPresent
  BY <1>1 DEF SweptPresent
<1>4. SweptMark = pos
  BY DEF SweptMark
<1>5. {s \in Ids : served'[s] > 0} = {s \in Ids : served[s] > 0} \cup data
  BY <1>2 DEF Deliver
<1>6. SweptRows' = SweptRows \cup data
  BY <1>1, <1>5 DEF SweptRows
<1>7. data = {k \in SweptPresent : SweptMark < k /\ k <= to}
  BY <1>1, <1>4 DEF SweptPresent
<1>8. QED
  BY <1>3, <1>4, <1>6, <1>7
  DEF Swept!Advance, Swept!Passed, SweptPresent, SweptMark, SweptRows

LEMMA SweepStep ==
    ASSUME TInv, CInv, TInv', [Next]_vars
    PROVE  [Swept!Next]_(Swept!svars)
<1>0. job' = job /\ (SteadyCursor' <=> SteadyCursor)
  BY JobSteady
<1>1. \A r \in Ids : r \in 0 .. MaxKey
  BY PagingAssumption
<1>2. /\ pos \in Int /\ MaxKey \in Nat
      /\ rows \subseteq Ids /\ rows' \subseteq Ids
  BY PagingAssumption DEF TInv, TypeOK
<1>3. CASE ~SteadyCursor
  BY <1>0, <1>3 DEF Swept!svars
<1>4. CASE SteadyCursor /\ CursorPaginate
  <2>0. pc = "ask" /\ pos <= MaxKey
    BY <1>4 DEF CursorPaginate, ModelCursorPaginate, SelectCursorPaginate,
       Keyset, CInv
  <2>1. CASE Fail("panicked")
    BY <1>0, <2>0, <2>1 DEF Fail, Swept!svars
  <2>2. CASE Turn(After(pos), PageOf(After(pos), FALSE)) /\ pos' = pos
    <3>1. After(pos) = {r \in rows : pos < r /\ r <= MaxKey + 1}
      <4>1. After(pos) = {r \in rows : r > pos}
        BY <1>4, SteadyKey DEF TInv
      <4>2. QED
        BY <1>1, <1>2, <4>1
    <3>2. SweptMark' = MaxKey + 1
      BY <1>0, <1>4, <2>2 DEF SweptMark, Turn, PageOf
    <3>3. pos < MaxKey + 1
      BY <1>2, <2>0
    <3>4. Deliver(After(pos)) /\ rows' = rows
      BY <2>2 DEF Turn
    <3>5. Swept!Advance
      BY <1>0, <1>4, <2>0, <3>1, <3>2, <3>3, <3>4, PageAdvances
    <3>6. QED
      BY <3>5 DEF Swept!Next
  <2>3. ASSUME NEW data \in SUBSET rows, Turn(data, PageOf(data, TRUE)),
               NEW last \in data, pos' = last,
               data = {r \in rows : pos < r /\ r <= pos'}
        PROVE  Swept!Advance
    <3>1. pos' \in Ids /\ pos < pos'
      BY <1>1, <1>2, <2>3
    <3>2. SweptMark' = pos'
      BY <1>0, <1>4, <2>0, <2>3 DEF SweptMark, Turn, PageOf
    <3>3. Deliver(data) /\ rows' = rows
      BY <2>3 DEF Turn
    <3>4. QED
      BY <1>0, <1>4, <2>0, <2>3, <3>1, <3>2, <3>3, PageAdvances
  <2>4. QED
    BY <1>4, <2>0, <2>1, <2>2, <2>3, CursorPageRows DEF Swept!Next
<1>5. ASSUME NEW r \in Ids, Insert(r) \/ Delete(r), SteadyCursor
      PROVE  Swept!Change
  <2>1. SweptPresent' \in SUBSET Ids
    BY <1>0, <1>1, <1>2, <1>5 DEF SweptPresent
  <2>2. pc' = pc /\ pos' = pos /\ served' = served
    BY <1>5 DEF Insert, Delete
  <2>3. SweptMark' = SweptMark /\ SweptRows' = SweptRows
    BY <1>0, <2>2 DEF SweptMark, SweptRows
  <2>4. QED
    BY <2>1, <2>3 DEF Swept!Change, SweptPresent, SweptMark, SweptRows
<1>6. CASE UNCHANGED vars
  BY <1>0, <1>6 DEF vars, Swept!svars
<1>7. SteadyCursor => ~Chunk /\ ~Count /\ ~Paginate /\ ~SimplePaginate
  BY DEF SteadyCursor, Chunk, Count, Paginate, ModelPaginate, SelectPaginate, PageByNumber, SimplePaginate, ModelSimplePaginate,
       SelectSimplePaginate, Fails, OneRowMore, TInv, CountedOK
<1>8. QED
  BY <1>3, <1>4, <1>5, <1>6, <1>7 DEF Next, Caller, Swept!Next

\* A walk of ModelQuery::cursor_paginate by primary key implements the sweep, for
\* every page size: each page takes the mark to its last key
\* and hands over exactly the rows the mark passed; the last page takes it past
\* every key; what other sessions write never moves the mark.
THEOREM CursorsSweep == Spec => CursorIsASweep
<1>1. Init => Swept!Init
  BY SweepInit
<1>2. TInv /\ CInv /\ TInv' /\ [Next]_vars => [Swept!Next]_(Swept!svars)
  BY SweepStep
<1>3. QED
  BY <1>1, <1>2, CursorInvariant, PTL DEF Spec, CursorIsASweep, Swept!Spec

-----------------------------------------------------------------------------
(* Rows by their place.  LIMIT and OFFSET speak of a row's place in the sorted *)
(* table; these lemmas turn Firsts and Slice into statements about it.         *)

\* the place of a row among the rows of S that are sorted by a unique column
Place(c, S, r) == Cardinality({s \in S : Key(c, s) <= Key(c, r)})
Leading(c, S, n) == {r \in S : Place(c, S, r) <= n}

LEMMA KeyInjective ==
    ASSUME NEW c \in Columns, NEW r \in Ids, NEW s \in Ids
    PROVE  /\ Key(c, r) \in Int /\ Key(c, s) \in Int
           /\ Key(c, r) = Key(c, s) => r = s
<1>1. Key(c, r) \in Int /\ Key(c, s) \in Int
  BY KeyType, PagingAssumption
<1>2. Key(c, r) = Key(c, s) => r = s
  BY PagingAssumption DEF Columns, Key
<1>3. QED
  BY <1>1, <1>2

LEMMA PlaceType ==
    ASSUME NEW c \in Columns, NEW S \in SUBSET Ids, NEW r
    PROVE  Place(c, S, r) \in Nat /\ Place(c, S, r) <= Cardinality(S)
<1>1. IsFiniteSet(S)
  BY FiniteRows
<1>2. {s \in S : Key(c, s) <= Key(c, r)} \subseteq S
  OBVIOUS
<1>3. QED
  BY <1>1, <1>2, FS_Subset, FS_CardinalityType DEF Place

\* the first m rows are those placed up to m
LEMMA FirstsByPlace ==
    ASSUME NEW c \in Columns, NEW S \in SUBSET Ids, NEW m \in Nat,
           NEW T \in Firsts(c, S, m)
    PROVE  T = {r \in S : Place(c, S, r) <= m}
<1>1. /\ T \subseteq S
      /\ T = S \/ Cardinality(T) = m
      /\ Cardinality(T) <= m
      /\ \A t \in T, s \in S \ T : Key(c, t) < Key(c, s)
  BY DEF Firsts, Columns
<1>2. IsFiniteSet(T) /\ IsFiniteSet(S) /\ Cardinality(T) \in Nat
  BY <1>1, FiniteRows
<1>3. ASSUME NEW r \in T
      PROVE  Place(c, S, r) <= m
  <2> DEFINE Low == {s \in S : Key(c, s) <= Key(c, r)}
  <2>1. Low \subseteq T
    <3>1. ASSUME NEW s \in S \ T PROVE ~(Key(c, s) <= Key(c, r))
      <4>1. Key(c, r) < Key(c, s)
        BY <1>1, <1>3
      <4>2. r \in Ids /\ s \in Ids
        BY <1>1, <1>3
      <4>3. QED
        BY <4>1, <4>2, KeyInjective
    <3>2. QED
      BY <3>1
  <2>2. Cardinality(Low) \in Nat /\ Cardinality(Low) <= Cardinality(T)
    BY <1>2, <2>1, FS_Subset, FS_CardinalityType
  <2>3. QED
    BY <1>1, <1>2, <2>2 DEF Place
<1>4. ASSUME NEW r \in S, r \notin T
      PROVE  ~(Place(c, S, r) <= m)
  <2> DEFINE Low == {s \in S : Key(c, s) <= Key(c, r)}
  <2>1. Cardinality(T) = m
    BY <1>1, <1>4
  <2>2. T \cup {r} \subseteq Low
    <3>1. ASSUME NEW t \in T PROVE Key(c, t) <= Key(c, r)
      BY <1>1, <1>4, KeyInjective
    <3>2. Key(c, r) <= Key(c, r)
      BY KeyInjective
    <3>3. QED
      BY <1>1, <3>1, <3>2
  <2>3. IsFiniteSet(Low)
    BY <1>2, FS_Subset
  <2>4. Cardinality(T \cup {r}) = m + 1
    BY <1>2, <1>4, <2>1, FS_AddElement
  <2>5. Cardinality(Low) \in Nat /\ m + 1 <= Cardinality(Low)
    BY <2>2, <2>3, <2>4, FS_Subset, FS_CardinalityType
  <2>6. QED
    BY <2>5 DEF Place
<1>5. QED
  BY <1>1, <1>3, <1>4

LEMMA PlaceAbove ==
    ASSUME NEW c \in Columns, NEW S \in SUBSET Ids, NEW m \in Nat,
           NEW T \in Firsts(c, S, m), NEW r \in S \ T
    PROVE  Cardinality(T) = m /\ Place(c, S, r) = m + Place(c, S \ T, r)
<1>1. /\ T \subseteq S
      /\ Cardinality(T) = m
      /\ \A t \in T, s \in S \ T : Key(c, t) < Key(c, s)
  BY DEF Firsts, Columns
<1> DEFINE Low == {s \in S \ T : Key(c, s) <= Key(c, r)}
<1>2. {s \in S : Key(c, s) <= Key(c, r)} = T \cup Low
  <2>1. ASSUME NEW t \in T PROVE Key(c, t) <= Key(c, r)
    BY <1>1, KeyInjective
  <2>2. QED
    BY <1>1, <2>1
<1>3. IsFiniteSet(T) /\ IsFiniteSet(Low)
  BY <1>1, FiniteRows
<1>4. T \cap Low = {}
  OBVIOUS
<1>5. Cardinality(T \cup Low) = Cardinality(T) + Cardinality(Low)
  <2>1. Cardinality(T \cup Low)
            = Cardinality(T) + Cardinality(Low) - Cardinality(T \cap Low)
    BY <1>3, FS_Union
  <2>2. Cardinality(T \cap Low) = 0
    BY <1>4, FS_EmptySet
  <2>3. Cardinality(T) \in Nat /\ Cardinality(Low) \in Nat
    BY <1>3, FS_CardinalityType
  <2>4. QED
    BY <2>1, <2>2, <2>3
<1>6. QED
  BY <1>1, <1>2, <1>5 DEF Place

\* LIMIT n OFFSET m: the rows placed after m and up to m + n
LEMMA SliceByPlace ==
    ASSUME NEW c \in Columns, NEW S \in SUBSET Ids, NEW m \in Nat, NEW n \in Nat,
           NEW T \in Slice(c, S, m, n)
    PROVE  /\ T = {r \in S : m < Place(c, S, r) /\ Place(c, S, r) <= m + n}
           /\ Cardinality(T) \in Nat /\ Cardinality(T) <= n
           /\ Cardinality(T) < n => \A r \in S : Place(c, S, r) <= m + n
<1>1. PICK A \in Firsts(c, S, m) : T \in Firsts(c, S \ A, n)
  BY DEF Slice
<1>2. A = {r \in S : Place(c, S, r) <= m}
  BY FirstsByPlace
<1>3. S \ A \in SUBSET Ids
  OBVIOUS
<1>4. T = {r \in S \ A : Place(c, S \ A, r) <= n}
  BY <1>1, <1>3, FirstsByPlace
<1>5. ASSUME NEW r \in S \ A
      PROVE  /\ Place(c, S, r) = m + Place(c, S \ A, r)
             /\ Place(c, S, r) \in Nat /\ Place(c, S \ A, r) \in Nat
  <2>1. Place(c, S, r) \in Nat
    BY PlaceType
  <2>2. Place(c, S \ A, r) \in Nat
    BY <1>3, PlaceType
  <2>3. QED
    BY <2>1, <2>2, PlaceAbove
<1>6. \A r \in S : Place(c, S, r) \in Nat
  BY PlaceType
<1>7. T = {r \in S : m < Place(c, S, r) /\ Place(c, S, r) <= m + n}
  BY <1>2, <1>4, <1>5, <1>6
<1>8. Cardinality(T) \in Nat /\ Cardinality(T) <= n
  BY <1>1, <1>3, FiniteRows DEF Firsts
<1>9. ASSUME Cardinality(T) < n, NEW r \in S PROVE Place(c, S, r) <= m + n
  <2>1. T = S \ A
    BY <1>1, <1>8, <1>9 DEF Firsts
  <2>2. QED
    BY <1>2, <1>6, <1>7, <2>1
<1>10. QED
  BY <1>7, <1>8, <1>9

\* the first n2 of the first n1 rows are the first n2 rows
LEMMA FirstsOfFirsts ==
    ASSUME NEW c, NEW S \in SUBSET Ids, NEW n1 \in Nat, NEW n2 \in Nat, n2 <= n1,
           NEW T \in Firsts(c, S, n1), NEW D \in Firsts(c, T, n2)
    PROVE  D \in Firsts(c, S, n2)
<1>1. D \subseteq T /\ T \subseteq S
  BY DEF Firsts
<1>2. Cardinality(D) \in Nat /\ Cardinality(T) \in Nat
  BY <1>1, FiniteRows
<1>3. D = S \/ Cardinality(D) = n2
  BY <1>2 DEF Firsts
<1>4. QED
  BY <1>1, <1>3 DEF Firsts

LEMMA SliceCut ==
    ASSUME NEW c, NEW S \in SUBSET Ids, NEW m \in Nat, NEW n1 \in Nat, NEW n2 \in Nat,
           n2 <= n1, NEW T \in Slice(c, S, m, n1), NEW D \in Firsts(c, T, n2)
    PROVE  D \in Slice(c, S, m, n2)
<1>1. PICK A \in Firsts(c, S, m) : T \in Firsts(c, S \ A, n1)
  BY DEF Slice
<1>2. D \in Firsts(c, S \ A, n2)
  BY <1>1, FirstsOfFirsts
<1>3. QED
  BY <1>2 DEF Slice


LEMMA PlaceMonotone ==
    ASSUME NEW c \in Columns, NEW S \in SUBSET Ids, NEW R \in SUBSET S, NEW r
    PROVE  Place(c, R, r) <= Place(c, S, r)
<1>1. IsFiniteSet({s \in S : Key(c, s) <= Key(c, r)})
  <2>1. {s \in S : Key(c, s) <= Key(c, r)} \subseteq Ids
    OBVIOUS
  <2>2. QED
    BY <2>1, FiniteRows
<1>2. {s \in R : Key(c, s) <= Key(c, r)} \subseteq {s \in S : Key(c, s) <= Key(c, r)}
  OBVIOUS
<1>3. QED
  BY <1>1, <1>2, FS_Subset DEF Place

LEMMA PlacePositive ==
    ASSUME NEW c \in Columns, NEW S \in SUBSET Ids, NEW r \in S
    PROVE  Place(c, S, r) > 0
<1> DEFINE Low == {s \in S : Key(c, s) <= Key(c, r)}
<1>1. IsFiniteSet(Low) /\ Cardinality(Low) \in Nat
  <2>1. Low \subseteq Ids
    OBVIOUS
  <2>2. QED
    BY <2>1, FiniteRows
<1>2. r \in Low
  BY KeyInjective
<1>3. Cardinality(Low) # 0
  BY <1>1, <1>2, FS_EmptySet
<1>4. QED
  BY <1>1, <1>3 DEF Place

\* how many rows the pages up to a slice hold, and whether it is the last one
LEMMA SliceCount ==
    ASSUME NEW c \in Columns, NEW S \in SUBSET Ids, NEW m \in Nat, NEW n \in Nat,
           NEW T \in Slice(c, S, m, n)
    PROVE  /\ (\E r \in S : Place(c, S, r) > m + n) <=> Cardinality(S) > m + n
           /\ T # {} => /\ Cardinality(S) > m
                        /\ Cardinality(Leading(c, S, m + n)) = m + Cardinality(T)
<1>1. PICK A \in Firsts(c, S, m) : T \in Firsts(c, S \ A, n)
  BY DEF Slice
<1>2. A = {r \in S : Place(c, S, r) <= m}
  BY FirstsByPlace
<1>3. T = {r \in S : m < Place(c, S, r) /\ Place(c, S, r) <= m + n}
  BY SliceByPlace
<1>4. \A r \in S : Place(c, S, r) \in Nat /\ Place(c, S, r) <= Cardinality(S)
  BY PlaceType
<1>5. Leading(c, S, m + n) = A \cup T /\ A \cap T = {}
  BY <1>2, <1>3, <1>4 DEF Leading
<1>6. /\ A \subseteq S /\ T \subseteq S \ A
      /\ Cardinality(A) <= m /\ Cardinality(T) <= n
      /\ A # S => Cardinality(A) = m
      /\ T # S \ A => Cardinality(T) = n
  BY <1>1 DEF Firsts
<1>7. /\ IsFiniteSet(S) /\ IsFiniteSet(A) /\ IsFiniteSet(T) /\ IsFiniteSet(A \cup T)
      /\ Cardinality(S) \in Nat /\ Cardinality(A) \in Nat /\ Cardinality(T) \in Nat
  BY <1>6, FiniteRows
<1>8. Cardinality(A \cup T) = Cardinality(A) + Cardinality(T)
  <2>1. Cardinality(A \cup T) = Cardinality(A) + Cardinality(T) - Cardinality(A \cap T)
    BY <1>7, FS_Union
  <2>2. Cardinality(A \cap T) = 0
    BY <1>5, FS_EmptySet
  <2>3. QED
    BY <1>7, <2>1, <2>2
<1>9. ASSUME Cardinality(S) > m + n
      PROVE  \E r \in S : Place(c, S, r) > m + n
  <2>1. A \cup T # S
    <3>1. Cardinality(A \cup T) <= m + n
      BY <1>6, <1>7, <1>8
    <3>2. Cardinality(A \cup T) # Cardinality(S)
      BY <1>7, <1>8, <1>9, <3>1
    <3>3. QED
      BY <3>2
  <2>2. PICK r \in S : r \notin A \cup T
    BY <1>6, <2>1
  <2>3. QED
    BY <1>2, <1>3, <1>4, <2>2
<1>10. ASSUME NEW r \in S, Place(c, S, r) > m + n
       PROVE  Cardinality(S) > m + n
  BY <1>4, <1>7, <1>10
<1>11. ASSUME T # {}
       PROVE  /\ Cardinality(S) > m
              /\ Cardinality(Leading(c, S, m + n)) = m + Cardinality(T)
  <2>1. Cardinality(A) = m
    BY <1>6, <1>11
  <2>2. Cardinality(T) # 0
    BY <1>7, <1>11, FS_EmptySet
  <2>3. Cardinality(A \cup T) <= Cardinality(S)
    BY <1>6, <1>7, FS_Subset
  <2>4. Cardinality(S) > m
    BY <1>7, <1>8, <2>1, <2>2, <2>3
  <2>5. QED
    BY <1>5, <1>8, <2>1, <2>4
<1>12. QED
  BY <1>9, <1>10, <1>11

\* asking for one row more than a page tells whether there is another page
LEMMA SliceAndOneMore ==
    ASSUME NEW c \in Columns, NEW S \in SUBSET Ids, NEW m \in Nat, NEW n \in Nat,
           NEW F \in Slice(c, S, m, n + 1), NEW T \in Firsts(c, F, n)
    PROVE  /\ T \in Slice(c, S, m, n)
           /\ Cardinality(F) > n <=> \E r \in S : Place(c, S, r) > m + n
<1>1. T \in Slice(c, S, m, n)
  BY SliceCut
<1>2. T = {r \in S : m < Place(c, S, r) /\ Place(c, S, r) <= m + n}
  BY <1>1, SliceByPlace
<1>3. /\ F = {r \in S : m < Place(c, S, r) /\ Place(c, S, r) <= m + (n + 1)}
      /\ Cardinality(F) \in Nat /\ Cardinality(F) <= n + 1
      /\ Cardinality(F) < n + 1 => \A r \in S : Place(c, S, r) <= m + (n + 1)
  <2>1. n + 1 \in Nat
    OBVIOUS
  <2>2. QED
    BY <2>1, SliceByPlace
<1>4. T \subseteq F /\ Cardinality(T) <= n /\ (T = F \/ Cardinality(T) = n)
  BY DEF Firsts
<1>5. IsFiniteSet(F) /\ IsFiniteSet(T) /\ Cardinality(T) \in Nat
  BY <1>3, <1>4, FiniteRows
<1>6. \A r \in S : Place(c, S, r) \in Nat
  BY PlaceType
<1>7. ASSUME Cardinality(F) > n
      PROVE  \E r \in S : Place(c, S, r) > m + n
  <2>1. PICK r \in F : r \notin T
    BY <1>3, <1>4, <1>5, <1>7
  <2>2. QED
    BY <1>2, <1>3, <1>6, <2>1
<1>8. ASSUME ~(Cardinality(F) > n), NEW r \in S
      PROVE  ~(Place(c, S, r) > m + n)
  <2>1. F = T
    <3>1. Cardinality(T) = n => Cardinality(F) <= Cardinality(T)
      BY <1>3, <1>5, <1>8
    <3>2. Cardinality(T) <= Cardinality(F)
      BY <1>4, <1>5, FS_Subset
    <3>3. CASE Cardinality(T) = n
      <4>1. Cardinality(T) = Cardinality(F)
        BY <1>3, <1>5, <3>1, <3>2, <3>3
      <4>2. QED
        BY <1>4, <1>5, <4>1, FS_Subset
    <3>4. QED
      BY <1>4, <3>3
  <2>2. Place(c, S, r) <= m + (n + 1)
    BY <1>3, <1>8
  <2>3. QED
    BY <1>2, <1>3, <1>6, <2>1, <2>2
<1>9. QED
  BY <1>1, <1>7, <1>8

-----------------------------------------------------------------------------
(* Pages by offset.                                                        *)

Put(r) == Place(FirstKey, rows, r)

\* the rows the pages so far were to hold
Upto == IF job.api = "chunk" THEN pos ELSE Offset

\* What is at or below the offset of the next page has been handed over, unless
\* a delete moved it there; what is above has not, unless an insert did.
OInv ==
    SteadyOffset =>
        /\ job.api # "chunk" /\ Running => PageNo > 0 \/ PerPage = 0
        /\ ~Inserted => \A r \in Ids : served[r] <= 1
        /\ ~Inserted /\ Running =>
              \A r \in rows : served[r] > 0 => Put(r) <= Upto
        /\ FromFirst /\ ~Deleted /\ Running =>
              \A r \in stayed : Put(r) <= Upto => served[r] > 0
        /\ pc = "counted" /\ wrote = {} => total = Cardinality(rows)
        /\ OffsetComplete

\* every offset and page number fits a u32 as long as the table is smaller
SmallTable == Cardinality(rows) <= MaxU32

LEMMA SteadyColumn ==
    ASSUME TInv, SteadyOffset
    PROVE  /\ FirstKey \in Columns
           /\ job.api # "cursor"
           /\ pos \in Nat /\ PageNo \in Nat /\ PerPage \in Nat
           /\ Offset \in Nat /\ Upto \in Nat /\ job.size \in Nat
           /\ job.api = "simple" => OneMore = PerPage + 1
           /\ rows \in SUBSET Ids /\ stayed \subseteq rows
           /\ served \in [Ids -> 0 .. 2]
<1>1. job \in AllJobs /\ job.size \in Nat /\ PerPage \in Nat
  BY JobType DEF TInv, TypeOK
<1>2. job.api # "cursor" /\ FirstKey \in Columns
  BY <1>1 DEF SteadyOffset, FirstKey, Columns, AllJobs
<1>3. pos \in Nat /\ PageNo \in Nat
  BY <1>2, PageNoType DEF TInv, PosOK
<1>4. Offset \in Nat
  BY <1>1, <1>3 DEF Offset
<1>5. job.api = "simple" => OneMore = PerPage + 1
  BY <1>1, PagingAssumption DEF SteadyOffset, OneMore, Wrap
<1>6. QED
  BY <1>1, <1>2, <1>3, <1>4, <1>5 DEF Upto, TInv, TypeOK

LEMMA SteadyJob ==
    ASSUME job' = job
    PROVE  /\ SteadyOffset' <=> SteadyOffset
           /\ FromFirst' <=> FromFirst
           /\ FirstKey' = FirstKey /\ PerPage' = PerPage
BY DEF SteadyOffset, FromFirst, FirstKey, PerPage, AtLeast1

\* one page: its rows are those placed after the pages before it
LEMMA PageHandsOver ==
    ASSUME TInv, OInv, SteadyOffset, Running, NEW size \in Nat,
           NEW data \in Slice(FirstKey, rows, Upto, size), Deliver(data)
    PROVE  /\ ~Inserted => \A r \in Ids : served'[r] <= 1
           /\ ~Inserted => \A r \in rows : served'[r] > 0 => Put(r) <= Upto + size
           /\ FromFirst /\ ~Deleted =>
                 \A r \in stayed : Put(r) <= Upto + size => served'[r] > 0
<1>1. /\ FirstKey \in Columns /\ Upto \in Nat /\ rows \in SUBSET Ids
      /\ stayed \subseteq rows /\ served \in [Ids -> 0 .. 2]
  BY SteadyColumn
<1>2. data = {r \in rows : Upto < Put(r) /\ Put(r) <= Upto + size}
  BY <1>1, SliceByPlace DEF Put
<1>3. \A r \in Ids : Put(r) \in Nat
  BY <1>1, PlaceType DEF Put
<1>4. \A r \in Ids : served'[r] = IF r \in data /\ served[r] < 2
                                  THEN served[r] + 1 ELSE served[r]
  BY DEF Deliver
<1>5. \A r \in Ids : served[r] \in 0 .. 2
  BY <1>1
<1>6. ASSUME ~Inserted
      PROVE  /\ \A r \in Ids : served'[r] <= 1
             /\ \A r \in rows : served'[r] > 0 => Put(r) <= Upto + size
  <2>1. \A r \in rows : served[r] > 0 => Put(r) <= Upto
    BY <1>6 DEF OInv
  <2>2. \A r \in Ids : served[r] <= 1
    BY <1>6 DEF OInv
  <2>3. \A r \in data : r \in rows /\ ~(Put(r) <= Upto)
    BY <1>1, <1>2, <1>3
  <2>4. \A r \in data : served[r] = 0
    BY <1>1, <1>5, <2>1, <2>3
  <2>5. QED
    BY <1>1, <1>2, <1>3, <1>4, <1>5, <2>1, <2>2, <2>4
<1>7. ASSUME FromFirst, ~Deleted, NEW r \in stayed, Put(r) <= Upto + size
      PROVE  served'[r] > 0
  <2>1. r \in rows /\ r \in Ids
    BY <1>1
  <2>2. CASE Put(r) <= Upto
    <3>1. served[r] > 0
      BY <1>7, <2>2 DEF OInv
    <3>2. QED
      BY <1>4, <1>5, <2>1, <3>1
  <2>3. CASE ~(Put(r) <= Upto)
    <3>1. r \in data
      BY <1>1, <1>2, <1>3, <1>7, <2>1, <2>3
    <3>2. QED
      BY <1>4, <1>5, <2>1, <3>1
  <2>4. QED
    BY <2>2, <2>3
<1>8. QED
  BY <1>6, <1>7

\* How a page leaves the caller: it asks for the next one, or it is over.
LEMMA PageKeepsOInv ==
    ASSUME TInv, OInv, SteadyOffset, Running, NEW size \in Nat,
           NEW data \in Slice(FirstKey, rows, Upto, size), Deliver(data),
           UNCHANGED <<rows, job, stayed, wrote>>,
           pc' \in {"ask", "done", "aborted"},
           pc' = "ask" => /\ Upto' = Upto + size
                          /\ job.api # "chunk" => PageNo' > 0 \/ PerPage' = 0,
           pc' = "done" => \/ job.api = "paginate" /\ ~(wrote = {} /\ PerPage > 0)
                           \/ \A r \in rows : Put(r) <= Upto + size
    PROVE  OInv'
<1>1. /\ SteadyOffset' /\ (FromFirst' <=> FromFirst) /\ FirstKey' = FirstKey
      /\ PerPage' = PerPage
  BY SteadyJob
<1>2. (Inserted' <=> Inserted) /\ (Deleted' <=> Deleted)
  BY DEF Inserted, Deleted
<1>3. \A r : Put(r)' = Put(r)
  BY <1>1 DEF Put
<1>4. /\ ~Inserted => \A r \in Ids : served'[r] <= 1
      /\ ~Inserted => \A r \in rows : served'[r] > 0 => Put(r) <= Upto + size
      /\ FromFirst /\ ~Deleted =>
            \A r \in stayed : Put(r) <= Upto + size => served'[r] > 0
  BY PageHandsOver
<1>5. /\ stayed \subseteq rows /\ rows \in SUBSET Ids
      /\ served \in [Ids -> 0 .. 2]
  BY SteadyColumn
<1>6. Running' => pc' = "ask"
  BY DEF Running
<1>7. OffsetComplete'
  <2>1. SUFFICES ASSUME FromFirst, pc' = "done", ~Deleted,
                        job.api = "paginate" => wrote = {} /\ PerPage > 0
                 PROVE  \A r \in stayed : served'[r] >= 1
    BY <1>1, <1>2 DEF OffsetComplete
  <2>2. \A r \in stayed : served'[r] > 0
    BY <1>4, <1>5, <2>1
  <2>3. served' \in [Ids -> 0 .. 2]
    BY DeliverType DEF TInv, TypeOK
  <2>4. \A r \in stayed : served'[r] \in 0 .. 2
    BY <1>5, <2>3
  <2>5. QED
    BY <2>2, <2>4
<1>8. pc' # "counted"
  OBVIOUS
<1>9. QED
  BY <1>1, <1>2, <1>3, <1>4, <1>6, <1>7, <1>8 DEF OInv

LEMMA ChunkOInv ==
    ASSUME TInv, OInv, SteadyOffset, Chunk
    PROVE  OInv'
<1>1. PICK batch \in Slice(FirstKey, rows, pos, job.size) :
         /\ Deliver(batch)
         /\ \/ pc' = "aborted" /\ UNCHANGED pos
            \/ Cardinality(batch) < job.size /\ pc' = "done" /\ UNCHANGED pos
            \/ ~(Cardinality(batch) < job.size) /\ pc' = "ask" /\ pos' = pos + job.size
  BY DEF Chunk
<1>2. /\ Running /\ job.api = "chunk" /\ Upto = pos
      /\ UNCHANGED <<rows, job, stayed, wrote>>
  BY DEF Chunk, Running, Upto
<1>3. FirstKey \in Columns /\ pos \in Nat /\ job.size \in Nat /\ rows \in SUBSET Ids
  BY SteadyColumn
<1>4. batch \in Slice(FirstKey, rows, Upto, job.size)
  BY <1>1, <1>2
<1>5. Upto' = pos'
  BY <1>2 DEF Upto
<1>6. pc' = "done" => \A r \in rows : Put(r) <= Upto + job.size
  BY <1>1, <1>2, <1>3, SliceByPlace DEF Put
<1>7. QED
  BY <1>1, <1>2, <1>3, <1>4, <1>5, <1>6, PageKeepsOInv

LEMMA LastPageFull ==
    ASSUME NEW count \in Nat, NEW size \in Nat, NEW p \in Nat, size > 0, p > 0
    PROVE  p < LastPage(count, size) <=> p * size < count
<1>1. CASE count = 0
  <2>1. LastPage(count, size) = 1
    BY <1>1 DEF LastPage
  <2>2. p * size \in Nat
    OBVIOUS
  <2>3. QED
    BY <1>1, <2>1, <2>2
<1>2. CASE count # 0
  <2>1. LastPage(count, size) = (count + size - 1) \div size
    BY <1>2 DEF LastPage
  <2>2. p < ((count + size - 1) \div size) <=> p * size < count
    OBVIOUS
  <2>3. QED
    BY <2>1, <2>2
<1>3. QED
  BY <1>1, <1>2

\* the offset of the page with the next number is the end of this page
LEMMA NextOffset ==
    ASSUME NEW p \in Nat, NEW size \in Nat, p > 0 \/ size = 0
    PROVE  ((p + 1) - 1) * size = (IF p = 0 THEN 0 ELSE p - 1) * size + size
<1>1. CASE p = 0
  BY <1>1
<1>2. CASE p # 0
  <2>1. (p - 1) * size + size = p * size
    BY <1>2
  <2>2. QED
    BY <1>2, <2>1
<1>3. QED
  BY <1>1, <1>2

LEMMA OffsetOfNext ==
    ASSUME job' = job, PageNo \in Nat, PerPage \in Nat, PageNo > 0 \/ PerPage = 0,
           pos' = PageNo + 1 \/ (PerPage = 0 /\ pos' \in Nat)
    PROVE  /\ Offset' = Offset + PerPage
           /\ PageNo' > 0 \/ PerPage' = 0
<1>1. PerPage' = PerPage
  BY SteadyJob
<1>2. CASE PerPage = 0
  <2>1. PageNo' \in Nat
    BY <1>2 DEF PageNo, AtLeast1
  <2>2. \A n \in Nat : (IF n = 0 THEN 0 ELSE n - 1) * 0 = 0
    OBVIOUS
  <2>3. Offset' = 0 /\ Offset = 0
    BY <1>1, <1>2, <2>1, <2>2 DEF Offset
  <2>4. QED
    BY <1>1, <1>2, <2>3
<1>3. CASE PerPage # 0
  <2>1. PageNo' = PageNo + 1
    BY <1>3 DEF PageNo, AtLeast1
  <2>2. Offset' = ((PageNo + 1) - 1) * PerPage
    BY <1>1, <2>1 DEF Offset
  <2>3. QED
    BY <1>3, <2>1, <2>2, NextOffset DEF Offset
<1>4. QED
  BY <1>2, <1>3

LEMMA NumberedOInv ==
    ASSUME TInv, OInv, SteadyOffset, Paginate
    PROVE  OInv'
<1>1. pc = "counted" /\ Running /\ job.api = "paginate" /\ Upto = Offset
  BY DEF Paginate, ModelPaginate, SelectPaginate, TInv, CountedOK, Running, Upto
<1>2. ~Malformed
  BY <1>1 DEF SteadyOffset, FirstKey, Malformed
<1>3. PICK data \in Slice(FirstKey, rows, Offset, PerPage) :
         \/ Fail("panicked")
         \/ /\ Turn(data, Page(data, total, PerPage, PageNo))
            /\ pos' = PageNo + 1
  BY <1>2 DEF Paginate, ModelPaginate, SelectPaginate, PageByNumber
<1>4. /\ FirstKey \in Columns /\ PageNo \in Nat /\ PerPage \in Nat /\ Offset \in Nat
      /\ rows \in SUBSET Ids
  BY SteadyColumn
<1>5. PageNo > 0 \/ PerPage = 0
  BY <1>1 DEF OInv
<1>6. CASE Fail("panicked")
  <2>1. /\ job' = job /\ rows' = rows /\ served' = served /\ wrote' = wrote
        /\ pc' = "panicked"
    BY <1>6 DEF Fail
  <2>2. (SteadyOffset' <=> SteadyOffset) /\ ~Running' /\ (Inserted' <=> Inserted)
    BY <2>1, SteadyJob DEF Running, Inserted
  <2>3. QED
    BY <2>1, <2>2 DEF OInv, OffsetComplete
<1>7. CASE Turn(data, Page(data, total, PerPage, PageNo)) /\ pos' = PageNo + 1
  <2>1. /\ Deliver(data) /\ UNCHANGED <<rows, job, stayed, wrote>>
        /\ pc' = IF PageNo < LastPage(total, PerPage) THEN "ask" ELSE "done"
    BY <1>7 DEF Turn, Page
  <2>2. Upto' = Upto + PerPage /\ (PageNo' > 0 \/ PerPage' = 0)
    BY <1>1, <1>4, <1>5, <1>7, <2>1, OffsetOfNext DEF Upto
  <2>3. ASSUME pc' = "done", wrote = {}, PerPage > 0, NEW r \in rows
        PROVE  Put(r) <= Upto + PerPage
    <3>1. total = Cardinality(rows) /\ total \in Nat
      BY <1>1, <2>3 DEF OInv, TInv, TypeOK
    <3>2. PageNo > 0 /\ ~(PageNo * PerPage < total)
      <4>1. PageNo > 0 /\ ~(PageNo < LastPage(total, PerPage))
        BY <1>4, <1>5, <2>1, <2>3
      <4>2. QED
        BY <1>4, <2>3, <3>1, <4>1, LastPageFull
    <3>3. Put(r) \in Nat /\ Put(r) <= Cardinality(rows)
      BY <1>4, PlaceType DEF Put
    <3>4. Offset + PerPage = PageNo * PerPage
      BY <1>4, <3>2, NextOffset DEF Offset
    <3>5. QED
      <4>1. PageNo * PerPage \in Nat
        BY <1>4
      <4>2. QED
        BY <1>1, <3>1, <3>2, <3>3, <3>4, <4>1
  <2>4. QED
    BY <1>1, <1>3, <1>4, <2>1, <2>2, <2>3, PageKeepsOInv
<1>8. QED
  BY <1>3, <1>6, <1>7

LEMMA SimpleOInv ==
    ASSUME TInv, OInv, SteadyOffset, SmallTable, SimplePaginate
    PROVE  OInv'
<1>1. pc = "ask" /\ Running /\ job.api = "simple" /\ Upto = Offset
  BY DEF SimplePaginate, ModelSimplePaginate, SelectSimplePaginate, Fails, OneRowMore, Running, Upto
<1>2. ~Malformed
  BY <1>1 DEF SteadyOffset, FirstKey, Malformed
<1>3. \/ Fail("panicked")
      \/ \E found \in Slice(FirstKey, rows, Offset, OneMore) :
         \E data \in Kept(found, PerPage) :
            /\ Turn(data, PageOf(data, Cardinality(found) > PerPage))
            /\ pos' = Wrap(PageNo + 1)
  BY <1>2 DEF SimplePaginate, ModelSimplePaginate, SelectSimplePaginate, Fails, OneRowMore
<1>4. /\ FirstKey \in Columns /\ PageNo \in Nat /\ PerPage \in Nat /\ Offset \in Nat
      /\ rows \in SUBSET Ids /\ OneMore = PerPage + 1
  BY <1>1, SteadyColumn
<1>5. PageNo > 0 \/ PerPage = 0
  BY <1>1 DEF OInv
<1>6. CASE Fail("panicked")
  <2>1. /\ job' = job /\ rows' = rows /\ served' = served /\ wrote' = wrote
        /\ pc' = "panicked"
    BY <1>6 DEF Fail
  <2>2. (SteadyOffset' <=> SteadyOffset) /\ ~Running' /\ (Inserted' <=> Inserted)
    BY <2>1, SteadyJob DEF Running, Inserted
  <2>3. QED
    BY <2>1, <2>2 DEF OInv, OffsetComplete
<1>7. ASSUME NEW found \in Slice(FirstKey, rows, Offset, PerPage + 1),
             NEW data \in Kept(found, PerPage),
             Turn(data, PageOf(data, Cardinality(found) > PerPage)),
             pos' = Wrap(PageNo + 1)
      PROVE  OInv'
  <2>1. /\ Deliver(data) /\ UNCHANGED <<rows, job, stayed, wrote>>
        /\ pc' = IF Cardinality(found) > PerPage THEN "ask" ELSE "done"
    BY <1>7 DEF Turn, PageOf
  <2>2. /\ data \in Slice(FirstKey, rows, Upto, PerPage)
        /\ Cardinality(found) > PerPage <=> \E r \in rows : Put(r) > Upto + PerPage
    BY <1>1, <1>4, <1>7, SliceAndOneMore DEF Put, Kept
  <2>3. ASSUME pc' = "ask"
        PROVE  Upto' = Upto + PerPage /\ (PageNo' > 0 \/ PerPage' = 0)
    <3>1. CASE PerPage = 0
      <4>1. pos' \in Nat
        BY <1>4, <1>7, WrapType
      <4>2. QED
        BY <1>1, <1>4, <2>1, <3>1, <4>1, OffsetOfNext DEF Upto
    <3>2. CASE PerPage # 0
      <4>1. PICK r \in rows : Put(r) > Offset + PerPage
        BY <1>1, <2>1, <2>2, <2>3
      <4>2. Put(r) \in Nat /\ Put(r) <= Cardinality(rows) /\ Cardinality(rows) \in Nat
        BY <1>4, PlaceType, FiniteRows DEF Put
      <4>3. Offset + PerPage = PageNo * PerPage
        BY <1>4, <1>5, <3>2, NextOffset DEF Offset
      <4>4. PageNo * PerPage \in Nat /\ PageNo <= PageNo * PerPage
        BY <1>4, <3>2
      <4>5. PageNo < MaxU32
        BY <1>4, <4>1, <4>2, <4>3, <4>4, PagingAssumption DEF SmallTable
      <4>6. Wrap(PageNo + 1) = PageNo + 1
        BY <1>4, <4>5, PagingAssumption DEF Wrap
      <4>7. QED
        BY <1>1, <1>4, <1>5, <1>7, <2>1, <4>6, OffsetOfNext DEF Upto
    <3>3. QED
      BY <3>1, <3>2
  <2>4. ASSUME pc' = "done", NEW r \in rows
        PROVE  Put(r) <= Upto + PerPage
    <3>1. ~(Put(r) > Upto + PerPage)
      BY <2>1, <2>2, <2>4
    <3>2. Put(r) \in Nat /\ Upto \in Nat
      BY <1>1, <1>4, PlaceType DEF Put
    <3>3. QED
      BY <1>4, <3>1, <3>2
  <2>5. QED
    BY <1>1, <1>4, <2>1, <2>2, <2>3, <2>4, PageKeepsOInv
<1>8. QED
  BY <1>3, <1>4, <1>6, <1>7

LEMMA InsertOInv ==
    ASSUME TInv, OInv, SteadyOffset, NEW x \in Ids, Insert(x)
    PROVE  OInv'
<1>1. /\ x \notin rows /\ rows' = rows \cup {x} /\ wrote' = wrote \cup {<<"insert", x>>}
      /\ UNCHANGED <<job, pos, total, pc, served, page, stayed>> /\ Running
  BY DEF Insert
<1>2. /\ SteadyOffset' /\ (FromFirst' <=> FromFirst) /\ FirstKey' = FirstKey
      /\ PerPage' = PerPage
  BY <1>1, SteadyJob
<1>3. Inserted' /\ (Deleted' <=> Deleted) /\ wrote' # {}
  BY <1>1 DEF Inserted, Deleted
<1>4. Upto' = Upto /\ PageNo' = PageNo
  BY <1>1, <1>2 DEF Upto, Offset, PageNo
<1>5. /\ FirstKey \in Columns /\ Upto \in Nat /\ rows \in SUBSET Ids /\ stayed \subseteq rows
  BY SteadyColumn
<1>6. ASSUME NEW r \in stayed
      PROVE  Put(r) <= Put(r)' /\ Put(r) \in Nat /\ Put(r)' \in Nat
  <2>1. rows' \in SUBSET Ids /\ rows \in SUBSET rows'
    BY <1>1, <1>5
  <2>2. QED
    BY <1>2, <1>5, <2>1, PlaceMonotone, PlaceType DEF Put
<1>7. ASSUME FromFirst, ~Deleted, NEW r \in stayed, Put(r)' <= Upto
      PROVE  served[r] > 0
  <2>1. Put(r) <= Upto
    BY <1>5, <1>6, <1>7
  <2>2. QED
    BY <1>1, <1>7, <2>1 DEF OInv
<1>8. pc' # "done"
  BY <1>1 DEF Running
<1>9. QED
  BY <1>1, <1>2, <1>3, <1>4, <1>7, <1>8 DEF OInv, OffsetComplete, Running

LEMMA DeleteOInv ==
    ASSUME TInv, OInv, SteadyOffset, NEW x \in Ids, Delete(x)
    PROVE  OInv'
<1>1. /\ rows' = rows \ {x} /\ wrote' = wrote \cup {<<"delete", x>>}
      /\ UNCHANGED <<job, pos, total, pc, served, page>> /\ Running
  BY DEF Delete
<1>2. /\ SteadyOffset' /\ (FromFirst' <=> FromFirst) /\ FirstKey' = FirstKey
      /\ PerPage' = PerPage
  BY <1>1, SteadyJob
<1>3. Deleted' /\ (Inserted' <=> Inserted) /\ wrote' # {}
  BY <1>1 DEF Inserted, Deleted
<1>4. Upto' = Upto /\ PageNo' = PageNo
  BY <1>1, <1>2 DEF Upto, Offset, PageNo
<1>5. /\ FirstKey \in Columns /\ Upto \in Nat /\ rows \in SUBSET Ids
  BY SteadyColumn
<1>6. ASSUME NEW r \in rows'
      PROVE  r \in rows /\ Put(r)' <= Put(r) /\ Put(r) \in Nat /\ Put(r)' \in Nat
  <2>1. rows' \in SUBSET rows /\ rows' \in SUBSET Ids
    BY <1>1, <1>5
  <2>2. QED
    BY <1>2, <1>5, <2>1, PlaceMonotone, PlaceType DEF Put
<1>7. ASSUME ~Inserted, NEW r \in rows', served[r] > 0
      PROVE  Put(r)' <= Upto
  <2>1. Put(r) <= Upto
    BY <1>1, <1>6, <1>7 DEF OInv
  <2>2. QED
    BY <1>5, <1>6, <1>7, <2>1
<1>8. pc' # "done"
  BY <1>1 DEF Running
<1>9. QED
  BY <1>1, <1>2, <1>3, <1>4, <1>7, <1>8 DEF OInv, OffsetComplete, Running

LEMMA OInvKept ==
    ASSUME TInv, OInv, SmallTable, [Next]_vars
    PROVE  OInv'
<1> SUFFICES ASSUME SteadyOffset' PROVE OInv'
  BY DEF OInv
<1>0. job' = job /\ SteadyOffset
  BY JobSteady, SteadyJob
<1>1. CASE Chunk
  BY <1>0, <1>1, ChunkOInv
<1>2. CASE Count
  <2>1. /\ job.api = "paginate" /\ total' = Cardinality(rows) /\ pc' = "counted"
        /\ pc = "ask"
        /\ UNCHANGED <<rows, job, pos, served, page, stayed, wrote>>
    BY <1>2 DEF Count
  <2>2. /\ (FromFirst' <=> FromFirst) /\ FirstKey' = FirstKey /\ PerPage' = PerPage
        /\ (Inserted' <=> Inserted) /\ (Deleted' <=> Deleted)
    BY <2>1, SteadyJob DEF Inserted, Deleted
  <2>3. Upto' = Upto /\ PageNo' = PageNo /\ \A r : Put(r)' = Put(r)
    BY <2>1, <2>2 DEF Upto, Offset, PageNo, Put
  <2>4. QED
    BY <1>0, <2>1, <2>2, <2>3 DEF OInv, OffsetComplete, Running
<1>3. CASE Paginate
  BY <1>0, <1>3, NumberedOInv
<1>4. CASE SimplePaginate
  BY <1>0, <1>4, SimpleOInv
<1>5. ~CursorPaginate
  BY <1>0 DEF SteadyOffset, CursorPaginate, ModelCursorPaginate, SelectCursorPaginate
<1>6. ASSUME NEW r \in Ids, Insert(r)
      PROVE  OInv'
  BY <1>0, <1>6, InsertOInv
<1>7. ASSUME NEW r \in Ids, Delete(r)
      PROVE  OInv'
  BY <1>0, <1>7, DeleteOInv
<1>8. CASE UNCHANGED vars
  <2>1. /\ (FromFirst' <=> FromFirst) /\ FirstKey' = FirstKey /\ PerPage' = PerPage
        /\ (Inserted' <=> Inserted) /\ (Deleted' <=> Deleted)
    BY <1>8, SteadyJob DEF Inserted, Deleted, vars
  <2>2. Upto' = Upto /\ PageNo' = PageNo /\ \A r : Put(r)' = Put(r)
    BY <1>8, <2>1 DEF Upto, Offset, PageNo, Put, vars
  <2>3. QED
    BY <1>0, <1>8, <2>1, <2>2 DEF OInv, OffsetComplete, Running, vars
<1>9. QED
  BY <1>1, <1>2, <1>3, <1>4, <1>5, <1>6, <1>7, <1>8 DEF Next, Caller

LEMMA OInvInit == Init => OInv
<1> SUFFICES ASSUME Init, SteadyOffset PROVE OInv
  BY DEF OInv
<1>1. TInv
  BY InitTypes
<1>2. /\ FirstKey \in Columns /\ PerPage \in Nat /\ rows \in SUBSET Ids
      /\ stayed \subseteq rows
  BY <1>1, SteadyColumn
<1>3. served = [r \in Ids |-> 0] /\ pc = "ask"
  BY DEF Init
<1>4. job.api # "chunk" => pos = job.page /\ PageNo > 0
  <2>1. job \in AllJobs /\ job.page \in Nat
    BY JobType DEF Init
  <2>2. job.api # "chunk" => pos = job.page
    BY <1>1, <2>1, SteadyColumn DEF Init
  <2>3. QED
    BY <2>1, <2>2 DEF SteadyOffset, PageNo, AtLeast1, AllJobs
<1>5. FromFirst => Upto = 0
  <2>1. CASE job.api = "chunk"
    BY <2>1 DEF Init, Upto
  <2>2. CASE job.api # "chunk" /\ FromFirst
    <3>1. job.page \in Nat /\ job.page <= 1
      BY <1>1, <2>2, SteadyColumn, JobType DEF FromFirst, Init
    <3>2. PageNo = 1
      BY <1>4, <2>2, <3>1 DEF PageNo, AtLeast1
    <3>3. QED
      BY <1>2, <2>2, <3>2 DEF Upto, Offset
  <2>3. QED
    BY <2>1, <2>2
<1>6. \A r \in stayed : Put(r) > 0 /\ Put(r) \in Nat
  BY <1>2, PlacePositive, PlaceType DEF Put
<1>7. \A r \in stayed : FromFirst => ~(Put(r) <= Upto)
  BY <1>5, <1>6
<1>8. QED
  BY <1>2, <1>3, <1>4, <1>7 DEF OInv, OffsetComplete

LEMMA OffsetInvariant == Spec /\ []SmallTable => [](TInv /\ OInv)
<1>1. Init => TInv /\ OInv
  BY InitTypes, OInvInit
<1>2. TInv /\ OInv /\ SmallTable /\ [Next]_vars => (TInv /\ OInv)'
  BY TypesKept, OInvKept
<1>3. QED
  BY <1>1, <1>2, PTL DEF Spec

\* Pages by number and chunks hand no row over twice unless another session
\* inserts, and from the first page on they miss none unless one deletes
\* (paginate: unless one writes at all), for every table below 2^32 rows and
\* every page size; but not for SelectBuilder::simple_paginate with a page of
\* u32::MAX rows, which has no room for the extra row (see SteadyOffset).
THEOREM PagesSweep == Spec /\ []SmallTable => []OffsetSweeps
<1>1. OInv => OffsetSweeps
  BY DEF OInv, OffsetSweeps, OffsetOnce, OffsetComplete
<1>2. QED
  BY <1>1, OffsetInvariant, PTL

-----------------------------------------------------------------------------
(* What a page says of itself.                                             *)

Handed == {r \in Ids : served[r] > 0}

Truth ==
    page.size > 0 /\ job.api # "chunk" /\ FromFirst /\ (SteadyOffset \/ SteadyCursor) =>
        /\ page.more <=> rows \ Handed # {}
        /\ job.api = "paginate" => /\ page.to = Cardinality(Handed)
                                   /\ page.from = page.to - page.size + 1

\* On a table nobody writes to the last page tells the truth between the
\* statements too.
HInv == wrote = {} => stayed = rows /\ Handed \subseteq rows /\ Truth

LEMMA HandedOn ==
    ASSUME TInv, NEW data \in SUBSET rows, Deliver(data), rows' = rows
    PROVE  Handed' = Handed \cup data
<1>1. served \in [Ids -> 0 .. 2] /\ rows \subseteq Ids
  BY DEF TInv, TypeOK
<1>2. \A r \in Ids : served'[r] = IF r \in data /\ served[r] < 2
                                  THEN served[r] + 1 ELSE served[r]
  BY DEF Deliver
<1>3. \A r \in Ids : served[r] \in 0 .. 2
  BY <1>1
<1>4. QED
  BY <1>1, <1>2, <1>3 DEF Handed

\* after a page of an undisturbed walk, the rows handed over are the rows placed
\* up to its end
LEMMA HandedByPlace ==
    ASSUME TInv, OInv, HInv, SteadyOffset, FromFirst, Running, wrote = {},
           NEW size \in Nat, NEW data \in Slice(FirstKey, rows, Upto, size),
           Deliver(data), rows' = rows
    PROVE  Handed' = Leading(FirstKey, rows, Upto + size)
<1>1. /\ FirstKey \in Columns /\ Upto \in Nat /\ rows \in SUBSET Ids
  BY SteadyColumn
<1>2. ~Inserted /\ ~Deleted /\ stayed = rows /\ Handed \subseteq rows
  BY DEF Inserted, Deleted, HInv
<1>3. data = {r \in rows : Upto < Put(r) /\ Put(r) <= Upto + size}
  BY <1>1, SliceByPlace DEF Put
<1>4. \A r \in rows : Put(r) \in Nat
  BY <1>1, PlaceType DEF Put
<1>5. Handed = {r \in rows : Put(r) <= Upto}
  BY <1>1, <1>2 DEF OInv, Handed
<1>6. Handed' = Handed \cup data
  BY <1>3, HandedOn
<1>7. QED
  BY <1>1, <1>3, <1>4, <1>5, <1>6 DEF Leading, Put

LEMMA TruthUnchanged ==
    ASSUME HInv, UNCHANGED <<rows, job, served, page, stayed, wrote>>
    PROVE  HInv'
BY DEF HInv, Truth, Handed, FromFirst, SteadyOffset, FirstKey,
       SteadyCursor, PerPage, AtLeast1

\* the bounds of a Page, computed in u32
LEMMA FromExact ==
    ASSUME NEW p \in Nat, p > 0, NEW size \in Nat, size > 0, (p - 1) * size < MaxU32
    PROVE  From(p, size) = (p - 1) * size + 1
<1>1. MaxU32 \in Nat
  BY PagingAssumption
<1>2. (p - 1) * size \in Nat /\ p - 1 \in Nat /\ p - 1 <= (p - 1) * size
  OBVIOUS
<1>3. Wrap(p - 1) = p - 1
  BY <1>1, <1>2 DEF Wrap
<1>4. Wrap((p - 1) * size + 1) = (p - 1) * size + 1
  BY <1>1, <1>2 DEF Wrap
<1>5. Wrap((p - 1) * size) = (p - 1) * size
  BY <1>1, <1>2 DEF Wrap
<1>6. QED
  BY <1>3, <1>4, <1>5 DEF From

LEMMA NumberedTruth ==
    ASSUME TInv, OInv, HInv, SmallTable, Paginate
    PROVE  HInv'
<1>1. pc = "counted" /\ Running /\ job.api = "paginate" /\ Upto = Offset
  BY DEF Paginate, ModelPaginate, SelectPaginate, TInv, CountedOK, Running, Upto
<1>2. CASE Fail("failed") \/ Fail("panicked")
  BY <1>2, TruthUnchanged DEF Fail
<1>3. ASSUME NEW data \in Slice(FirstKey, rows, Offset, PerPage),
             Turn(data, Page(data, total, PerPage, PageNo))
      PROVE  HInv'
  <2>1. /\ Deliver(data) /\ UNCHANGED <<rows, job, total, stayed, wrote>>
        /\ page' = Page(data, total, PerPage, PageNo)
    BY <1>3 DEF Turn
  <2>2. data \in SUBSET rows
    BY <1>3, SliceSubset
  <2>3. SUFFICES ASSUME wrote = {} PROVE stayed' = rows' /\ Handed' \subseteq rows' /\ Truth'
    BY <2>1 DEF HInv
  <2>4. stayed' = rows' /\ Handed' \subseteq rows'
    BY <2>1, <2>2, <2>3, HandedOn DEF HInv
  <2>5. (SteadyOffset' <=> SteadyOffset) /\ (FromFirst' <=> FromFirst)
    BY <2>1, SteadyJob
  <2>6. ~SteadyCursor'
    BY <1>1, <2>1 DEF SteadyCursor
  <2>7. ASSUME page'.size > 0, FromFirst, SteadyOffset
        PROVE  /\ page'.more <=> rows \ Handed' # {}
               /\ page'.to = Cardinality(Handed')
               /\ page'.from = page'.to - page'.size + 1
    <3>1. /\ FirstKey \in Columns /\ PageNo \in Nat /\ PerPage \in Nat /\ Offset \in Nat
          /\ rows \in SUBSET Ids /\ total = Cardinality(rows) /\ total \in Nat
      BY <1>1, <2>3, <2>7, SteadyColumn, FiniteRows DEF OInv
    <3>2. Cardinality(data) \in Nat /\ Cardinality(data) <= PerPage
      BY <1>3, <3>1, SliceByPlace
    <3>3. page'.size = Cardinality(data) /\ Cardinality(data) > 0 /\ PerPage > 0
      BY <2>1, <2>7, <3>1, <3>2 DEF Page
    <3>4. data # {}
      BY <3>3, FS_EmptySet
    <3>5. PageNo > 0
      BY <1>1, <2>7, <3>1, <3>3 DEF OInv
    <3>6. Offset = (PageNo - 1) * PerPage /\ PageNo * PerPage = Offset + PerPage
      BY <3>1, <3>5, NextOffset DEF Offset
    <3>7. /\ (\E r \in rows : Put(r) > Offset + PerPage) <=> total > Offset + PerPage
          /\ total > Offset
          /\ Cardinality(Leading(FirstKey, rows, Offset + PerPage))
                 = Offset + Cardinality(data)
      BY <1>3, <3>1, <3>4, SliceCount DEF Put
    <3>8. Handed' = Leading(FirstKey, rows, Offset + PerPage)
      BY <1>1, <1>3, <2>1, <2>3, <2>7, <3>1, HandedByPlace
    <3>9. page'.more <=> total > Offset + PerPage
      <4>1. page'.more <=> PageNo < LastPage(total, PerPage)
        BY <2>1 DEF Page
      <4>2. PageNo < LastPage(total, PerPage) <=> PageNo * PerPage < total
        BY <3>1, <3>3, <3>5, LastPageFull
      <4>3. QED
        BY <3>1, <3>6, <4>1, <4>2
    <3>10. rows \ Handed' # {} <=> \E r \in rows : Put(r) > Offset + PerPage
      <4>1. \A r \in rows : Put(r) \in Nat
        BY <3>1, PlaceType DEF Put
      <4>2. QED
        BY <3>1, <3>8, <4>1 DEF Leading, Put
    <3>11. page'.from = Offset + 1 /\ page'.to = Offset + Cardinality(data)
      <4>1. From(PageNo, PerPage) = Offset + 1
        BY <3>1, <3>3, <3>5, <3>6, <3>7, FromExact, PagingAssumption DEF SmallTable
      <4>2. page'.from = From(PageNo, PerPage)
        BY <2>1, <3>3 DEF Page
      <4>3. page'.to = From(PageNo, PerPage) + (Cardinality(data) - 1)
        BY <2>1, <3>3 DEF Page
      <4>4. QED
        BY <3>1, <3>2, <4>1, <4>2, <4>3
    <3>12. QED
      BY <3>1, <3>2, <3>3, <3>7, <3>8, <3>9, <3>10, <3>11
  <2>8. QED
    BY <2>1, <2>4, <2>5, <2>6, <2>7 DEF Truth
<1>4. QED
  BY <1>2, <1>3 DEF Paginate, ModelPaginate, SelectPaginate, PageByNumber

LEMMA SimpleTruth ==
    ASSUME TInv, OInv, HInv, SimplePaginate
    PROVE  HInv'
<1>1. pc = "ask" /\ Running /\ job.api = "simple" /\ Upto = Offset
  BY DEF SimplePaginate, ModelSimplePaginate, SelectSimplePaginate, Fails, OneRowMore, Running, Upto
<1>2. CASE Fail("failed") \/ Fail("panicked")
  BY <1>2, TruthUnchanged DEF Fail
<1>3. ASSUME NEW found \in Slice(FirstKey, rows, Offset, OneMore),
             NEW data \in Kept(found, PerPage),
             Turn(data, PageOf(data, Cardinality(found) > PerPage))
      PROVE  HInv'
  <2>1. /\ Deliver(data) /\ UNCHANGED <<rows, job, total, stayed, wrote>>
        /\ page'.more <=> Cardinality(found) > PerPage
    BY <1>3 DEF Turn, PageOf
  <2>2. data \in SUBSET rows
    BY <1>3, SliceSubset DEF Kept, Firsts
  <2>3. SUFFICES ASSUME wrote = {} PROVE stayed' = rows' /\ Handed' \subseteq rows' /\ Truth'
    BY <2>1 DEF HInv
  <2>4. stayed' = rows' /\ Handed' \subseteq rows'
    BY <2>1, <2>2, <2>3, HandedOn DEF HInv
  <2>5. (SteadyOffset' <=> SteadyOffset) /\ (FromFirst' <=> FromFirst)
    BY <2>1, SteadyJob
  <2>6. ~SteadyCursor'
    BY <1>1, <2>1 DEF SteadyCursor
  <2>7. ASSUME FromFirst, SteadyOffset
        PROVE  page'.more <=> rows \ Handed' # {}
    <3>1. /\ FirstKey \in Columns /\ PerPage \in Nat /\ Offset \in Nat
          /\ rows \in SUBSET Ids /\ OneMore = PerPage + 1
      BY <1>1, <2>7, SteadyColumn
    <3>2. /\ data \in Slice(FirstKey, rows, Upto, PerPage)
          /\ Cardinality(found) > PerPage <=> \E r \in rows : Put(r) > Upto + PerPage
      BY <1>1, <1>3, <3>1, SliceAndOneMore DEF Put, Kept
    <3>3. Handed' = Leading(FirstKey, rows, Upto + PerPage)
      BY <1>1, <2>1, <2>3, <2>7, <3>1, <3>2, HandedByPlace
    <3>4. \A r \in rows : Put(r) \in Nat
      BY <3>1, PlaceType DEF Put
    <3>5. QED
      BY <1>1, <2>1, <3>1, <3>2, <3>3, <3>4 DEF Leading, Put
  <2>8. job'.api # "paginate"
    BY <1>1, <2>1
  <2>9. QED
    BY <2>1, <2>4, <2>5, <2>6, <2>7, <2>8 DEF Truth
<1>4. QED
  BY <1>2, <1>3 DEF SimplePaginate, ModelSimplePaginate, SelectSimplePaginate, Fails, OneRowMore

LEMMA CursorTruth ==
    ASSUME TInv, TInv', CInv, CInv', HInv, CursorPaginate, [Next]_vars
    PROVE  HInv'
<1>0. job' = job /\ (SteadyCursor' <=> SteadyCursor)
  BY JobSteady
<1>1. job.api = "cursor" /\ pc = "ask"
  BY DEF CursorPaginate, ModelCursorPaginate, SelectCursorPaginate
<1>2. CASE Fail("failed") \/ Fail("panicked")
  BY <1>2, TruthUnchanged DEF Fail
<1>3. ASSUME NEW data, data \in SUBSET rows, NEW p, Turn(data, p), wrote = {}
      PROVE  stayed' = rows' /\ Handed' \subseteq rows'
  BY <1>3, HandedOn DEF Turn, HInv
<1>4. ASSUME ~(Fail("failed") \/ Fail("panicked"))
      PROVE  /\ wrote' = wrote
             /\ wrote = {} => stayed' = rows' /\ Handed' \subseteq rows'
  <2>1. PICK data, more : Turn(data, PageOf(data, more)) /\ data \in SUBSET rows
    <3>1. ASSUME NEW n, NEW found \in Firsts(FirstKey, After(pos), n)
          PROVE  found \in SUBSET rows /\ Kept(found, PerPage) \subseteq SUBSET rows
      BY DEF Firsts, After, Kept
    <3>2. CASE ModelCursorPaginate
      BY <1>4, <3>1, <3>2 DEF ModelCursorPaginate, Keyset, LastPageOfCursor, NextPageOfCursor
    <3>3. CASE SelectCursorPaginate
      BY <1>4, <3>1, <3>3 DEF SelectCursorPaginate, Fails, LastPageOfCursor
    <3>4. QED
      BY <3>2, <3>3 DEF CursorPaginate
  <2>2. QED
    BY <1>3, <2>1 DEF Turn
<1>5. ASSUME ~(Fail("failed") \/ Fail("panicked")), SteadyCursor, wrote = {}
      PROVE  page'.more <=> rows' \ Handed' # {}
  <2>1. stayed' = rows' /\ Handed' \subseteq rows' /\ rows' \subseteq Ids
        /\ served' \in [Ids -> 0 .. 2]
    BY <1>4, <1>5 DEF TInv, TypeOK
  <2>3. CASE Turn(After(pos), PageOf(After(pos), FALSE))
    <3>1. page'.more = FALSE /\ pc' = "done"
      BY <2>3 DEF Turn, PageOf
    <3>2. \A r \in stayed' : served'[r] = 1
      BY <1>0, <1>5, <3>1 DEF CInv
    <3>3. QED
      BY <2>1, <3>1, <3>2 DEF Handed
  <2>4. ASSUME NEW data \in SUBSET rows, Turn(data, PageOf(data, TRUE)),
               NEW r \in rows, r > pos'
        PROVE  page'.more <=> rows' \ Handed' # {}
    <3>1. page'.more = TRUE /\ pc' = "ask" /\ rows' = rows
      BY <2>4 DEF Turn, PageOf
    <3>2. r \in Ids /\ r \in Int /\ pos' \in Int
      BY <2>1, <3>1, PagingAssumption DEF TInv, TypeOK
    <3>3. served'[r] > 0 => r <= pos'
      BY <1>0, <1>5, <3>1, <3>2 DEF CInv
    <3>4. r \notin Handed'
      BY <2>4, <3>2, <3>3 DEF Handed
    <3>5. QED
      BY <3>1, <3>4
  <2>5. QED
    BY <1>5, <2>3, <2>4, CursorPageRows
<1>6. ~SteadyOffset' /\ job'.api # "paginate"
  BY <1>0, <1>1 DEF SteadyOffset
<1>7. QED
  BY <1>0, <1>2, <1>4, <1>5, <1>6 DEF HInv, Truth

LEMMA HInvKept ==
    ASSUME TInv, TInv', CInv, CInv', OInv, HInv, SmallTable, [Next]_vars
    PROVE  HInv'
<1>1. CASE Chunk
  <2>1. PICK batch \in Slice(FirstKey, rows, pos, job.size) : Deliver(batch)
    BY <1>1 DEF Chunk
  <2>2. /\ job.api = "chunk"
        /\ UNCHANGED <<rows, job, stayed, wrote>>
    BY <1>1 DEF Chunk
  <2>3. batch \in SUBSET rows
    BY <2>1, SliceSubset
  <2>4. Handed' = Handed \cup batch
    BY <2>1, <2>2, <2>3, HandedOn
  <2>5. QED
    BY <2>2, <2>3, <2>4 DEF HInv, Truth
<1>2. CASE Count
  BY <1>2, TruthUnchanged DEF Count
<1>3. CASE Paginate
  BY <1>3, NumberedTruth
<1>4. CASE SimplePaginate
  BY <1>4, SimpleTruth
<1>5. CASE CursorPaginate
  BY <1>5, CursorTruth
<1>6. ASSUME NEW r \in Ids, Insert(r) \/ Delete(r)
      PROVE  HInv'
  BY <1>6 DEF Insert, Delete, HInv
<1>7. CASE UNCHANGED vars
  BY <1>7, TruthUnchanged DEF vars
<1>8. QED
  BY <1>1, <1>2, <1>3, <1>4, <1>5, <1>6, <1>7 DEF Next, Caller

LEMMA HInvInit == Init => HInv
BY DEF Init, HInv, Truth, Handed, NoPage

LEMMA TruthInvariant == Spec /\ []SmallTable => [](TInv /\ CInv /\ OInv /\ HInv)
<1>1. Init => TInv /\ CInv /\ OInv /\ HInv
  BY InitTypes, CInvInit, OInvInit, HInvInit
<1>2. TInv /\ CInv /\ OInv /\ HInv /\ SmallTable /\ [Next]_vars
          => (TInv /\ CInv /\ OInv /\ HInv)'
  BY TypesKept, CInvKept, OInvKept, HInvKept
<1>3. QED
  BY <1>1, <1>2, PTL DEF Spec

\* On a table nobody writes to, every page that holds rows says that there is
\* more exactly when a row is still to come, and the bounds of a Page, computed
\* in u32, are those of its rows.
THEOREM PagesTellTheTruth == Spec /\ []SmallTable => []PageTellsTheTruth
<1>1. HInv => PageTellsTheTruth
  BY DEF HInv, Truth, PageTellsTheTruth, Handed
<1>2. QED
  BY <1>1, TruthInvariant, PTL

=============================================================================
