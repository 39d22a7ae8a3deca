------------------------------ MODULE Paging -------------------------------
(***************************************************************************)
(* A caller that walks through a result page by page while other sessions  *)
(* insert and delete rows: ModelQuery::chunk, paginate, simple_paginate    *)
(* and cursor_paginate (layer "model"), the three paginating terminals of  *)
(* SelectBuilder (layer "select") and the page types they answer with.     *)
(*                                                                         *)
(* Every page is a statement of its own (paginate: two), so the table may  *)
(* change between any two steps.  The caller asks for the page after the   *)
(* one it got as long as the answer names one.                             *)
(***************************************************************************)
EXTENDS Integers, FiniteSets

CONSTANTS
    Ids,             \* primary keys
    MaxKey,          \* the largest value of a key column (an i64)
    Rank,            \* Rank[r]: a second unique column
    Starred,         \* the rows that match the first condition of "either"
    Jobs,            \* the calls a caller may make
    MaxU32,          \* the largest u32
    MaxWrites        \* bound: inserts and deletes of the other sessions

Columns == {"id", "rank"}

\* base: a plain query, one with an order_by of its own, one with a limit of
\* its own, one of the form "starred OR true"; page: the first page asked for
AllJobs == [api : {"chunk", "paginate", "simple", "cursor"},
            layer : {"model", "select"}, col : Columns,
            base : {"plain", "ordered", "limited", "either"},
            size : Nat, page : Nat, debug : BOOLEAN]

ASSUME PagingAssumption ==
    /\ MaxKey \in Nat
    /\ Ids \subseteq 0 .. MaxKey
    /\ Rank \in [Ids -> 0 .. MaxKey]
    /\ \A r, s \in Ids : Rank[r] = Rank[s] => r = s
    /\ Starred \subseteq Ids
    /\ Jobs \subseteq AllJobs
    /\ MaxU32 \in Nat \ {0}
    /\ \A j \in Jobs : j.api # "chunk" => j.size <= MaxU32 /\ j.page <= MaxU32
    /\ MaxWrites \in Nat

VARIABLES
    rows,    \* the table
    job,     \* the call in progress
    pos,     \* the next offset, page number or cursor
    total,   \* paginate: the count its first statement found
    pc,      \* ask, counted; or done, aborted, failed, panicked
    served,  \* served[r]: how often r was handed over; 2 stands for more
    page,    \* the metadata of the last page
    stayed,  \* rows that have been there all the time
    wrote    \* what the other sessions have done

vars == <<rows, job, pos, total, pc, served, page, stayed, wrote>>

-----------------------------------------------------------------------------
(* The rows a SELECT returns.                                              *)

Key(c, r) == IF c = "rank" THEN Rank[r] ELSE r

\* the possible first n rows of S: without ORDER BY any n
Firsts(c, S, n) ==
    {T \in SUBSET S : /\ T = S \/ Cardinality(T) = n
                      /\ Cardinality(T) <= n
                      /\ \A t \in T, s \in S \ T :
                            c = "none" \/ Key(c, t) < Key(c, s)}

\* ... LIMIT n OFFSET m
Slice(c, S, m, n) == UNION {Firsts(c, S \ T, n) : T \in Firsts(c, S, m)}

\* the first sort key: chunk and cursor_paginate add theirs after the user's
FirstKey ==
    CASE job.base = "ordered"   -> "rank"
      [] job.api = "chunk"      -> "id"
      [] job.api = "cursor"     -> job.col
      [] OTHER                  -> "none"

\* two LIMIT or two ORDER BY clauses: SelectBuilder appends its own as text
Malformed ==
    /\ job.layer = "select"
    /\ job.base = "limited" \/ (job.api = "cursor" /\ job.base = "ordered")

\* "starred OR true AND key > cursor": ModelQuery adds the cursor condition
\* with AND but without brackets
EscapesCursor(r) == job.layer = "model" /\ job.base = "either" /\ r \in Starred

AtOrAfter(token) == {r \in rows : Key(job.col, r) >= token \/ EscapesCursor(r)}
After(token) == {r \in rows : Key(job.col, r) > token \/ EscapesCursor(r)}

-----------------------------------------------------------------------------
(* The page types.                                                         *)

NoPage == [from |-> 0, to |-> 0, size |-> 0, more |-> FALSE]

LastFullPage(count, size) == IF size = 0 \/ count < size THEN 1 ELSE count \div size
LastPage(count, size) ==
    CASE size = 0 /\ count > 0 -> MaxU32
      [] size = 0 /\ count = 0 -> 1
      [] OTHER -> IF count = 0 THEN 1 ELSE (count + size - 1) \div size

Wrap(n) == n % (MaxU32 + 1)

\* the first row of page number p, computed in u32
FromSigned(p, size) == (p - 1) * size + 1
From(p, size) == Wrap(Wrap(Wrap(p - 1) * size) + 1)

Overflows(p, size) == p = 0 \/ (p - 1) * size + 1 > MaxU32

Page(data, count, size, p) ==
    LET n == Cardinality(data)
        from == IF n = 0 THEN 0 ELSE From(p, size)
    IN [from |-> from, to |-> from + (IF n = 0 THEN 0 ELSE n - 1), size |-> n,
        more |-> p < LastPage(count, size)]

Page_Panics(data, size, p) == job.debug /\ data # {} /\ Overflows(p, size)

\* the rows kept of the size + 1 asked for, for a SimplePage or a CursorPage
Kept(found, size) == Firsts(FirstKey, found, size)

PageOf(data, more) ==
    [from |-> 0, to |-> 0, size |-> Cardinality(data), more |-> more]

-----------------------------------------------------------------------------
(* The caller.                                                             *)

Init ==
    /\ rows \in SUBSET Ids
    /\ job \in Jobs
    /\ pos = (CASE job.api = "chunk" -> 0 [] job.api = "cursor" -> -1
                [] OTHER -> job.page)
    /\ total = 0
    /\ pc = "ask"
    /\ served = [r \in Ids |-> 0]
    /\ page = NoPage
    /\ stayed = rows
    /\ wrote = {}

\* SelectBuilder takes page and per_page 0 for 1, ModelQuery takes them as given
AsGiven(n) == n
AtLeast1(n) == IF n = 0 THEN 1 ELSE n
PerPage == IF job.layer = "select" THEN AtLeast1(job.size) ELSE job.size
PageNo == IF job.layer = "select" THEN AtLeast1(pos) ELSE pos
OffsetOverlaps == IF PageNo <= 1 THEN 0 ELSE (PageNo - 1) * PerPage - 1
OffsetFromZero == PageNo * PerPage
Offset == (IF PageNo = 0 THEN 0 ELSE PageNo - 1) * PerPage

Deliver(data) ==
    served' = [r \in Ids |-> IF r \in data /\ served[r] < 2
                             THEN served[r] + 1 ELSE served[r]]

Fail(how) ==
    /\ pc' = how
    /\ UNCHANGED <<rows, job, pos, total, served, page, stayed, wrote>>

\* one turn of the loop; the caller's closure may give up on any batch
Chunk ==
    /\ pc = "ask" /\ job.api = "chunk"
    /\ \E batch \in Slice(FirstKey, rows, pos, job.size) :
          /\ Deliver(batch)
          /\ page' = PageOf(batch, ~(Cardinality(batch) < job.size))
          /\ \/ pc' = "aborted" /\ UNCHANGED pos
             \/ Cardinality(batch) < job.size /\ pc' = "done" /\ UNCHANGED pos
             \/ ~(Cardinality(batch) < job.size) /\ pc' = "ask" /\ pos' = pos + job.size
    /\ UNCHANGED <<rows, job, total, stayed, wrote>>

Count ==
    /\ pc = "ask" /\ job.api = "paginate"
    /\ total' = Cardinality(rows)
    /\ pc' = "counted"
    /\ UNCHANGED <<rows, job, pos, served, page, stayed, wrote>>

Turn(data, p) ==
    /\ Deliver(data)
    /\ page' = p
    /\ pc' = IF p.more THEN "ask" ELSE "done"
    /\ UNCHANGED <<rows, job, total, stayed, wrote>>

PageByNumber ==
    \E data \in Slice(FirstKey, rows, Offset, PerPage) :
       \/ Page_Panics(data, PerPage, PageNo) /\ Fail("panicked")
       \/ /\ ~Page_Panics(data, PerPage, PageNo)
          /\ Turn(data, Page(data, total, PerPage, PageNo))
          /\ pos' = PageNo + 1

ModelPaginate == pc = "counted" /\ job.layer = "model" /\ PageByNumber

SelectPaginate ==
    /\ pc = "counted" /\ job.layer = "select"
    /\ IF Malformed THEN Fail("failed") ELSE PageByNumber

\* the rows to fetch, one more than the page holds: ModelQuery counts them in
\* usize, SelectBuilder in u32
OneMore == IF job.layer = "select" THEN Wrap(PerPage + 1) ELSE PerPage + 1
OneMore_Panics == job.layer = "select" /\ job.debug /\ PerPage = MaxU32

\* SelectBuilder's statement: it is not sent, or the server refuses it
Fails ==
    \/ OneMore_Panics /\ Fail("panicked")
    \/ ~OneMore_Panics /\ Malformed /\ Fail("failed")

\* the link to the next page is computed in u32
SimplePage_Panics(found) ==
    job.debug /\ Cardinality(found) > PerPage /\ PageNo = MaxU32

OneRowMore ==
    \E found \in Slice(FirstKey, rows, Offset, OneMore) :
       \/ SimplePage_Panics(found) /\ Fail("panicked")
       \/ /\ ~SimplePage_Panics(found)
          /\ \E data \in Kept(found, PerPage) :
                Turn(data, PageOf(data, Cardinality(found) > PerPage))
          /\ pos' = Wrap(PageNo + 1)

ModelSimplePaginate ==
    pc = "ask" /\ job.api = "simple" /\ job.layer = "model" /\ OneRowMore

SelectSimplePaginate ==
    /\ pc = "ask" /\ job.api = "simple" /\ job.layer = "select"
    /\ Fails \/ (~OneMore_Panics /\ ~Malformed /\ OneRowMore)

LastPageOfCursor(found) ==
    /\ ~(Cardinality(found) > PerPage)
    /\ Turn(found, PageOf(found, FALSE))
    /\ UNCHANGED pos

\* mutated forms: the cursor of the extra row; the extra row handed over too
CursorOfExtraRow(found) ==
    /\ Cardinality(found) > PerPage
    /\ \E data \in Kept(found, PerPage) : Turn(data, PageOf(data, TRUE))
    /\ \E last \in found :
          /\ \A r \in found : Key(FirstKey, r) <= Key(FirstKey, last)
          /\ pos' = last
ExtraRowHandedOver(found) ==
    /\ Cardinality(found) > PerPage
    /\ Turn(found, PageOf(found, TRUE))
    /\ \E data \in Kept(found, PerPage) :
       \E last \in data :
          /\ \A r \in data : Key(FirstKey, r) <= Key(FirstKey, last)
          /\ pos' = last
\* the cursor is the primary key of the last row kept, whatever the column
NextPageOfCursor(found) ==
    /\ Cardinality(found) > PerPage
    /\ \E data \in Kept(found, PerPage) :
          /\ Turn(data, PageOf(data, TRUE))
          /\ \E last \in data :
                /\ \A r \in data : Key(FirstKey, r) <= Key(FirstKey, last)
                /\ pos' = last

\* data[per_page - 1] for per_page 0
IndexPanics(found) == PerPage = 0 /\ found # {}

Keyset(found) == LastPageOfCursor(found) \/ NextPageOfCursor(found)

ModelCursorPaginate ==
    /\ pc = "ask" /\ job.api = "cursor" /\ job.layer = "model"
    /\ \E found \in Firsts(FirstKey, After(pos), PerPage + 1) :
          IF IndexPanics(found) THEN Fail("panicked") ELSE Keyset(found)

\* SelectBuilder cuts the extra row off before CursorPage::new looks for it, which
\* then drops the cursor: no page names another, whatever the column holds
SelectCursorPaginate ==
    /\ pc = "ask" /\ job.api = "cursor" /\ job.layer = "select"
    /\ \/ Fails
       \/ /\ ~OneMore_Panics /\ ~Malformed
          /\ \E found \in Firsts(FirstKey, After(pos), OneMore) :
             \E data \in Kept(found, PerPage) : LastPageOfCursor(data)

-----------------------------------------------------------------------------
(* The other sessions.                                                     *)

Running == pc \in {"ask", "counted"}

Insert(r) ==
    /\ Running /\ r \notin rows /\ Cardinality(wrote) < MaxWrites
    /\ rows' = rows \cup {r}
    /\ wrote' = wrote \cup {<<"insert", r>>}
    /\ UNCHANGED <<job, pos, total, pc, served, page, stayed>>

Delete(r) ==
    /\ Running /\ r \in rows /\ Cardinality(wrote) < MaxWrites
    /\ rows' = rows \ {r}
    /\ stayed' = stayed \ {r}
    /\ wrote' = wrote \cup {<<"delete", r>>}
    /\ UNCHANGED <<job, pos, total, pc, served, page>>

Paginate == ModelPaginate \/ SelectPaginate
SimplePaginate == ModelSimplePaginate \/ SelectSimplePaginate
CursorPaginate == ModelCursorPaginate \/ SelectCursorPaginate

Caller == Chunk \/ Count \/ Paginate \/ SimplePaginate \/ CursorPaginate

Next == Caller \/ \E r \in Ids : Insert(r) \/ Delete(r)

Spec == Init /\ [][Next]_vars

\* the caller goes on asking while it is told that there is more
FairSpec == Spec /\ WF_vars(Caller)

-----------------------------------------------------------------------------
(* Properties.                                                             *)

Over == ~Running

\* every variable stays within the values the code can give it
TypeOK ==
    /\ rows \subseteq Ids
    /\ job \in Jobs
    /\ pos \in Nat \cup {-1}
    /\ total \in Nat
    /\ pc \in {"ask", "counted", "done", "aborted", "failed", "panicked"}
    /\ served \in [Ids -> 0 .. 2]
    /\ page \in [from : 0 .. MaxU32, to : Nat, size : Nat, more : BOOLEAN]
    /\ stayed \subseteq rows

\* walks by cursor that order and filter by the column the cursor holds;
\* SelectBuilder's end with their first page
SteadyCursor ==
    /\ job.api = "cursor" /\ job.layer = "model" /\ job.col = "id"
    /\ job.base \notin {"ordered", "either"}

\* Whatever other sessions insert and delete between the pages, no row comes
\* twice: the cursor of each page is the key of its last kept row, so the next
\* statement starts strictly above everything handed over.
CursorOnce == SteadyCursor => \A r \in Ids : served[r] <= 1

\* ... and when there is no next cursor, every row that was there all the
\* time has been handed over: fetching one row more than the page is enough to
\* tell the last page, and truncating it does not lose the extra row.
CursorComplete ==
    SteadyCursor /\ pc = "done" => \A r \in stayed : served[r] = 1

\* pages by offset of a query that is sorted by a unique column; ModelQuery's
\* page 0 holds the rows of its page 1, and SelectBuilder's simple_paginate has
\* no room for the extra row of the largest page
SteadyOffset ==
    /\ job.api # "cursor" /\ FirstKey # "none"
    /\ job.api # "chunk" /\ job.layer = "model" => job.page > 0
    /\ job.api = "simple" /\ job.layer = "select" => PerPage < MaxU32

FromFirst == job.api \in {"chunk", "cursor"} \/ job.page <= 1

Inserted == \E r \in Ids : <<"insert", r>> \in wrote
Deleted == \E r \in Ids : <<"delete", r>> \in wrote

\* chunk, paginate and simple_paginate hand no row over twice unless somebody
\* inserts: a delete only moves rows towards the pages already read.
OffsetOnce ==
    SteadyOffset /\ ~Inserted => \A r \in Ids : served[r] <= 1

\* From the first page on they miss no row unless somebody deletes.  paginate
\* needs more: it stops at the page its COUNT named, and the row an insert
\* pushed onto a later page is never asked for.
OffsetComplete ==
    /\ SteadyOffset /\ FromFirst /\ pc = "done" /\ ~Deleted
    /\ job.api = "paginate" => wrote = {} /\ PerPage > 0
    => \A r \in stayed : served[r] >= 1

\* Numbered pages give every row that stays exactly once, as far as offsets can:
\* the two statements above.
OffsetSweeps == OffsetOnce /\ OffsetComplete

\* On a table nobody writes to, a page that holds rows says that there is more
\* exactly when there is, and a Page names the range of its rows.
PageTellsTheTruth ==
    /\ wrote = {} /\ page.size > 0 /\ job.api # "chunk"
    /\ SteadyOffset \/ SteadyCursor
    /\ pc \in {"ask", "done"} /\ FromFirst
    => LET handed == {r \in Ids : served[r] > 0}
       IN /\ page.more <=> rows \ handed # {}
          /\ job.api = "paginate" => /\ page.to = Cardinality(handed)
                                    /\ page.from = page.to - page.size + 1

\* jobs that are over after finitely many pages
Ending ==
    \/ job.layer = "select"
    \/ /\ job.size > 0
       /\ job.api = "cursor" => SteadyCursor

\* A caller that keeps asking comes to an end: each page moves the offset, the
\* page number or the cursor on, and the last page is recognised as such.
WalkEnds == (pc = "ask" /\ Ending) ~> Over

\* The keyset pages implement a sweep over the primary keys: see Sweep.  Other
\* jobs are mapped to an empty table.
Swept == INSTANCE Sweep WITH
    Keys <- Ids,
    Top <- MaxKey + 1,
    present <- IF SteadyCursor THEN rows ELSE {},
    mark <- IF ~SteadyCursor THEN -1 ELSE IF pc = "done" THEN MaxKey + 1 ELSE pos,
    swept <- IF SteadyCursor THEN {r \in Ids : served[r] > 0} ELSE {}

CursorIsASweep == Swept!Spec

\* cursor_paginate's comments allow any column that orders the rows, and promise
\* the next page's cursor; but see NextPageOfCursor and SelectCursorPaginate
EveryCursorComplete ==
    job.api = "cursor" /\ pc = "done" /\ job.base = "plain"
    => \A r \in stayed : served[r] = 1

=============================================================================
