--------------------------- MODULE QueryMeaning ---------------------------
(***************************************************************************)
(* What the queries of ModelQuery have to mean: the rows a caller asked    *)
(* for, told from the conditions themselves and not from their text, and   *)
(* the properties of the statements that are made of them.                 *)
(***************************************************************************)
EXTENDS Bridge

CONSTANTS
    Related,        \* the rows of the related table
    MaxWidth        \* bound: the conditions side by side in one of a caller's conditions

\* A row has its columns, under "rel" the rows of the related table, and "mine",
\* which says of a related row whether its foreign key is the row it is under.
EveryRow == Table \cup Related

ASSUME RelatedAssumption == \A row \in EveryRow : row.rel \subseteq Related

\* the value NULL, in a row
NULL == 0

\* the tokens after which the text is one parenthesis deeper
Opening == {"(", "EXISTS", "NOT EXISTS"}

\* the tokens that say something of a row
Comparisons ==
    {"TRUE", "FALSE", "FK", "=", "!=", ">", ">=", "<", "<=", "LIKE", "NOT LIKE", "ILIKE", "IN", "NOT IN",
     "= ANY", "BETWEEN", "NOT BETWEEN", "IS NULL", "IS NOT NULL"}

\* A list without members holds for no row, and NOT IN of it for every row:
\* core/condition.rs writes 1=0 and 1=1 for them.  The tokens themselves, as
\* dsl/expr.rs writes them, are refused by PostgreSQL and MySQL (Refused).
LeafHolds(tok, row) ==
    LET v == [i \in DOMAIN tok.args |-> tok.args[i][2]]
        x == row[tok.col]
    IN  CASE tok.t = "TRUE"        -> TRUE
          [] tok.t = "FALSE"       -> FALSE
          [] tok.t = "FK"          -> row.mine
          [] tok.t \in {"=", "LIKE", "ILIKE"} -> x = v[1]
          [] tok.t \in {"!=", "NOT LIKE"}     -> x # v[1]
          [] tok.t = ">"           -> x > v[1]
          [] tok.t = ">="          -> x >= v[1]
          [] tok.t = "<"           -> x < v[1]
          [] tok.t = "<="          -> x <= v[1]
          [] tok.t \in {"IN", "= ANY"} -> x \in Range(v)
          [] tok.t = "NOT IN"      -> x \notin Range(v)
          [] tok.t = "BETWEEN"     -> v[1] <= x /\ x <= v[2]
          [] tok.t = "NOT BETWEEN" -> x < v[1] \/ v[2] < x
          [] tok.t = "IS NULL"     -> x = NULL
          [] tok.t = "IS NOT NULL" -> x # NULL

LeafRows(tok) == {row \in EveryRow : LeafHolds(tok, row)}

Refused(tok)  == tok.t \in ListOps /\ tok.args = <<>>
Compares(tok) == tok.t \in Comparisons /\ ~Refused(tok)

(***************************************************************************)
(* How a database reads a WHERE text, token by token: NOT binds closer     *)
(* than AND, AND closer than OR, and parentheses come first.  What it has  *)
(* read is a stack, the innermost parenthesis first: the word that opened  *)
(* it, the rows of the alternatives before the last OR, those of the       *)
(* conjunction after it, whether a NOT waits for its condition, and        *)
(* whether a condition has just ended.  The stack is empty once the text   *)
(* is refused for its syntax.                                              *)
(***************************************************************************)
Open(word) == [word |-> word, ors |-> {}, ands |-> EveryRow, not |-> FALSE, ended |-> FALSE]

\* a condition ends, one that holds for the rows x
Factor(f, x) ==
    [f EXCEPT !.ands = @ \cap (IF f.not THEN EveryRow \ x ELSE x), !.not = FALSE, !.ended = TRUE]

\* what a NOT, an AND and an OR make of it
Negated(f)  == [f EXCEPT !.not = ~f.not]
Continued(f) == [f EXCEPT !.ended = FALSE]

Holds(f) == f.ors \cup f.ands
Alternative(f) == [Open(f.word) EXCEPT !.ors = Holds(f)]
Exist(x) == {row \in EveryRow : row.rel \cap x # {}}
Closed(f) == CASE f.word = "(" -> Holds(f)
               [] f.word = "EXISTS" -> Exist(Holds(f))
               [] f.word = "NOT EXISTS" -> EveryRow \ Exist(Holds(f))

Onto(open, f) == <<f>> \o open

Read(open, tok) ==
    LET f      == Head(open)
        around == Tail(open)
    IN  IF open = <<>> THEN <<>>
        ELSE IF f.ended
        THEN CASE tok.t = "AND" -> Onto(around, Continued(f))
               [] tok.t = "OR"  -> Onto(around, Alternative(f))
               [] tok.t = ")" /\ around # <<>> -> Onto(Tail(around), Factor(Head(around), Closed(f)))
               [] OTHER -> <<>>
        ELSE CASE Compares(tok)       -> Onto(around, Factor(f, LeafRows(tok)))
               [] tok.t \in Opening     -> Onto(open, Open(tok.t))
               [] tok.t = "NOT"         -> Onto(around, Negated(f))
               [] OTHER -> <<>>

\* the stack after a text, from the one before it
Parsed(open, text) ==
    LET P[n \in 0 .. Len(text)] == IF n = 0 THEN open ELSE Read(P[n - 1], text[n])
    IN  P[Len(text)]

\* the rows a condition selects, told from its text
Selected(text) ==
    LET end == Parsed(<<Open("(")>>, text)
    IN  IF Len(end) = 1 /\ end[1].ended THEN Holds(end[1]) ELSE {}

\* a text that is one condition wherever it is put: nothing before its end is
Atom(text) ==
    LET After(n) == Parsed(<<Open("(")>>, SubSeq(text, 1, n))
        Ends(n)  == Len(After(n)) = 1 /\ After(n)[1].ended
    IN  Ends(Len(text)) /\ \A n \in 0 .. Len(text) - 1 : ~Ends(n)

(***************************************************************************)
(* The meaning of a condition or an expression, and of a chain of them, of *)
(* which each selects rows[i]: AND binds closer than OR.  A meaning is     *)
(* told from those of the trees inside.                                    *)
(***************************************************************************)
Common(sets) == {row \in EveryRow : \A x \in sets : row \in x}

\* the conditions that AND joins to the i-th, itself among them
JoinedTo(list, i) == {k \in i .. Len(list) : \A m \in i + 1 .. k : list[m].join = "AND"}

Chain(list, rows) ==
    IF list = <<>> THEN EveryRow
    ELSE UNION {Common({rows[k] : k \in JoinedTo(list, i)}) :
                    i \in {j \in DOMAIN list : j = 1 \/ list[j].join = "OR"}}

MeansIn(inside, c) ==
    LET chain == Chain(c.sub, [i \in DOMAIN c.sub |-> inside[c.sub[i].cond]])
        mine  == {row \in chain : row.mine}
    IN  CASE c.op = "GROUP"      -> chain
          [] c.op = "EXISTS"     -> Exist(mine)
          [] c.op = "NOT EXISTS" -> EveryRow \ Exist(mine)
          [] c.op = "AND"        -> inside[c.sub[1]] \cap inside[c.sub[2]]
          [] c.op = "OR"         -> inside[c.sub[1]] \cup inside[c.sub[2]]
          [] c.op = "NOT"        -> EveryRow \ inside[c.sub[1]]
          [] c.op = "RAW"        -> Selected(c.sub)
          [] OTHER -> LeafRows(Leaf(c.op, c.col, [i \in DOMAIN c.vals |-> <<"v", c.vals[i]>>]))

Means(c) == Deep(MeansIn, c)

ChainMeans(list) == Chain(list, [i \in DOMAIN list |-> Means(list[i].cond)])

\* a chain whose ANDs all stand before its ORs reads the same from left to
\* right; the word of the first condition counts, as the bridge reads it
OrsLast(list) == \A i, k \in DOMAIN list : (i < k /\ list[i].join = "OR") => list[k].join = "OR"

NoOr(list) == \A i \in DOMAIN list : 1 < i => list[i].join = "AND"

\* the operators of the chains inside a condition, at every depth, with them
Subqueries == {"GROUP", "EXISTS", "NOT EXISTS"}
ChainsIn(inside, c) ==
    IF c.op \in Subqueries THEN {<<c.op, c.sub>>} \cup UNION {inside[c.sub[i].cond] : i \in DOMAIN c.sub}
    ELSE {}
ChainsOf(c) == Deep(ChainsIn, c)
Nested(list) == UNION {ChainsOf(list[i].cond) : i \in DOMAIN list}

(***************************************************************************)
(* The conditions and expressions that a WHERE can be made of: operators   *)
(* that say something of a row, groups that are not empty, and raw texts   *)
(* that are one condition each.  A statement is long enough for what the   *)
(* calls, the scopes and the soft delete filter put into a WHERE.          *)
(***************************************************************************)
Logic == {"AND", "OR", "NOT"}

IsChain(list, trees) ==
    /\ Len(list) <= MaxWidth
    /\ \A i \in DOMAIN list : /\ list[i].join \in {"AND", "OR"}
                              /\ list[i].cond \in trees /\ list[i].cond.op \notin Logic

ReadableIn(inside, c) ==
    \/ c.op \in Comparisons
    \/ c.op = "RAW" /\ Atom(c.sub)
    \/ c.op \in Subqueries /\ IsChain(c.sub, inside) /\ (c.op = "GROUP" => c.sub # <<>>)
    \/ c.op \in Logic /\ \A i \in DOMAIN c.sub : c.sub[i] \in inside /\ c.sub[i].op \notin Subqueries

\* those that are at most n deep, and the parts of one of them
Readable[n \in Nat] == IF n = 0 THEN {} ELSE {c \in Trees : ReadableIn(Readable[n - 1], c)}
MostParts[n \in Nat] == IF n = 0 THEN 0 ELSE 3 + MaxWidth * MostParts[n - 1]

\* no OR in a subquery
Straight(chains) == \A n \in chains : n[1] # "GROUP" => NoOr(n[2])

\* those that a caller or a scope can bring: a level deeper
ReadableTree(c) == ReadableIn(Readable[MaxDepth], c)

ASSUME ReadableAssumption ==
    /\ MaxDepth \in Nat /\ MaxWidth \in Nat \ {0, 1} /\ MaxCalls \in Nat
    /\ MaxParts >= (MaxCalls + Len(Scopes) + 2) * MostParts[MaxDepth + 1]
    /\ \A c \in Conds \cup Range(Scopes) : ReadableTree(c) /\ c.op \notin Logic
    /\ \A e \in Exprs : ReadableTree(e) /\ e.op \notin Subqueries
    /\ \A inner \in Inners : IsChain(inner, Readable[MaxDepth])
    /\ \A c \in Range(Scopes) : Straight(ChainsOf(c))

(***************************************************************************)
(* What a caller can ask for and not be answered, each for a reason in the *)
(* code.                                                                   *)
(***************************************************************************)
\* A list without members, where dsl/expr.rs writes it: an EXISTS goes over the
\* bridge as core's text, in which 1=0 or 1=1 stands for it.
FilledIn(inside, c) ==
    /\ c.op \in {"IN", "NOT IN"} => c.vals # <<>>
    /\ c.op \in Logic => \A i \in DOMAIN c.sub : c.sub[i] \in inside
    /\ c.op = "GROUP" => \A i \in DOMAIN c.sub : c.sub[i].cond \in inside
    /\ c.op = "RAW" => \A i \in DOMAIN c.sub : ~Refused(c.sub[i])

Filled[n \in Nat] == IF n = 0 THEN {} ELSE {c \in Trees : FilledIn(Filled[n - 1], c)}
FilledTrees == Filled[MaxDepth]
IsFilled(c) == FilledIn(FilledTrees, c)

\* in a model query an expression becomes a condition, but NOT keeps the text
FilledAsCondIn(inside, e) ==
    /\ e.op = "NOT" => IsFilled(e)
    /\ e.op \in {"AND", "OR"} => \A i \in 1 .. 2 : inside[e.sub[i]]
EmptyExprs == {e \in Exprs : ~Deep(FilledAsCondIn, e)}
WritesEmptyList(c) == IF kind = "model" THEN c \in EmptyExprs ELSE ~IsFilled(c)

\* an EqAny that goes through expr_to_condition, which makes TRUE of it
HasAny(inside, e) == e.op = "= ANY" \/ (e.op \in {"AND", "OR"} /\ \E i \in 1 .. 2 : inside[e.sub[i]])
AnyExprs == {e \in Exprs : Deep(HasAny, e)}
MeetsWildcard(c) == kind = "model" /\ c \in AnyExprs

\* ILIKE, and = ANY where it is not a condition of core, outside PostgreSQL
OperatorsIn(inside, c) ==
    CASE c.op = "RAW" -> {tok.t : tok \in Range(c.sub)}
      [] c.op \in Logic -> UNION {inside[c.sub[i]] : i \in DOMAIN c.sub}
      [] c.op \in Subqueries -> UNION {inside[c.sub[i].cond] : i \in DOMAIN c.sub}
      [] OTHER -> {c.op}
IsForeign(d, c) ==
    LET postgres == {"ILIKE"} \cup (IF kind = "model" /\ c \notin Exprs THEN {} ELSE {"= ANY"})
    IN  d = "?" /\ Deep(OperatorsIn, c) \cap postgres # {}

WhereRows(where) ==
    LET text == Bind(where.sql, where.ps)
    IN  Table \cap (IF text = <<>> THEN EveryRow ELSE Selected(Tail(text)))

ModelRows(b, d)  == WhereRows(BuildWhere(Blank, b, d))
SelectRows(s, d) == WhereRows(RenderWhere(Blank, s, d))

\* the conditions asked of a model query are a chain; a select keeps the ANDs
\* and the ORs apart
Wanted ==
    LET Of(join) == {Means(asked[i].cond) : i \in {k \in DOMAIN asked : asked[k].join = join}}
    IN  IF kind = "model" THEN ChainMeans(asked)
        ELSE IF asked = <<>> THEN EveryRow
        ELSE (IF Of("AND") = {} THEN {} ELSE Common(Of("AND"))) \cup UNION Of("OR")

AsAsked(d) ==
    (kind \in {"model", "select"} /\ Straight(Nested(asked)))
    => (IF kind = "model" THEN ModelRows(q, d) ELSE SelectRows(sel, d)) = Table \cap Wanted

\* The rows the WHERE text selects, parsed with SQL's precedence and with its
\* parameters bound, are the rows the calls asked for.  Left out are an EqAny
\* that goes through expr_to_condition, an OR inside a where_has, an empty IN or
\* NOT IN that the DSL writes, and what only PostgreSQL knows in a text for the
\* others.
RowsAsAsked ==
    \A d \in {"$", "?"} :
        (\A i \in DOMAIN asked : LET c == asked[i].cond
                                 IN  ~WritesEmptyList(c) /\ ~MeetsWildcard(c) /\ ~IsForeign(d, c))
        => AsAsked(d)

\* The same with every expression: the wildcard of expr_to_condition, which
\* makes TRUE of what reaches it, "handles future variants" (bridge.rs:59).
EveryExprAsAsked ==
    \A d \in {"$", "?"} :
        (\A i \in DOMAIN asked : ~WritesEmptyList(asked[i].cond) /\ ~IsForeign(d, asked[i].cond)) => AsAsked(d)

\* The same with every list: "[]" for IN selects no row and for NOT IN every row,
\* as condition.rs:235-249 has it, and dsl/expr.rs:151-179 writes a text that is refused.
EveryListAsAsked ==
    \A d \in {"$", "?"} :
        (\A i \in DOMAIN asked : ~MeetsWildcard(asked[i].cond) /\ ~IsForeign(d, asked[i].cond)) => AsAsked(d)

InScope(row) == /\ unscoped \/ \A i \in DOMAIN Scopes : row \in Means(Scopes[i])
                /\ trashed \/ row[SoftColumn] = NULL

\* A query without or_where reads no soft-deleted row and none outside the
\* global scopes, unless it was told to (scopes.rs, into_final_builder): the
\* filters come last and hold for the whole chain, groups and exists included.
ScopesHold ==
    (kind = "model" /\ NoOr(asked)) => \A row \in ModelRows(IntoFinalBuilder, "$") : InScope(row)

\* The same of every query, or_where or not: "Global scope - applied
\* automatically to every query for a model" (docs/api/orm.md:138).
ScopesAlwaysHold ==
    kind = "model" => \A row \in ModelRows(IntoFinalBuilder, "$") : InScope(row)

\* into_dsl selects the rows the model query would have selected, when no AND
\* follows an OR: the DSL keeps the ANDs and the ORs apart and folds a group
\* from left to right (model_query_into_select, group_to_expr).  Left out is an
\* IN or NOT IN of nothing, which core rewrites and the DSL does not.
BridgeKeepsRows ==
    LET b == IntoFinalBuilder
    IN  (/\ kind = "model" /\ OrsLast(b.conds) /\ \A n \in Nested(b.conds) : OrsLast(n[2])
         /\ \A i \in DOMAIN b.conds : IsFilled(b.conds[i].cond))
        => SelectRows(ModelQueryIntoSelect(b), "$") = ModelRows(b, "$")

\* The same with such lists, which core/condition.rs answers: what "simple
\* conditions (Eq, Ne, In, etc.)" become is a "typed DSL Expr" (bridge.rs:67), and
\* its text is refused.
BridgeKeepsLists ==
    LET b == IntoFinalBuilder
    IN  (kind = "model" /\ OrsLast(b.conds) /\ \A n \in Nested(b.conds) : OrsLast(n[2]))
        => SelectRows(ModelQueryIntoSelect(b), "$") = ModelRows(b, "$")

TypeOK ==
    /\ kind \in {"model", "select", "insert", "update"}
    /\ trashed \in BOOLEAN /\ unscoped \in BOOLEAN
    /\ calls \in 0 .. MaxCalls
    /\ q.opts \cup sel.opts \subseteq {"JOIN", "GROUP BY", "HAVING", "WINDOW", "ORDER BY", "LIMIT",
                                      "OFFSET", "LOCK"}
=============================================================================
