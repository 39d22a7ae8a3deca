---------------------------- MODULE ModelQuery ----------------------------
(***************************************************************************)
(* A caller who builds a query call by call: orm/model_query.rs over the   *)
(* query builder of core/query.rs, or one of the DSL's own builders, and   *)
(* how parameters meet their placeholders in the statements of each.       *)
(*                                                                         *)
(* kind      which builder the caller holds                                *)
(* q         the query builder of the model query                          *)
(* trashed   include_trashed: with_trashed or only_trashed was called      *)
(* unscoped  skip_scopes: without_global_scopes was called                 *)
(* sel, ins, upd   the DSL builders                                        *)
(* asked     history: what the caller has asked for, call by call          *)
(* calls     the number of calls so far, at most MaxCalls                  *)
(***************************************************************************)
EXTENDS DslBuilders

CONSTANTS
    Names,          \* the words of a statement and the columns
    Values,         \* the values a caller has
    Trees,          \* the conditions and expressions, and those inside them
    Queries,        \* the query builders put into others, and those inside them
    Conds,          \* conditions a caller adds
    Inners,         \* lists of conditions inside a group or a where_has
    Exprs,          \* expressions of the DSL
    Joins,          \* the ON expressions of a caller's joins
    Havings,        \* the HAVING expressions of a caller
    SubQueries,     \* query builders given as CTE or right of a set operation
    SubSelects,     \* the same for the DSL
    Pairs,          \* lists of columns with a value, for the writes
    Sets,           \* what a conflict updates: columns with a value or none
    Scopes,         \* the global scopes registered for the model
    SoftColumn,     \* its soft delete column
    Table,          \* the rows of its table
    MaxCalls

(***************************************************************************)
(* What a caller's trees and builders are made of: the condition of each   *)
(* operator has inside it what its rendering looks for.  A raw text brings *)
(* its values with it and holds no placeholder.                            *)
(***************************************************************************)
Data == Seq(Names \X Values)
Literals == {"v"} \X Values
RawTokens == [t : Names \ {"SELECT"}, col : Names, args : Seq(Literals)]
RawTexts == Seq(RawTokens)
CondsOf(trees) == Seq([join : Names, cond : trees])

WellFormed(c, trees) ==
    /\ c = Condition(c.op, c.col, c.vals, c.sub)
    /\ c.op \in Names /\ c.op # "SELECT" /\ c.col \in Names /\ c.vals \in Seq(Values)
    /\ c.op = "RAW" => c.sub \in RawTexts
    /\ c.op \in {"GROUP", "EXISTS", "NOT EXISTS"} => c.sub \in CondsOf(trees)
    /\ c.op \in {"AND", "OR"} => c.sub \in trees \X trees
    /\ c.op \in {"NOT", "WHEN"} => c.sub \in {<<e>> : e \in trees}
    /\ c.op = "CASE" => c.sub \in Seq(trees)
    /\ c.op = "ROW" => c.sub \in Data

BuildersOf(trees) ==
    [conds : CondsOf(trees), ctes : Seq(Queries), setOp : Seq([op : Names, rhs : Queries]),
     opts : SUBSET Names]

\* any text, as a builder that was put into another has become
Slots == ({"$"} \X Nat) \cup {<<"?", 0>>} \cup Literals
Tokens == [t : Names, col : Names, args : Seq(Slots)]
Texts == Seq(Tokens)

SelectsOf(trees) ==
    [from : Texts, ctes : Seq(Texts), setOps : Seq([op : Names, sql : Texts]), joins : Seq(trees),
     wheres : Seq(trees), orWheres : Seq(trees), havings : Seq(trees), opts : SUBSET Names]

Keywords ==
    {"SELECT", "INSERT", "UPDATE", "DELETE", "WITH", "JOIN", "WHERE", "GROUP BY", "HAVING", "WINDOW",
     "ORDER BY", "LIMIT", "OFFSET", "LOCK", "SET", "ON CONFLICT", "EXCLUDED", "UNION", "(", ")", "AND", "OR",
     "NOT", "CASE", "WHEN", "THEN", "ELSE", "END", "RAW", "GROUP", "ROW", "EXISTS", "NOT EXISTS", "FK",
     "TRUE", "FALSE", "IN", "NOT IN", "= ANY", "=", "!=", ">", ">=", "<", "<=", "LIKE", "IS NULL",
     "IS NOT NULL"}

ASSUME CallerAssumption ==
    /\ Keywords \cup {"a", "t", "rel", NoColumn} \subseteq Names
    /\ {2, 7, 8} \subseteq Values
    /\ \A c \in Trees : WellFormed(c, Trees)
    /\ Queries \subseteq BuildersOf(Trees)
    /\ Conds \cup Exprs \cup Joins \cup Havings \subseteq Trees
    /\ Inners \subseteq CondsOf(Trees)
    /\ SubQueries \subseteq Queries
    /\ SubSelects \subseteq SelectsOf(Trees)
    /\ Pairs \subseteq Data
    /\ Sets \subseteq Seq(Names \X ({<<>>} \cup {<<v>> : v \in Values}))
    /\ Scopes \in Seq(Trees)
    /\ SoftColumn \in Names

VARIABLES kind, q, trashed, unscoped, sel, ins, upd, asked, calls

vars == <<kind, q, trashed, unscoped, sel, ins, upd, asked, calls>>
flags == <<trashed, unscoped>>

Init ==
    /\ kind \in {"model", "select", "insert", "update"}
    /\ q = QueryBuilder /\ trashed = FALSE /\ unscoped = FALSE
    /\ sel = SelectBuilder /\ ins = InsertBuilder /\ upd = UpdateBuilder
    /\ asked = <<>> /\ calls = 0

Call(k) == kind = k /\ calls < MaxCalls /\ calls' = calls + 1

ApplyScopes(b) == [b EXCEPT !.conds = @ \o [i \in DOMAIN Scopes |-> Joined("AND", Scopes[i])]]

\* mutant: skipping the scopes skips the soft delete filter too
ScopesOrNothing == IF unscoped THEN q ELSE Push(ApplyScopes(q), "AND", IsNull(SoftColumn))

\* what is sent: the scopes and the soft delete filter come last
IntoFinalBuilder ==
    LET scoped == IF unscoped THEN q ELSE ApplyScopes(q)
    IN  IF trashed THEN scoped ELSE Push(scoped, "AND", IsNull(SoftColumn))

\* the history: a filter the caller asks for, or none
Ask(join, c) == asked' = Append(asked, Joined(join, c))
AskNothing   == asked' = asked

(***************************************************************************)
(* The calls of a model query, those of its query builder among them.      *)
(***************************************************************************)
OnModel(b) == /\ Call("model") /\ q' = b
              /\ UNCHANGED <<kind, sel, ins, upd>>

Where(join, c) ==
    /\ OnModel(IF join = "AND" THEN AndWhere(q, c) ELSE OrWhere(q, c))
    /\ Ask(join, c) /\ UNCHANGED flags
\* the value goes into the text when the operator is not one of the six
WhereColumn(op, v) ==
    OnModel(WhereOp(q, "a", op, v)) /\ Ask("AND", Compare(op, "a", v)) /\ UNCHANGED flags

WhereInGroup(join, inner) ==
    /\ OnModel(WhereGroup(q, join, inner))
    /\ IF inner = <<>> THEN AskNothing ELSE Ask(join, Group(inner))
    /\ UNCHANGED flags

\* has, doesnt_have, where_has, where_doesnt_have
WhereHas(exists, inner) ==
    LET c == Subquery(exists, "rel", inner)
    IN  OnModel(Push(q, "AND", c)) /\ Ask("AND", c) /\ UNCHANGED flags

WithTrashed == OnModel(q) /\ trashed' = TRUE /\ AskNothing /\ UNCHANGED unscoped
OnlyTrashed ==
    /\ OnModel(Push(q, "AND", IsNotNull(SoftColumn)))
    /\ trashed' = TRUE
    /\ Ask("AND", IsNotNull(SoftColumn)) /\ UNCHANGED unscoped
WithoutGlobalScopes == OnModel(q) /\ unscoped' = TRUE /\ AskNothing /\ UNCHANGED trashed

\* the calls that bring no parameter
AddClause ==
    /\ \E b \in {WithJoin(q), WithOrder(q), WithWindow(q), WithLock(q)}
                \cup WithGroup(q) \cup WithLimit(q) : OnModel(b)
    /\ AskNothing /\ UNCHANGED flags
AddCte(sub)       == OnModel(WithCte(q, sub)) /\ AskNothing /\ UNCHANGED flags
AddSetOp(op, sub) == OnModel(WithSetOp(q, op, sub)) /\ AskNothing /\ UNCHANGED flags

(***************************************************************************)
(* The calls of the DSL builders.                                          *)
(***************************************************************************)
OnSelect(s) == /\ Call("select") /\ sel' = s
               /\ UNCHANGED <<kind, q, trashed, unscoped, ins, upd>>

SelWhere(e)   == OnSelect([sel EXCEPT !.wheres = Append(@, e)]) /\ Ask("AND", e)
SelOrWhere(e) == OnSelect([sel EXCEPT !.orWheres = Append(@, e)]) /\ Ask("OR", e)
SelHaving(e)  == OnSelect([sel EXCEPT !.havings = Append(@, e)]) /\ AskNothing
SelJoin(on)   == OnSelect([sel EXCEPT !.joins = Append(@, on)]) /\ AskNothing
SelClause ==
    \E c \in {"GROUP BY", "ORDER BY", "LIMIT", "OFFSET", "LOCK"} :
        OnSelect(WithClause(sel, c)) /\ AskNothing
SelFrom(sub)  == OnSelect(FromSubquery(sel, sub)) /\ AskNothing
SelCte(sub)   == OnSelect(SelectWithCte(sel, sub)) /\ AskNothing
SelSetOp(op, sub) == OnSelect(SelectSetOp(sel, op, sub)) /\ AskNothing

OnInsert(b) == /\ Call("insert") /\ ins' = b /\ AskNothing
               /\ UNCHANGED <<kind, q, trashed, unscoped, sel, upd>>

InsValues(data)   == OnInsert(InsertValues(ins, data))
InsDoNothing      == OnInsert(OnConflictDoNothing(ins))
InsOnConflict     == OnInsert(OnConflict(ins))
InsDoUpdate(sets) == OnInsert(DoUpdate(ins, sets))

OnUpdate(b) == /\ Call("update") /\ upd' = b /\ AskNothing
               /\ UNCHANGED <<kind, q, trashed, unscoped, sel, ins>>

UpdSet(data) == OnUpdate([upd EXCEPT !.data = @ \o data])
UpdWhere(e)  == OnUpdate([upd EXCEPT !.wheres = Append(@, e)])

Next ==
    \/ \E j \in {"AND", "OR"} :
            \/ \E c \in Conds : Where(j, c)
            \/ \E inner \in Inners : WhereInGroup(j, inner)
    \/ \E op \in {">=", "LIKE"} : WhereColumn(op, 2)
    \/ \E inner \in Inners, exists \in BOOLEAN : WhereHas(exists, inner)
    \/ WithTrashed \/ OnlyTrashed \/ WithoutGlobalScopes
    \/ AddClause \/ SelClause
    \/ \E sub \in SubQueries : AddCte(sub) \/ AddSetOp("UNION", sub)
    \/ \E e \in Exprs : SelWhere(e) \/ SelOrWhere(e) \/ UpdWhere(e)
    \/ \E e \in Havings : SelHaving(e)
    \/ \E e \in Joins : SelJoin(e)
    \/ \E sub \in SubSelects : SelFrom(sub) \/ SelCte(sub) \/ SelSetOp("UNION", sub)
    \/ \E data \in Pairs : InsValues(data) \/ UpdSet(data)
    \/ \E sets \in Sets : InsDoUpdate(sets)
    \/ InsDoNothing \/ InsOnConflict

Spec == Init /\ [][Next]_vars

-----------------------------------------------------------------------------
(* Properties of the statements.                                           *)

\* a builder whose subqueries bring parameters the DSL would drop
TakesNoParams(s) ==
    \A text \in {s.from} \cup Range(s.ctes) \cup {s.setOps[i].sql : i \in DOMAIN s.setOps} :
        \A i \in DOMAIN text : text[i].args = <<>>

UpdatePairs == <<<<"a", 7>>, <<"t", 8>>>>

BuilderBinds(b) ==
    /\ \A d \in {"$", "?"} :
        /\ Binds(ToSql(b, d), ToSql(b, "v"))
        /\ Binds(ToCountSql(b, d), ToCountSql(b, "v"))
        /\ b.conds # <<>> => Binds(ToDeleteSql(b, d), ToDeleteSql(b, "v"))
        /\ (b.conds # <<>> /\ (d = "?" \/ BuildCtes(b, "$").ps = <<>>))
            => Binds(ToUpdateSql(b, UpdatePairs, d), ToUpdateSql(b, UpdatePairs, "v"))
    /\ Asked(ToAggregateSql(b).sql) = DOMAIN ToAggregateSql(b).ps

SelectBinds(s) ==
    TakesNoParams(s) =>
        \A d \in {"$", "?"} :
            /\ Binds(RenderSelect(s, d), RenderSelect(s, "v"))
            /\ Binds(CountSql(s, d), CountSql(s, "v"))

InsertBinds(b) ==
    LET rows == <<b.data, b.data>>
    IN  /\ Binds(InsertToSql(b, "$"), InsertToSql(b, "v"))
        /\ Binds(BulkInsertSql(rows, "$"), BulkInsertSql(rows, "v"))
        /\ Binds(UpsertSql(b.data, {"a"}, "$"), UpsertSql(b.data, {"a"}, "v"))

UpdateBinds(b) == b.data # <<>> => Binds(UpdateToSql(b, "$"), UpdateToSql(b, "v"))

\* Whatever calls were made, each placeholder of each statement is bound to the
\* value given for its place, however CTEs, set operations, joins, groups,
\* subqueries, CASE and HAVING shift the numbers (condition.rs, query.rs, dsl/).
\* Left out are an UPDATE with CTEs on PostgreSQL, whose SET is numbered from 1,
\* and DSL builders put into others, whose parameters are dropped.
PlaceholdersBound ==
    CASE kind = "model"  -> BuilderBinds(IntoFinalBuilder)
      [] kind = "select" -> SelectBinds(sel)
      [] kind = "insert" -> InsertBinds(ins)
      [] kind = "update" -> UpdateBinds(upd)

\* A select's count counts the rows the select returns, when it has neither
\* or_where, HAVING, GROUP BY, set operation nor limit: what paginate divides
\* into pages is what it then reads (count_sql and render).
CountAgrees ==
    (/\ kind = "select"
     /\ sel.orWheres = <<>> /\ sel.havings = <<>> /\ sel.setOps = <<>>
     /\ sel.opts \cap {"GROUP BY", "LIMIT", "OFFSET"} = {})
    => LET full  == RenderSelect([sel EXCEPT !.opts = {}], "$")
           count == CountSql(sel, "$")
       IN  Bind(full.sql, full.ps) = Bind(count.sql, count.ps)
=============================================================================
