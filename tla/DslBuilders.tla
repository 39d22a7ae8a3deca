--------------------------- MODULE DslBuilders ---------------------------
(***************************************************************************)
(* dsl/: what the methods of a column give, and SelectBuilder,             *)
(* InsertBuilder, UpdateBuilder and DeleteBuilder with their statements.   *)
(* In the select builder a table expression, a CTE and the right side of a *)
(* set operation are text without parameters.                              *)
(***************************************************************************)
EXTENDS CoreQuery

\* what the methods of a column, and of an aggregate or function of it, give
ColumnExprs(col, v, w) ==
    {Compare(op, col, v) : op \in {"=", "!=", ">", ">=", "<", "<=", "LIKE", "NOT LIKE", "ILIKE"}}
        \cup {Condition(op, col, <<v, w>>, <<>>) :
                op \in {"IN", "NOT IN", "= ANY", "BETWEEN", "NOT BETWEEN"}}
        \cup {IsNull(col), IsNotNull(col)}
AggCmp(op, agg, v) == Compare(op, agg, v)

Enclosed(sql) == <<Tok("(")>> \o sql \o <<Tok(")")>>

(***************************************************************************)
(* SelectBuilder.                                                          *)
(***************************************************************************)
SelectBuilder == [from |-> <<>>, ctes |-> <<>>, setOps |-> <<>>, joins |-> <<>>, wheres |-> <<>>,
                  orWheres |-> <<>>, havings |-> <<>>, opts |-> {}]

\* expressions one after the other, with a word between them
All(exprs, first, word) ==
    [i \in DOMAIN exprs |-> Expr(IF i = 1 THEN first ELSE <<Tok(word)>>, exprs[i])]

\* the wheres all together, OR the or_wheres all together
SelectWhereParts(s) ==
    IF s.orWheres = <<>> THEN All(s.wheres, <<Tok("WHERE")>>, "AND")
    ELSE IF s.wheres = <<>> THEN All(s.orWheres, <<Tok("WHERE")>>, "OR")
    ELSE All(s.wheres, <<Tok("WHERE"), Tok("(")>>, "AND")
            \o All(s.orWheres, <<Tok(")"), Tok("OR"), Tok("(")>>, "OR") \o <<Word(<<Tok(")")>>)>>

RenderJoins(acc, s, d) == Written(acc, [i \in DOMAIN s.joins |-> Expr(<<Tok("JOIN")>>, s.joins[i])], d)
RenderWhere(acc, s, d) == Written(acc, SelectWhereParts(s), d)
RenderHaving(acc, s, d) == Written(acc, All(s.havings, <<Tok("HAVING")>>, "AND"), d)

Opened(s, d) ==
    Put(Written(Fragment(IF s.ctes = <<>> THEN <<>> ELSE <<Tok("WITH")>>, <<>>),
                [i \in DOMAIN s.ctes |-> Word(Enclosed(s.ctes[i]))], d),
        <<Tok("SELECT")>> \o s.from)

SetOps(acc, s, d) ==
    Written(acc, [i \in DOMAIN s.setOps |-> Word(<<Tok(s.setOps[i].op)>> \o Enclosed(s.setOps[i].sql))], d)

RenderSelect(s, d) ==
    LET selected == Put(RenderWhere(RenderJoins(Opened(s, d), s, d), s, d), Clause(s, "GROUP BY"))
    IN  SetOps(Put(RenderHaving(selected, s, d), Clause(s, "ORDER BY") \o Clause(s, "LIMIT")
                                                    \o Clause(s, "OFFSET") \o Clause(s, "LOCK")), s, d)

\* mutant: the count without the CTEs
CountOfTable(s, d) ==
    RenderWhere(RenderJoins(Fragment(<<Tok("SELECT")>>, <<>>), s, d), s, d)

\* the count has the joins and the wheres: no or_wheres, groups, set operations, limit
CountSql(s, d) == RenderWhere(RenderJoins(Opened(s, d), s, d), [s EXCEPT !.orWheres = <<>>], d)

\* a builder put into another becomes text: its parameters are dropped
FromSubquery(s, sub) == [s EXCEPT !.from = Enclosed(RenderSelect(sub, "$").sql)]
SelectWithCte(s, sub) == [s EXCEPT !.ctes = Append(@, RenderSelect(sub, "$").sql)]
SelectSetOp(s, op, sub) ==
    [s EXCEPT !.setOps = Append(@, [op |-> op, sql |-> RenderSelect(sub, "$").sql])]

(***************************************************************************)
(* The writes: an insert with its conflict clause, an update, a delete.    *)
(***************************************************************************)
InsertBuilder == [data |-> <<>>, conflict |-> "none", sets |-> <<>>]

InsertValues(b, data) == [b EXCEPT !.data = @ \o data]
OnConflictDoNothing(b) == [b EXCEPT !.conflict = "nothing", !.sets = <<>>]
OnConflict(b)          == [b EXCEPT !.conflict = "update", !.sets = <<>>]
\* a set is a column with one value, or with none for EXCLUDED; without a
\* conflict target it is dropped
DoUpdate(b, sets) == IF b.conflict = "update" THEN [b EXCEPT !.sets = @ \o sets] ELSE b

InsertToSql(b, d) ==
    IF b.conflict = "none" THEN InsertSql(b.data, d)
    ELSE Written(Put(InsertSql(b.data, d), <<Tok("ON CONFLICT")>>),
                 [i \in DOMAIN b.sets |->
                    IF b.sets[i][2] = <<>> THEN Word(Excluded(b.sets[i][1]))
                    ELSE Expr(<<>>, Condition("SET", b.sets[i][1], b.sets[i][2], <<>>))], d)

UpdateBuilder == [data |-> <<>>, wheres |-> <<>>]

WritesWhere(acc, wheres, d) == Written(acc, All(wheres, <<Tok("WHERE")>>, "AND"), d)

UpdateToSql(b, d) == WritesWhere(SetClause(Fragment(<<Tok("UPDATE")>>, <<>>), b.data, d), b.wheres, d)

DeleteToSql(wheres) == WritesWhere(Fragment(<<Tok("DELETE")>>, <<>>), wheres, "$")
=============================================================================
