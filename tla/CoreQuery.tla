---------------------------- MODULE CoreQuery ----------------------------
(***************************************************************************)
(* core/query.rs: QueryBuilder, as a record, and the statements it makes.  *)
(*                                                                         *)
(* A builder has its conditions, its common table expressions (builders),  *)
(* at most one set operation with the builder on its right, and the set    *)
(* "opts" of the clauses that carry no parameter: JOIN, GROUP BY, HAVING,  *)
(* WINDOW, ORDER BY, LIMIT, OFFSET and LOCK.  The dialect d is "$" for     *)
(* PostgreSQL and "?" for SQLite and MySQL; with "v" the same statement    *)
(* has its values written out, which is what the caller asked for.         *)
(***************************************************************************)
EXTENDS Conditions

CONSTANT MaxParts   \* bound: the parts of one statement

ASSUME MaxPartsAssumption == MaxParts \in Nat

QueryBuilder == [conds |-> <<>>, ctes |-> <<>>, setOp |-> <<>>, opts |-> {}]

Push(q, join, cond) == [q EXCEPT !.conds = Append(@, Joined(join, cond))]

\* where_eq, where_in, where_raw, ... and their or_ twins
AndWhere(q, c) == Push(q, "AND", c)
OrWhere(q, c)  == Push(q, "OR", c)

\* the operators where_op knows; any other becomes raw text with the value in it
WhereOp(q, col, op, v) ==
    AndWhere(q, IF op \in {"=", "!=", ">", ">=", "<", "<="} THEN Compare(op, col, v)
                ELSE Raw(<<Leaf(op, col, <<<<"v", v>>>>)>>))

\* mutant: a group without its parentheses
Spliced(q, join, inner) == [q EXCEPT !.conds = @ \o inner]
WhereGroup(q, join, inner) == IF inner = <<>> THEN q ELSE Push(q, join, Group(inner))

\* the clauses without parameters; HAVING may stand alone, nowait changes a lock
WithClause(q, clause) == [q EXCEPT !.opts = @ \cup {clause}]
WithJoin(q)   == WithClause(q, "JOIN")
WithGroup(q)  == {WithClause(q, c) : c \in {"GROUP BY", "HAVING"}}
WithWindow(q) == WithClause(q, "WINDOW")
WithOrder(q)  == WithClause(q, "ORDER BY")
WithLimit(q)  == {WithClause(q, c) : c \in {"LIMIT", "OFFSET"}}
\* mutant: a lock that takes its wait mode with it
LockAndWait(q) == [q EXCEPT !.opts = @ \cup {"LOCK", "NOWAIT"}]
WithLock(q)   == WithClause(q, "LOCK")
WithCte(q, sub) == [q EXCEPT !.ctes = Append(@, sub)]
\* a second set operation replaces the first
WithSetOp(q, op, rhs) == [q EXCEPT !.setOp = <<[op |-> op, rhs |-> rhs]>>]

\* $n becomes $(n + offset) in a text that is put after other parameters
RenumberParams(text, offset) ==
    LET Shift(s) == IF s[1] = "$" THEN <<"$", s[2] + offset>> ELSE s
    IN  [i \in DOMAIN text |->
            Leaf(text[i].t, text[i].col, [j \in DOMAIN text[i].args |-> Shift(text[i].args[j])])]

Clause(q, c) == IF c \in q.opts THEN <<Tok(c)>> ELSE <<>>
Ending(q) == Clause(q, "GROUP BY") \o Clause(q, "HAVING") \o Clause(q, "WINDOW") \o Clause(q, "ORDER BY")
                \o Clause(q, "LIMIT") \o Clause(q, "OFFSET") \o Clause(q, "LOCK")

WhereParts(q) == Chained(q.conds, <<Tok("WHERE")>>)

\* the CTEs, SELECT and the joins, and the WHERE after them
CteParts(q) ==
    <<Word(IF q.ctes = <<>> THEN <<>> ELSE <<Tok("WITH")>>)>>
        \o [i \in DOMAIN q.ctes |-> Part("cte", <<Tok("(")>>, q.ctes[i])]
SelectParts(q) == CteParts(q) \o <<Word(<<Tok("SELECT")>> \o Clause(q, "JOIN"))>> \o WhereParts(q)
QueryParts(q) ==
    SelectParts(q) \o <<Word(Ending(q))>>
        \o [i \in DOMAIN q.setOp |-> Part("right", <<Tok(q.setOp[i].op), Tok("SELECT")>>, q.setOp[i].rhs)]

(***************************************************************************)
(* Writing the parts one after the other.  A query inside another is       *)
(* rendered on its own, from $1 on, while the statement around it waits in *)
(* the part that ends the query; then its text is put after it, with its   *)
(* numbers shifted.                                                        *)
(***************************************************************************)
PutShifted(acc, r, text) == Fragment(acc.sql \o RenumberParams(text, Len(acc.ps)), acc.ps \o r.ps)

\* the right side loses its SELECT, if it starts with one: it has been given one
WithoutSelect(text) == IF text # <<>> /\ text[1].t = "SELECT" THEN Tail(text) ELSE text

\* what is written, and what is still to do
At(acc, todo) == [acc |-> acc, todo |-> todo]

Step(w, d) ==
    LET now  == Head(w.todo)
        rest == Tail(w.todo)
        acc  == Put(w.acc, now.text)
        Writes(t) == At(PutLeaf(acc, t, now.node.col, now.node.vals, d), rest)
        Opens(end, close) == At(Blank, QueryParts(now.node) \o <<Part(end, <<>>, acc)>> \o close \o rest)
        Closes(text) == At(PutShifted(now.node, w.acc, text), rest)
    IN  CASE now.kind = "word"  -> At(acc, rest)
          [] now.kind = "cond"  ->
                IF CondIsLeaf(now.node) THEN Writes(Operator(d, now.node.op))
                ELSE At(acc, CondParts(now.node) \o rest)
          [] now.kind = "expr"  ->
                IF ExprIsLeaf(now.node) THEN Writes(now.node.op) ELSE At(acc, ExprParts(now.node) \o rest)
          [] now.kind = "cte"   -> Opens("end", <<Word(<<Tok(")")>>)>>)
          [] now.kind = "right" -> Opens("end right", <<>>)
          [] now.kind = "end"   -> Closes(w.acc.sql)
          [] now.kind = "end right" -> Closes(WithoutSelect(w.acc.sql))

Written(acc, parts, d) ==
    LET Run[n \in Nat] ==
            IF n = 0 THEN At(acc, parts)
            ELSE LET w == Run[n - 1] IN IF w.todo = <<>> THEN w ELSE Step(w, d)
        steps == CHOOSE n \in 0 .. MaxParts : Run[n].todo = <<>> \/ n = MaxParts
    IN  Run[steps].acc

\* mutant: numbered from the start of the WHERE
WhereFromOne(acc, q, d) == PutAsIs(acc, Written(Blank, WhereParts(q), d))
BuildWhere(acc, q, d) == Written(acc, WhereParts(q), d)

BuildCtes(q, d)  == Written(Blank, CteParts(q), d)
ToSql(q, d)      == Written(Blank, QueryParts(q), d)
ToCountSql(q, d) == Written(Blank, SelectParts(q), d)

\* an aggregate has the joins and the conditions, not the CTEs
ToAggregateSql(q) == ToCountSql([q EXCEPT !.ctes = <<>>], "$")

\* refused (a panic) without a condition
ToDeleteSql(q, d) == BuildWhere(Put(BuildCtes(q, d), <<Tok("DELETE")>>), q, d)

SetClause(acc, data, d) == Written(acc, SetParts(data), d)

\* SET is numbered from 1, whatever the CTEs have taken
ToUpdateSql(q, data, d) ==
    BuildWhere(PutAsIs(Put(BuildCtes(q, d), <<Tok("UPDATE")>>), SetClause(Blank, data, d)), q, d)

InsertSql(data, d) == SetClause(Fragment(<<Tok("INSERT")>>, <<>>), data, d)

\* one group of placeholders for each row, numbered through
BulkInsertSql(rows, d) ==
    Written(Fragment(<<Tok("INSERT")>>, <<>>),
            [i \in DOMAIN rows |-> Expr(<<>>, Condition("ROW", NoColumn, <<>>, rows[i]))], d)

Excluded(col) == <<Leaf("EXCLUDED", col, <<>>)>>

\* the columns of the conflict target are not updated
UpsertSql(data, target, d) ==
    Written(Put(InsertSql(data, d), <<Tok("ON CONFLICT")>>),
            [i \in DOMAIN data |-> Word(IF data[i][1] \in target THEN <<>> ELSE Excluded(data[i][1]))], d)
=============================================================================
