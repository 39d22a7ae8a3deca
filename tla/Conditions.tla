---------------------------- MODULE Conditions ----------------------------
(***************************************************************************)
(* The two kinds of trees that end in a WHERE: the conditions of           *)
(* core/condition.rs, with their renderings for PostgreSQL ("$"), for      *)
(* SQLite and MySQL ("?") and with the values written out ("v"), and the   *)
(* expressions of dsl/expr.rs.                                             *)
(*                                                                         *)
(* A condition has an operator, a column, its values, and for a group or a *)
(* subquery the conditions inside, each with the word that joins it to the *)
(* one before.  A raw condition has the text itself.  In an expression     *)
(* AND, OR and NOT have their operands in "sub", CASE has its branches     *)
(* there, each with its THEN value, and its ELSE value, if any, in "vals". *)
(***************************************************************************)
EXTENDS Sql

Condition(op, col, vals, sub) == [op |-> op, col |-> col, vals |-> vals, sub |-> sub]

Compare(op, col, v) == Condition(op, col, <<v>>, <<>>)
IsNull(col)         == Condition("IS NULL", col, <<>>, <<>>)
IsNotNull(col)      == Condition("IS NOT NULL", col, <<>>, <<>>)
Raw(text)           == Condition("RAW", NoColumn, <<>>, text)
Group(conds)        == Condition("GROUP", NoColumn, <<>>, conds)
Subquery(exists, table, inner) ==
    Condition(IF exists THEN "EXISTS" ELSE "NOT EXISTS", table, <<>>, inner)

Joined(join, cond) == [join |-> join, cond |-> cond]

And(l, r) == Condition("AND", NoColumn, <<>>, <<l, r>>)
Or(l, r)  == Condition("OR", NoColumn, <<>>, <<l, r>>)
Not(e)    == Condition("NOT", NoColumn, <<>>, <<e>>)
When(e, v) == Condition("WHEN", NoColumn, <<v>>, <<e>>)
Case(branches, otherwise) == Condition("CASE", NoColumn, otherwise, branches)

\* the operators that take a list, and what they are for the empty list
ListOps == {"IN", "NOT IN", "= ANY"}
EmptyList(op) == IF op = "NOT IN" THEN "TRUE" ELSE "FALSE"

\* SQLite and MySQL have no ANY(ARRAY[...]) and get IN
Operator(d, op) == IF d = "?" /\ op = "= ANY" THEN "IN" ELSE op

\* one value in its slot
Slot(d, n, v) ==
    CASE d = "$" -> <<"$", n>>
      [] d = "?" -> <<"?", 0>>
      [] OTHER   -> <<"v", v>>

(***************************************************************************)
(* A statement is written from left to right: what is rendered goes after  *)
(* the text and the parameters so far, and is numbered on from them.       *)
(***************************************************************************)
Fragment(sql, ps) == [sql |-> sql, ps |-> ps]
Blank == Fragment(<<>>, <<>>)

Put(acc, text) == Fragment(acc.sql \o text, acc.ps)

\* a token with values: its placeholders follow the parameters so far
PutLeaf(acc, t, col, vals, d) ==
    Fragment(Append(acc.sql, Leaf(t, col, [i \in DOMAIN vals |-> Slot(d, Len(acc.ps) + i, vals[i])])),
             acc.ps \o vals)

\* a text rendered on its own, its numbers left as they are
PutAsIs(acc, r) == Fragment(acc.sql \o r.sql, acc.ps \o r.ps)

(***************************************************************************)
(* The renderings call themselves for what is inside.  What such a call    *)
(* still has to write is a list of parts: a text, and after the text a     *)
(* condition ("cond") or an expression ("expr"), or nothing ("word").      *)
(***************************************************************************)
Part(kind, text, node) == [kind |-> kind, text |-> text, node |-> node]
Word(text)    == Part("word", text, <<>>)
Cond(text, c) == Part("cond", text, c)
Expr(text, e) == Part("expr", text, e)

\* a list of conditions; "first" is what the first one is joined with
Chained(conds, first) ==
    [i \in DOMAIN conds |-> Cond(IF i = 1 THEN first ELSE <<Tok(conds[i].join)>>, conds[i].cond)]

\* a condition is a token with its values, or has parts
CondIsLeaf(c) == /\ c.op \notin {"RAW", "GROUP", "EXISTS", "NOT EXISTS"}
                 /\ c.op \in ListOps => c.vals # <<>>
CondParts(c) ==
    CASE c.op = "RAW" -> <<Word(c.sub)>>
      [] c.op = "GROUP" -> <<Word(<<Tok("(")>>)>> \o Chained(c.sub, <<>>) \o <<Word(<<Tok(")")>>)>>
      [] c.op \in {"EXISTS", "NOT EXISTS"} ->
            <<Word(<<Tok(c.op), Tok("FK")>>)>> \o Chained(c.sub, <<Tok("AND")>>) \o <<Word(<<Tok(")")>>)>>
      [] OTHER -> <<Word(<<Tok(EmptyList(c.op))>>)>>

\* "col = value" for each pair of an INSERT or a SET
SetParts(data) ==
    [i \in DOMAIN data |-> Expr(<<>>, Condition("SET", data[i][1], <<data[i][2]>>, <<>>))]

\* IN and NOT IN of nothing are written as they are: only EqAny looks
ExprIsLeaf(e) == /\ e.op \notin {"RAW", "AND", "OR", "NOT", "CASE", "WHEN", "ROW"}
                 /\ e.op = "= ANY" => e.vals # <<>>
ExprParts(e) ==
    CASE e.op = "RAW" -> <<Word(e.sub)>>
      [] e.op \in {"AND", "OR"} ->
            <<Expr(<<Tok("(")>>, e.sub[1]), Expr(<<Tok(e.op)>>, e.sub[2]), Word(<<Tok(")")>>)>>
      [] e.op = "NOT"  -> <<Expr(<<Tok("NOT"), Tok("(")>>, e.sub[1]), Word(<<Tok(")")>>)>>
      [] e.op = "CASE" ->
            <<Word(<<Tok("CASE")>>)>>
                \o [i \in DOMAIN e.sub |-> Expr(<<Tok("WHEN")>>, e.sub[i])]
                \o [i \in DOMAIN e.vals |-> Expr(<<>>, Condition("ELSE", NoColumn, <<e.vals[i]>>, <<>>))]
                \o <<Word(<<Tok("END")>>)>>
      [] e.op = "WHEN" -> <<Expr(<<>>, e.sub[1]), Expr(<<>>, Condition("THEN", NoColumn, e.vals, <<>>))>>
      [] e.op = "ROW"  -> <<Word(<<Tok("(")>>)>> \o SetParts(e.sub) \o <<Word(<<Tok(")")>>)>>
      [] OTHER -> <<Word(<<Tok("FALSE")>>)>>
=============================================================================
