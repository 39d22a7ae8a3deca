-------------------------- MODULE MCQueryMeaning --------------------------
(***************************************************************************)
(* A small instance of QueryMeaning: two columns "a" and "t" (the tenant)  *)
(* with two values, and a related table with the same columns.             *)
(***************************************************************************)
EXTENDS QueryMeaning

A(v) == Compare("=", "a", v)

MCConds == {A(1), Condition("BETWEEN", "a", <<1, 2>>, <<>>), Condition("= ANY", "a", <<2, 1>>, <<>>),
            Raw(<<Leaf("=", "a", <<<<"v", 2>>>>)>>)}

MCInners == {<<>>,
             <<Joined("OR", A(1)), Joined("OR", Compare("=", "t", 2))>>,
             <<Joined("AND", Condition("IN", "a", <<1, 2>>, <<>>)), Joined("AND", Condition("NOT IN", "t", <<>>, <<>>))>>}

MCExprs == {And(A(1), Or(Compare("=", "t", 2), IsNull("del"))), Not(Condition("IN", "a", <<1, 2>>, <<>>)),
            Condition("NOT BETWEEN", "a", <<2, 2>>, <<>>), Not(Condition("IN", "t", <<>>, <<>>))}
           \cup {e \in ColumnExprs("a", 1, 1) : e.op \in {"= ANY", "NOT IN"}}

MCJoins   == {Raw(<<Tok("TRUE")>>), And(A(3), A(4))}
MCHavings == {AggCmp(">", "COUNT", 5),
              Case(<<When(A(1), 6), When(A(2), 7)>>, <<8>>)}

WithA(v) == Push(QueryBuilder, "AND", A(v))
MCSubQueries == {QueryBuilder, WithA(2), WithCte(WithA(1), WithA(2))}
MCSubSelects == {SelectBuilder, [SelectBuilder EXCEPT !.wheres = <<A(2)>>]}

MCPairs == {<<<<"a", 1>>>>, <<<<"a", 2>>, <<"t", 1>>>>}
MCSets  == {<<<<"a", <<3>>>>, <<"t", <<>>>>>>, <<<<"t", <<>>>>, <<"a", <<4>>>>>>}

MCScopes == <<Compare("=", "t", 1)>>

\* a related row of its own, or of another row only
MCRelated == {[a |-> 1, t |-> 2, del |-> NULL, rel |-> {}, mine |-> m] : m \in BOOLEAN}
MCTable == {[a |-> a, t |-> t, del |-> d, rel |-> {r}, mine |-> FALSE] :
                a \in {1, 2}, t \in {1, 2}, d \in {NULL, 1}, r \in MCRelated}

MCValues == 1 .. 8
MCNames == Keywords \cup {"a", "t", "rel", "del", "COUNT", NoColumn, "BETWEEN", "NOT BETWEEN"}

\* what expr_to_condition makes of the expression inside the first of MCExprs
MCMade == {Group(<<Joined("AND", Compare("=", "t", 2)), Joined("OR", IsNull("del"))>>)}

RECURSIVE Inside(_)
Inside(c) ==
    {c} \cup CASE c.op = "RAW" -> {}
               [] c.op \in {"GROUP", "EXISTS", "NOT EXISTS"} -> UNION {Inside(c.sub[i].cond) : i \in DOMAIN c.sub}
               [] OTHER -> UNION {Inside(c.sub[i]) : i \in DOMAIN c.sub}
MCTrees == UNION {Inside(c) : c \in MCConds \cup MCExprs \cup MCJoins \cup MCHavings \cup MCMade \cup Range(MCScopes)
                                       \cup UNION {{i[k].cond : k \in DOMAIN i} : i \in MCInners}
                                       \cup {A(1), A(2)}}
MCQueries == MCSubQueries \cup {WithA(2)}
=============================================================================
