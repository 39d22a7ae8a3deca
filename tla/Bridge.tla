------------------------------ MODULE Bridge ------------------------------
(***************************************************************************)
(* orm/bridge.rs, which turns expressions of the DSL into conditions of    *)
(* the query builder and back, and the calls of a model query that use it. *)
(***************************************************************************)
EXTENDS ModelQuery

CONSTANT MaxDepth   \* bound: how deep a caller's conditions are nested

\* what In says of a condition or an expression, told from what it says of
\* those inside
Deep(In(_, _), c) ==
    LET Told[n \in Nat] == [t \in Trees |-> IF n = 0 THEN {} ELSE In(Told[n - 1], t)]
    IN  In(Told[MaxDepth], c)

ExprToLiteral(e) == Written(Blank, <<Expr(<<>>, e)>>, "v").sql
ToLiteralSql(c)  == Written(Blank, <<Cond(<<>>, c)>>, "v").sql

ConditionOf(inside, e) ==
    CASE e.op \in {"AND", "OR"} ->
            Group(<<Joined("AND", inside[e.sub[1]]), Joined(e.op, inside[e.sub[2]])>>)
      [] e.op \in {"NOT", "CASE"} -> Raw(ExprToLiteral(e))
      \* the arm that is left for what no other arm names
      [] e.op = "= ANY" -> Raw(<<Tok("TRUE")>>)
      [] OTHER -> e
ExprToCondition(e) == Deep(ConditionOf, e)

GroupToExpr(inside, conds) ==
    LET Folded[n \in Nat] ==
            IF n = 0 THEN Raw(<<Tok("TRUE")>>)
            ELSE IF n = 1 THEN inside[conds[n].cond]
            ELSE Condition(conds[n].join, NoColumn, <<>>, <<Folded[n - 1], inside[conds[n].cond]>>)
    IN  Folded[Len(conds)]
ExprOf(inside, c) ==
    CASE c.op = "GROUP" -> GroupToExpr(inside, c.sub)
      [] c.op \in {"EXISTS", "NOT EXISTS", "= ANY"} -> Raw(ToLiteralSql(c))
      [] OTHER -> c
ConditionToExpr(c) == Deep(ExprOf, c)

\* a model query as a select: conditions, order, limit and offset go over, and
\* the joins, groups, CTEs, set operation and lock do not
\* mutant: every condition becomes a where
AllIntoWhere(b) ==
    [SelectBuilder EXCEPT !.wheres = [i \in DOMAIN b.conds |-> ConditionToExpr(b.conds[i].cond)]]
ModelQueryIntoSelect(b) ==
    LET Of(join) == LET own == SelectSeq(b.conds, LAMBDA c : c.join = join)
                    IN  [i \in DOMAIN own |-> ConditionToExpr(own[i].cond)]
    IN  [SelectBuilder EXCEPT !.wheres = Of("AND"), !.orWheres = Of("OR"),
                              !.opts = b.opts \cap {"ORDER BY", "LIMIT", "OFFSET"}]

-----------------------------------------------------------------------------
WhereExpr(join, e) ==
    OnModel(Push(q, join, ExprToCondition(e))) /\ Ask(join, e) /\ UNCHANGED flags

IntoDsl == /\ Call("model") /\ kind' = "select"
           /\ sel' = ModelQueryIntoSelect(IntoFinalBuilder)
           /\ asked' = IntoFinalBuilder.conds
           /\ UNCHANGED <<q, trashed, unscoped, ins, upd>>

NextBridge ==
    \/ Next
    \/ \E j \in {"AND", "OR"}, e \in Exprs : WhereExpr(j, e)
    \/ IntoDsl

SpecBridge == Init /\ [][NextBridge]_vars
=============================================================================
