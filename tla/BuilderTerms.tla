---------------------------- MODULE BuilderTerms ----------------------------
(***************************************************************************)
(* The terms in which BuilderProofs speaks of the query builders: what a   *)
(* value bound to a placeholder must be, the parts of a statement and the  *)
(* builders that hold them, the run that writes them, how a database reads *)
(* what is written, what it is for a condition to say rows, and the        *)
(* inductive invariants of the calls.                                      *)
(***************************************************************************)
EXTENDS QueryMeaning

-----------------------------------------------------------------------------
(* Parameters and the places they are asked for.                           *)

\* how many placeholders without a number stand in the first i tokens
Places(text, i) == Cardinality(Anonymous(text, i))

\* tokens that have no placeholders; there is one SELECT, and it has no values
Words == {k \in Tokens : k.args \in Seq(Literals) /\ (k.t = "SELECT" => k.args = <<>>)}

\* texts with their parameters
Fragments == [sql : Texts, ps : Seq(Values)]

\* a slot whose placeholder, the k-th if it is anonymous, gets the value of l
SlotMeets(d, ps, k, s, l) ==
    /\ l \in Literals
    /\ \/ s = l
       \/ d = "$" /\ \E n \in 1 .. Len(ps) : s = <<"$", n>> /\ l = <<"v", ps[n]>>
       \/ d = "?" /\ s = <<"?", 0>> /\ k \in 1 .. Len(ps) /\ l = <<"v", ps[k]>>

\* IN stands for = ANY where there are no arrays
SameWord(t, l) == t = l \/ (t = "IN" /\ l = "= ANY")

\* a token, after so many placeholders, is the token l with its values in place
TokenMeets(d, ps, before, t, l) ==
    /\ l \in Words
    /\ t.col = l.col
    /\ SameWord(t.t, l.t)
    /\ Len(t.args) = Len(l.args)
    /\ \A j \in 1 .. Len(t.args) : SlotMeets(d, ps, before + j, t.args[j], l.args[j])

\* r is rendered for d, and l is the same written out
Meets(d, r, l) ==
    /\ r \in Fragments /\ l \in Fragments
    /\ Len(r.sql) = Len(l.sql)
    /\ \A i \in 1 .. Len(r.sql) : TokenMeets(d, r.ps, Places(r.sql, i - 1), r.sql[i], l.sql[i])
    /\ d = "$" => \A n \in 1 .. Len(r.ps) :
                        \E i \in 1 .. Len(r.sql) : \E j \in 1 .. Len(r.sql[i].args) :
                            r.sql[i].args[j] = <<"$", n>>
    /\ d = "?" => Places(r.sql, Len(r.sql)) = Len(r.ps)

\* t is the token u with n added to the number of each numbered placeholder
IsShifted(t, u, n) ==
    /\ t.t = u.t /\ t.col = u.col /\ Len(t.args) = Len(u.args) /\ DOMAIN t.args = DOMAIN u.args
    /\ \A j \in 1 .. Len(u.args) :
            t.args[j] = IF u.args[j][1] = "$" THEN <<"$", u.args[j][2] + n>> ELSE u.args[j]

\* the placeholders of the two dialects, and a value written out
Kinds == {"$", "?", "v"}

\* A token with values, alone.
LeafAlone(t, col, vals, d) ==
    Fragment(<<Leaf(t, col, [i \in DOMAIN vals |-> Slot(d, i, vals[i])])>>, vals)

-----------------------------------------------------------------------------
(* The run that writes a statement.                                        *)

\* one step, if there is anything to do
After(w, d) == IF w.todo = <<>> THEN w ELSE Step(w, d)

\* f is the run from w
IsRun(f, w, d) == f = [n \in Nat |-> IF n = 0 THEN w ELSE After(f[n - 1], d)]

\* the same up to n
RunsTo(f, w, d, n) == \A k \in 0 .. n : f[k] = IF k = 0 THEN w ELSE After(f[k - 1], d)

-----------------------------------------------------------------------------
(* What there is to write.                                                 *)

\* a caller's trees, and those that the calls and the renderings make of them
Leaves == [op : Names \ {"SELECT", "AND", "OR", "NOT", "WHEN"}, col : Names, vals : Seq(Values), sub : {<<>>}]
Groups == [op : {"GROUP", "EXISTS", "NOT EXISTS"}, col : Names, vals : {<<>>}, sub : CondsOf(Trees)]
Rows   == [op : {"ROW"}, col : {NoColumn}, vals : {<<>>}, sub : Data]
Raws   == [op : {"RAW"}, col : {NoColumn}, vals : {<<>>}, sub : RawTexts]
Nodes  == Trees \cup Leaves \cup Groups \cup Rows \cup Raws

\* the builders of such trees
Builders == BuildersOf(Nodes)

\* parts that are made without placeholders, and all parts
Given ==
    [kind : {"word"}, text : Seq(Words), node : {<<>>}]
        \cup [kind : {"cond", "expr"}, text : Seq(Words), node : Nodes]
        \cup [kind : {"cte", "right"}, text : Seq(Words), node : Builders]
Parts ==
    [kind : {"word"}, text : Texts, node : {<<>>}]
        \cup [kind : {"cond", "expr"}, text : Texts, node : Nodes]
        \cup [kind : {"cte", "right"}, text : Texts, node : Builders]
        \cup [kind : {"end", "end right"}, text : {<<>>}, node : Fragments]

-----------------------------------------------------------------------------
(* Two runs side by side: with placeholders, and written out.              *)

\* what is to do next, and after that, and what is written by now
Now(w)   == Head(w.todo)
Rest(w)  == Tail(w.todo)
Added(w) == Put(w.acc, Head(w.todo).text)

\* the parts that end a query
Ends == {"end", "end right"}

\* the same part, or the statements that wait for the end of a query
Twin(d, p, l) ==
    \/ p \in Given /\ l = p
    \/ \E mark \in Ends : \E r, rl \in Fragments :
        Meets(d, r, rl) /\ p = Part(mark, <<>>, r) /\ l = Part(mark, <<>>, rl)

Twins(d, s, t) ==
    /\ s \in Seq(Parts) /\ t \in Seq(Parts) /\ Len(s) = Len(t)
    /\ \A i \in 1 .. Len(s) : Twin(d, s[i], t[i])

\* what is written meets, and what is to do are twins
Abreast(d, w, l) == Meets(d, w.acc, l.acc) /\ Twins(d, w.todo, l.todo)

-----------------------------------------------------------------------------
(* The builders of the DSL.                                                *)

\* what a conflict updates: columns with one value, or none for EXCLUDED
Updates == Names \X ({<<>>} \cup {<<v>> : v \in Values})

\* what the three DSL builders are made of
Inserts == [data : Data, conflict : {"none", "nothing", "update"}, sets : Seq(Updates)]

Upds == [data : Data, wheres : Seq(Nodes)]

Selects == SelectsOf(Nodes)

\* the parts of a select: its CTEs, its joins, its set operations
WithParts(s)  == [i \in DOMAIN s.ctes |-> Word(Enclosed(s.ctes[i]))]
JoinParts(s)  == [i \in DOMAIN s.joins |-> Expr(<<Tok("JOIN")>>, s.joins[i])]
SetOpParts(s) == [i \in DOMAIN s.setOps |-> Word(<<Tok(s.setOps[i].op)>> \o Enclosed(s.setOps[i].sql))]

\* the start of a select, and the words of its clauses
Start(s)   == Fragment(IF s.ctes = <<>> THEN <<>> ELSE <<Tok("WITH")>>, <<>>)
Closing(s) == Clause(s, "ORDER BY") \o Clause(s, "LIMIT") \o Clause(s, "OFFSET") \o Clause(s, "LOCK")

\* The inductive invariant: the builders stay builders of well-formed trees.
Built ==
    /\ kind \in {"model", "select", "insert", "update"}
    /\ q \in Builders /\ sel \in Selects /\ ins \in Inserts /\ upd \in Upds

-----------------------------------------------------------------------------
(* What a database reads.                                                  *)

\* the sequence of values that starts with b and goes on with G
Recurs(f, S, b, G) == f \in [Nat -> S] /\ f[0] = b /\ \A n \in Nat : f[n + 1] = G[<<f[n], n + 1>>]

\* the same, each value told from the one before it
Unfolds(f, S, b, H) ==
    /\ f = [n \in Nat |-> f[n]] /\ f[0] = b
    /\ \A n \in Nat : n # 0 => f[n - 1] \in S /\ f[n] = H[f[n - 1]]

\* what is open: a parenthesis, or the text itself
Frames == [word : Opening, ors : SUBSET EveryRow, ands : SUBSET EveryRow, not : BOOLEAN, ended : BOOLEAN]
Stacks == Seq(Frames)

\* the stacks while a text is read, one for each of its beginnings
Reads(P, open, text) ==
    /\ P \in [0 .. Len(text) -> Stacks] /\ P[0] = open
    /\ \A n \in 0 .. Len(text) - 1 : P[n + 1] = Read(P[n], text[n + 1])

\* the text turns the innermost frame f into g, whatever is around it
Turns(text, f, g) ==
    /\ text \in Texts /\ f \in Frames /\ g \in Frames
    /\ \A around \in Stacks : Parsed(Onto(around, f), text) = Onto(around, g)

\* the text is one condition wherever it is put, one that selects the rows x
Reading(text, x) ==
    /\ text \in Texts /\ x \in SUBSET EveryRow
    /\ \A f \in Frames : ~f.ended => Turns(text, f, Factor(f, x))

\* What a parenthesis is once it is closed.
RowsOf(word, x) ==
    CASE word = "(" -> x
      [] word = "EXISTS" -> Exist(x)
      [] word = "NOT EXISTS" -> EveryRow \ Exist(x)

\* the stack u, over another one
Above(u, under) == u \o under

\* b is what NOTs have made of the frame in which a text is read alone, and c
\* what they have made of f
Twisted(b, c, f) ==
    /\ b \in Frames /\ b.word = "(" /\ b.ors = {} /\ b.ands = EveryRow /\ b.ended = FALSE
    /\ c \in Frames /\ c.word = f.word /\ c.ors = f.ors /\ c.ands = f.ands /\ c.ended = FALSE
    /\ c.not = IF b.not THEN (IF f.not THEN FALSE ELSE TRUE) ELSE f.not

\* the stack s of a text read alone, and r of the same text read in f
Linked(s, r, f, around) ==
    \E u \in Stacks : \E b, c \in Frames :
        /\ Twisted(b, c, f)
        /\ s = Above(u, Onto(<<>>, b)) /\ r = Above(u, Onto(around, c))

\* the same when a condition has ended
LinkedAtEnd(s, r, f, around) ==
    \E x \in SUBSET EveryRow : \E b, c \in Frames :
        /\ Twisted(b, c, f)
        /\ s = Onto(<<>>, Factor(b, x)) /\ r = Onto(around, Factor(c, x))

\* the stack before a text that is read alone
Sole == <<Open("(")>>

-----------------------------------------------------------------------------
(* Chains of conditions, read from left to right.                          *)

\* where the alternatives of a chain start
Starts(list) == {j \in DOMAIN list : j = 1 \/ list[j].join = "OR"}

\* the rows of the conditions from s to i, and of A too when s is the first
Whole(A, rows, s, i) == {row \in EveryRow : (s = 1 => row \in A) /\ \A k \in s .. i : row \in rows[k]}

\* the rows of the alternatives that start before s
Earlier(A, list, rows, s) ==
    {row \in EveryRow : \E j \in Starts(list) : /\ j < s /\ (j = 1 => row \in A)
                                                 /\ \A k \in JoinedTo(list, j) : row \in rows[k]}

\* what is joined by nothing but AND and OR
IsList(list) == list \in Seq([join : {"AND", "OR"}, cond : Nodes])

\* the conditions up to the i-th end the alternative that starts at the s-th
Ended(A, list, rows, s, i) == Earlier(A, list, rows, i + 1) = Earlier(A, list, rows, s) \cup Whole(A, rows, s, i)

\* the frame g has read the first i conditions of the list
HasRead(g, word, A, list, rows, i) ==
    /\ g \in Frames /\ g.word = word /\ g.ended = TRUE /\ g.not = FALSE
    /\ \E s \in Starts(list) :
        /\ s <= i /\ \A m \in s + 1 .. i : list[m].join = "AND"
        /\ g.ands = Whole(A, rows, s, i) /\ g.ors = Earlier(A, list, rows, s)

\* the rows of a chain, of which the first alternative is one of A too
ChainFrom(A, list, rows) == Earlier(A, list, rows, Len(list) + 1)

-----------------------------------------------------------------------------
(* What is written, and what it says.                                      *)

\* a run from w is at v after k steps
Reaches(w, k, v) == \E f : IsRun(f, w, "v") /\ f[k] = v

\* parts, and others after them
Onward(parts, rest) == parts \o rest

\* the parts are written in at most bound steps, and what they add is the text
Writes(parts, bound, text) ==
    /\ parts \in Seq(Parts) /\ bound \in Nat /\ text \in Texts
    /\ \A acc \in Fragments, rest \in Seq(Parts) : \E k \in Nat, r \in Fragments :
            /\ k <= bound /\ r.sql = acc.sql \o text
            /\ Reaches(At(acc, Onward(parts, rest)), k, At(r, rest))

\* the token of a condition with its values written out
TokenOf(c) == Leaf(c.op, c.col, [i \in DOMAIN c.vals |-> <<"v", c.vals[i]>>])

\* no list without members, where the DSL writes it
Listed(kind2, c) == kind2 = "expr" /\ c.op \in {"IN", "NOT IN"} => c.vals # <<>>

\* wherever it is written, in at most bound steps, c is the same text, and that
\* text is a condition for the rows x
Says(kind2, c, x, bound) ==
    /\ c \in Nodes /\ bound \in Nat /\ x \in SUBSET EveryRow
    /\ \E y \in Texts : Reading(y, x) /\ \A text \in Texts : Writes(<<Part(kind2, text, c)>>, bound, text \o y)

\* the parts of a chain
Strung(kind2, list, first) ==
    [i \in DOMAIN list |-> Part(kind2, IF i = 1 THEN first ELSE <<Tok(list[i].join)>>, list[i].cond)]

\* c says what it means, if no subquery among the chains has an OR in it, and
\* something in any case
Tells(kind2, c, chains, means, bound) ==
    \E x : Says(kind2, c, x, bound) /\ (Straight(chains) => x = means)

\* the rows that the members of a chain say, and what they mean
ChainTells(kind2, list, cs, ms, bound) ==
    \E rows : /\ \A k \in 1 .. Len(list) : Says(kind2, list[k].cond, rows[k], bound)
              /\ (\A k \in 1 .. Len(list) : Straight(cs[k])) => rows = [k \in 1 .. Len(list) |-> ms[k]]

\* the rows that an EXISTS looks at: those whose foreign key is the row it is under
Mine(list, rows) == {row \in Chain(list, rows) : row.mine}

\* an EXISTS once it has read that the foreign key is the row outside
Keyed(op) == Factor(Open(op), LeafRows(Tok("FK")))

\* what an EXISTS reads between its parenthesis and the closing one, of which x
\* is written after its first words
Subtext(op, list, rows, bound) ==
    \E x \in Texts, g \in Frames :
        /\ Writes(Strung("cond", list, <<Tok("AND")>>), Len(list) * bound, x)
        /\ Turns(<<Tok("FK")>> \o x, Open(op), g) /\ g.ended /\ g.word = op
        /\ NoOr(list) => Holds(g) = Mine(list, rows)

\* what a subquery says
SubquerySays(c, op, list, rows, bound) ==
    \E x : /\ Says("cond", c, x, Len(list) * bound + 3)
           /\ NoOr(list) => x = RowsOf(op, Mine(list, rows))

\* two texts with AND or OR between them are read as two conditions
PairReads(op, y, z, x1, x2) ==
    \E g \in Frames :
        /\ Turns((y \o <<Tok(op)>>) \o z, Open("("), g) /\ g.ended /\ g.word = "("
        /\ Holds(g) = IF op = "AND" THEN x1 \cap x2 ELSE x1 \cup x2

\* what is known of the conditions R: they say what M says they mean, in B steps,
\* and as expressions those of F do
Level(R, F, M, C, B) ==
    /\ B \in Nat
    /\ \A t \in R : /\ t \in Nodes
                    /\ t.op \notin Logic => Tells("cond", t, C[t], M[t], B)
                    /\ t.op \notin Subqueries => C[t] = {} /\ (t \in F => Tells("expr", t, C[t], M[t], B))

\* the steps of a condition around them
Around(B) == 3 + MaxWidth * B

-----------------------------------------------------------------------------
(* What conditions mean, to any depth.                                     *)

\* the meanings of the conditions that are at most n deep
MeaningsOf(T) ==
    /\ \A n \in Nat : \A t \in Trees : T[n + 1][t] = MeansIn(T[n], t)
    /\ \A c : Means(c) = MeansIn(T[MaxDepth], c)

\* the chains inside the conditions that are at most n deep
ChainsUpTo(T) ==
    /\ \A n \in Nat : \A t \in Trees : T[n + 1][t] = ChainsIn(T[n], t)
    /\ \A c : ChainsOf(c) = ChainsIn(T[MaxDepth], c)

\* the steps of a caller's condition
MostSteps == MostParts[MaxDepth + 1]

-----------------------------------------------------------------------------
(* The rows of a select.                                                   *)

\* tokens that a database reads alike
Alike(a, b) == SameWord(a.t, b.t) /\ a.col = b.col /\ a.args = b.args

\* the expressions that write no list without members
FilledExprs == {e \in Exprs : IsFilled(e)}

\* expressions, all joined with one word
Strand(exprs, word) == [i \in DOMAIN exprs |-> Joined(word, exprs[i])]

\* the rows of expressions that are all joined with one word
StrandRows(exprs, word) ==
    IF word = "AND" THEN {row \in EveryRow : \A i \in 1 .. Len(exprs) : row \in Means(exprs[i])}
    ELSE UNION {Means(exprs[i]) : i \in 1 .. Len(exprs)}

\* the parts of a WHERE that has ANDs and ORs
BothStrands(ands, ors) ==
    All(ands, <<Tok("WHERE"), Tok("(")>>, "AND")
        \o All(ors, <<Tok(")"), Tok("OR"), Tok("(")>>, "OR") \o <<Word(<<Tok(")")>>)>>

\* their text says so
StrandReads(exprs, word, first) ==
    \E y \in Texts, g \in Frames :
        /\ Writes(All(exprs, first, word), Len(exprs) * MostSteps, first \o y)
        /\ Turns(y, Open("("), g) /\ g.ended /\ g.word = "("
        /\ Holds(g) = StrandRows(exprs, word)

\* three texts, one after the other
Regrouped(a, b, c) == (a \o b) \o c = a \o (b \o c)

\* the text of two strands, as it is written and as it is read
Regroups(w, p, c, o, y, z) ==
    ((w \o p) \o y) \o ((((c \o o) \o p) \o z) \o c) = w \o ((((p \o y) \o c) \o o) \o ((p \o z) \o c))

\* the rows of the expressions of a select
AskedOf(s) ==
    IF s.orWheres = <<>>
    THEN IF s.wheres = <<>> THEN EveryRow ELSE StrandRows(s.wheres, "AND")
    ELSE IF s.wheres = <<>> THEN StrandRows(s.orWheres, "OR")
         ELSE StrandRows(s.wheres, "AND") \cup StrandRows(s.orWheres, "OR")

-----------------------------------------------------------------------------
(* What was asked.                                                         *)

\* the conditions of a query, and those that were asked of it
Keeps(conds, list) ==
    /\ IsList(conds) /\ IsList(list) /\ Len(conds) = Len(list)
    /\ \A i \in 1 .. Len(list) :
            /\ conds[i].join = list[i].join
            /\ Tells("cond", conds[i].cond, ChainsOf(list[i].cond), Means(list[i].cond), MostSteps)

\* a condition that means what it says wherever it stands
SelfTells(c) == c \in Nodes /\ Tells("cond", c, ChainsOf(c), Means(c), MostSteps)

\* the expressions of a select's ANDs or ORs are those asked for with that word
AskedFor(exprs, word, list) ==
    {exprs[i] : i \in 1 .. Len(exprs)} = {list[k].cond : k \in {m \in 1 .. Len(list) : list[m].join = word}}

\* The inductive invariant: the conditions of a model query are those asked
\* for, one by one, and a select has those asked for in its two lists.
ModelAsked == kind = "model" => Keeps(q.conds, asked) /\ Len(asked) <= calls
SelectAsked ==
    kind = "select" =>
        /\ sel.wheres \in Seq(Exprs) /\ sel.orWheres \in Seq(Exprs)
        /\ Len(sel.wheres) + Len(sel.orWheres) <= calls
        /\ asked \in Seq([join : {"AND", "OR"}, cond : Exprs])
        /\ AskedFor(sel.wheres, "AND", asked) /\ AskedFor(sel.orWheres, "OR", asked)
AskedNext == ModelAsked' /\ SelectAsked'
Asking == Built /\ calls \in 0 .. MaxCalls /\ ModelAsked /\ SelectAsked

\* what the conditions of a word mean is what the expressions of a list mean
MeantBy(exprs, word, list) ==
    {Means(list[i].cond) : i \in {k \in DOMAIN list : list[k].join = word}}
        = {Means(exprs[i]) : i \in 1 .. Len(exprs)}

\* conditions joined by AND that let no row through but those in x
Sifts(conds, n, x) ==
    /\ IsList(conds) /\ NoOr(conds) /\ n \in Nat /\ Len(conds) <= n
    /\ \E rows : /\ \A k \in 1 .. Len(conds) : Says("cond", conds[k].cond, rows[k], MostSteps)
                 /\ \A row \in EveryRow : (\A k \in 1 .. Len(conds) : row \in rows[k]) => row \in x

\* the rows that the scopes let through, and those that are not soft-deleted
ScopeRows == {row \in EveryRow : \A i \in DOMAIN Scopes : row \in Means(Scopes[i])}
LiveRows  == {row \in EveryRow : row[SoftColumn] = NULL}
ScopeConds == [i \in DOMAIN Scopes |-> Joined("AND", Scopes[i])]
SoftConds  == <<Joined("AND", IsNull(SoftColumn))>>

=============================================================================
