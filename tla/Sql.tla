------------------------------- MODULE Sql -------------------------------
(***************************************************************************)
(* The text of a statement and what its parameters are bound to: external  *)
(* to the repository, as all that a database does.                         *)
(*                                                                         *)
(* A statement is a sequence of tokens.  A token has a kind, a column (or  *)
(* the name of what it is about) and the slots in which values stand: a    *)
(* numbered placeholder <<"$", n>>, an anonymous one <<"?", 0>>, or the    *)
(* value itself <<"v", value>>.  Wording, quoting and white space are left *)
(* out.                                                                    *)
(***************************************************************************)
EXTENDS Naturals, Sequences, FiniteSets, SequencesExt

NoColumn == ""
Leaf(t, col, args) == [t |-> t, col |-> col, args |-> args]
Tok(t) == Leaf(t, NoColumn, <<>>)

(***************************************************************************)
(* Binding: the n-th parameter for $n, the next parameter for each ?.      *)
(* A placeholder that has no parameter is an error of the server.          *)
(***************************************************************************)
\* the anonymous placeholders of the first n tokens, each by its place
Anonymous(text, n) ==
    UNION {{<<i, j>> : j \in {k \in DOMAIN text[i].args : text[i].args[k][1] = "?"}} : i \in 1 .. n}

Bind(text, ps) ==
    LET Fill(slot, k) ==
            LET n == IF slot[1] = "$" THEN slot[2] ELSE k
            IN  IF slot[1] = "v" THEN slot
                ELSE IF n \in DOMAIN ps THEN <<"v", ps[n]>> ELSE <<"unbound", n>>
        Before(i) == Cardinality(Anonymous(text, i - 1))
    IN  [i \in DOMAIN text |->
            Leaf(text[i].t, text[i].col,
                 [j \in DOMAIN text[i].args |-> Fill(text[i].args[j], Before(i) + j)])]

\* the numbers in the placeholders of a text
Numbers(text) ==
    UNION {{text[i].args[j][2] : j \in {k \in DOMAIN text[i].args : text[i].args[k][1] = "$"}} :
                i \in DOMAIN text}

\* the parameters that some placeholder asks for
Asked(text) ==
    LET anonymous == Anonymous(text, Len(text))
    IN  IF anonymous # {} THEN 1 .. Cardinality(anonymous) ELSE Numbers(text)

(***************************************************************************)
(* A statement binds when every placeholder gets the value that stands in  *)
(* its place in the statement written out, and every parameter is asked    *)
(* for.  = ANY is IN for the dialects that have no arrays.                 *)
(***************************************************************************)
Plain(text) == [i \in DOMAIN text |-> [text[i] EXCEPT !.t = IF @ = "= ANY" THEN "IN" ELSE @]]

Binds(r, literal) == /\ Plain(Bind(r.sql, r.ps)) = Plain(literal.sql)
                     /\ Asked(r.sql) = DOMAIN r.ps
=============================================================================
