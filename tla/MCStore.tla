------------------------------ MODULE MCStore -------------------------------
(* Instances of Store for TLC.                                             *)
EXTENDS Store

CONSTANTS a, b, c, k, l, t1, t2

Job(kind, call, keys, chunk, veto) ==
    [kind |-> kind, call |-> call, key |-> k, id |-> 1, keys |-> keys,
     chunk |-> chunk, veto |-> veto]

NoJob == Job("none", PgModelReads.count, <<>>, 0, "none")
Plain == {Job("call", call, IF call.verb = "insert many" THEN <<l, k>> ELSE <<k>>, 0, "none") :
             call \in Api}
Framed == {Job("hooked", PgModelWrites[f], <<k>>, 0, veto) :
             f \in {"create", "update_by_pk", "delete_by_pk"}, veto \in Vetoes}
Bulk == {Job("chunked", PgModelWrites.bulk_create, keys, n, "none") :
             keys \in {<<>>, <<k, l>>, <<l, l, k>>}, n \in 0 .. 2}
TwoUpserts == {Job(kind, PgModelReads.count, <<>>, 0, "none") : kind \in Upserts}
Others == {Job("call", call, <<k>>, 0, "none") :
              call \in {PgModelWrites.delete_where, PgModelQueries.delete_self,
                        PgModelSoftDeletes.soft_delete_by_pk}}

Work(A, B, C) ==
    {[x \in {a, b, c} |-> IF x = a THEN p ELSE IF x = b THEN q ELSE r] :
        p \in A, q \in B, r \in C}
MCWorkloads ==
    Work(Plain, TwoUpserts, {NoJob})
    \cup Work(Framed, TwoUpserts \cup Framed, {NoJob})
    \cup Work(Bulk, TwoUpserts \cup Bulk, {NoJob})
    \cup Work(TwoUpserts, TwoUpserts, Others)

\* the calls of two callers on the links of one owner
Linking(op, ids) == [op |-> op, ids |-> ids, via |-> "pivot"]
Morph(op, ids) == [op |-> op, ids |-> ids, via |-> "morph"]
NotLinking == Linking("none", <<>>)
Lists == {<<>>, <<t2, t1>>, <<t1, t1>>}
Several == {Linking(op, ids) : op \in {"sync", "toggle"}, ids \in Lists}
Single == {Linking("get", <<>>), Linking("attach", <<t1>>), Linking("detach", <<t2>>),
           Linking("detach_all", <<>>), Linking("update_pivot", <<t1>>)}
OfMorph == {Morph("get", <<>>), Morph("attach", <<t1>>), Morph("detach", <<t2>>),
            Morph("detach_all", <<>>), Morph("sync", <<t2>>), Morph("toggle", <<t1>>)}
MCLinkWorkloads ==
    {[x \in {a, b, c} |-> IF x = a THEN p ELSE IF x = b THEN q ELSE NotLinking] :
        p \in Several, q \in Several \cup Single \cup OfMorph \cup {NotLinking}}

\* two first_or_create of one key, and nobody on the links
MCFirstOrCreates ==
    LET Find == Job("first_or_create", PgModelReads.count, <<>>, 0, "none")
    IN  Work({Find}, {Find}, {NoJob})
MCNoLinks == {[x \in {a, b, c} |-> NotLinking]}

\* an empty table, one row of key k, a soft-deleted one, and two of them
Old(trashed) == [key |-> k, val |-> Nobody, trashed |-> trashed, by |-> Nobody]
Table(s) == [i \in Ids |-> IF i \in DOMAIN s THEN s[i] ELSE NoRow]
MCStartingRows ==
    {Table(<<>>), Table(<<Old(FALSE)>>), Table(<<Old(TRUE), Old(FALSE)>>)}
=============================================================================
