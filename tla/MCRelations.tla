---------------------------- MODULE MCRelations ----------------------------
(* Two owners and two posts of two tenants; one loader of several          *)
(* relations, or one of a single statement, beside a client that writes.   *)
EXTENDS Relations

CONSTANTS l1, o1, o2, p1, p2, t1, t2, user, page, r1, r2

Eager(of, load, joined) ==
    [call |-> "eager", tenant |-> t1, of |-> of, load |-> load, joined |-> joined]
OneStatement(call, owner, kind, end) ==
    [call |-> call, tenant |-> t1, owner |-> owner, kind |-> kind, end |-> end,
     region |-> r1, expected |-> user]

MCJobs == [l \in {l1} |->
    {Eager("owners", <<"has_many", "has_one">>, joined) : joined \in BOOLEAN}
    \cup {Eager("posts", <<"belongs_to">>, FALSE)}
    \cup {OneStatement(call, o1, user, end) :
            call \in {"through", "morph_many"}, end \in {"get", "first", "count", "exists"}}
    \cup {OneStatement("morph_one", o1, page, end) : end \in {"first", "exists"}}
    \cup {OneStatement("morph_to", o1, kind, "first") : kind \in {user, page}}]

MCFirstOwners ==
    {[o \in {o1, o2} |-> [tenant |-> IF o = o1 THEN t1 ELSE t, trashed |-> trashed,
                         region |-> r1]] : t \in {t1, t2}, trashed \in BOOLEAN}
MCFirstPosts ==
    {[p \in {p1, p2} |-> [owner |-> IF p = p1 THEN o1 ELSE o, kind |-> user,
                         tenant |-> t, trashed |-> FALSE]] : o \in {o1, o2}, t \in {t1, t2}}
=============================================================================
