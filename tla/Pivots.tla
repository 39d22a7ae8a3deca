------------------------------- MODULE Pivots -------------------------------
(***************************************************************************)
(* PivotQuery and MorphToMany: callers that attach rows to one owner and   *)
(* detach them through a pivot table.  A call is one or several            *)
(* statements, each in a transaction of its own.  MorphToMany sends the    *)
(* same statements with the type of the owner beside its id.               *)
(***************************************************************************)
EXTENDS Naturals, Sequences, FiniteSets, SequencesExt

CONSTANTS
    Callers, Targets,
    LinkWorkloads,   \* the calls they make, functions on Callers
    MostCopies,      \* bound: rows of the pivot table for one target
    PairIndexes,     \* whether (fk, rfk) is unique: TRUE, FALSE
    IdTypes          \* the type of rfk, "i64" or another

LinkOps == {"none", "get", "attach", "detach", "detach_all", "sync", "toggle",
            "update_pivot"}

LinkCalls == [op : LinkOps, ids : Seq(Targets), via : {"pivot", "morph"}]

\* what the constants are: assumed where the module is instantiated
PivotsAssumption ==
    /\ LinkWorkloads \subseteq [Callers -> LinkCalls]
    /\ MostCopies \in Nat \ {0} /\ PairIndexes \subseteq BOOLEAN
    /\ IdTypes \subseteq {"i64", "uuid"}

VARIABLES
    work,      \* work[c]: the call, the related ids given to it, and the type it is on
    paired, idType,
    links,     \* links[t]: rows of the pivot table that link the owner to t
    stage,     \* stage[c]: start, loop, done
    todo,      \* todo[c]: ids the loop has still to handle
    known,     \* known[c]: the ids toggle has read as attached
    reply,     \* reply[c]
    old,       \* history: the targets linked when the call began
    alone      \* history: no other call was under way at the same time

linkVars == <<work, paired, idType, links, stage, todo, known, reply, old, alone>>
fixed == <<work, paired, idType>>

Linked(table) == {t \in Targets : table[t] > 0}
Asked(c) == ToSet(work[c].ids)

LinksStart(workloads, tables, indexes, types) ==
    /\ work \in workloads /\ paired \in indexes /\ idType \in types
    /\ links \in tables
    /\ stage = [c \in Callers |-> IF work[c].op = "none" THEN "done" ELSE "start"]
    /\ todo = [c \in Callers |-> <<>>]
    /\ known = [c \in Callers |-> {}]
    /\ reply = [c \in Callers |-> "none"]
    /\ old = [c \in Callers |-> {}]
    /\ alone = [c \in Callers |-> TRUE]

PivotsInit == LinksStart(LinkWorkloads, [Targets -> 0 .. 1], PairIndexes, IdTypes)

-----------------------------------------------------------------------------
(* The statements.                                                         *)

\* INSERT ... ON CONFLICT DO NOTHING
InsertLink(table, t) ==
    [table EXCEPT ![t] = IF paired /\ @ > 0 THEN @ ELSE @ + 1]
DeleteLinks(table, ts) == [t \in Targets |-> IF t \in ts THEN 0 ELSE table[t]]

\* mutated form: DELETE without NOT IN
KeptNothing(c) == {}
\* the links that DELETE ... NOT IN (ids) leaves; with no ids it has no NOT IN
KeptBySync(c) == Asked(c)

Ongoing(c) == stage[c] = "loop"
Meeting(c) == {d \in Callers \ {c} : Ongoing(d)}

\* the first step of a call, which sends its first statement
Opens(c, via, op) ==
    /\ stage[c] = "start" /\ work[c].via = via /\ work[c].op = op
    /\ old' = [old EXCEPT ![c] = Linked(links)]
    /\ alone' = [d \in Callers |->
          IF d = c THEN Meeting(c) = {} ELSE alone[d] /\ ~Ongoing(d)]
    /\ UNCHANGED fixed

Over(c, ans) ==
    /\ stage' = [stage EXCEPT ![c] = "done"]
    /\ reply' = [reply EXCEPT ![c] = ans]

Loops(c) ==
    /\ stage' = [stage EXCEPT ![c] = "loop"]
    /\ todo' = [todo EXCEPT ![c] = work[c].ids]

\* a statement executed, its answer lost or not
OneStatement(c, table) ==
    /\ links' = table
    /\ Over(c, "ok") \/ Over(c, "error")
    /\ UNCHANGED <<todo, known>>

GetLinks(c) == Opens(c, "pivot", "get") /\ OneStatement(c, links)
Attaches(c, via) ==
    /\ Opens(c, via, "attach") /\ links[work[c].ids[1]] < MostCopies
    /\ OneStatement(c, InsertLink(links, work[c].ids[1]))
Detaches(c, via) == Opens(c, via, "detach") /\ OneStatement(c, DeleteLinks(links, Asked(c)))
DetachesAll(c, via) == Opens(c, via, "detach_all") /\ OneStatement(c, DeleteLinks(links, Targets))

Attach(c) == Attaches(c, "pivot")
Detach(c) == Detaches(c, "pivot")
DetachAll(c) == DetachesAll(c, "pivot")
\* extra columns are not modelled; without any, no statement is sent
UpdatePivot(c) == Opens(c, "pivot", "update_pivot") /\ OneStatement(c, links)

MorphGetLinks(c) == Opens(c, "morph", "get") /\ OneStatement(c, links)
MorphWrite(c) == Attaches(c, "morph") \/ Detaches(c, "morph") \/ DetachesAll(c, "morph")

-----------------------------------------------------------------------------
(* sync and toggle.                                                        *)

Syncs(c, via) ==
    /\ Opens(c, via, "sync")
    /\ links' = DeleteLinks(links, Targets \ KeptBySync(c))
    /\ \/ work[c].ids = <<>> /\ Over(c, "ok") /\ UNCHANGED todo
       \/ work[c].ids # <<>> /\ Loops(c) /\ UNCHANGED reply
       \/ Over(c, "error") /\ UNCHANGED todo
    /\ UNCHANGED known
Sync(c) == Syncs(c, "pivot")
MorphSync(c) == Syncs(c, "morph")

\* the ids come back as i64, or not at all
Toggles(c, via) ==
    /\ Opens(c, via, "toggle")
    /\ \/ work[c].ids = <<>> /\ Over(c, "ok") /\ UNCHANGED <<todo, known>>
       \/ /\ work[c].ids # <<>>
          /\ known' = [known EXCEPT ![c] =
                IF idType = "i64" THEN Linked(links) \cap Asked(c) ELSE {}]
          /\ Loops(c) /\ UNCHANGED reply
    /\ UNCHANGED links
Toggle(c) == Toggles(c, "pivot")
MorphToggle(c) == Toggles(c, "morph")

\* mutated form: the branches of toggle the other way round
InsertsKnown(c, t) == work[c].op = "sync" \/ t \in known[c]
Inserts(c, t) == work[c].op = "sync" \/ t \notin known[c]

HandleId(c) ==
    /\ Ongoing(c) /\ todo[c] # <<>>
    /\ LET t == Head(todo[c])
       IN IF Inserts(c, t) THEN links[t] < MostCopies /\ links' = InsertLink(links, t)
          ELSE links' = DeleteLinks(links, {t})
    /\ todo' = [todo EXCEPT ![c] = Tail(@)]
    /\ Over(c, "error") \/ UNCHANGED <<stage, reply>>
    /\ UNCHANGED <<work, paired, idType, known, old, alone>>

IdsHandled(c) ==
    /\ Ongoing(c) /\ todo[c] = <<>>
    /\ Over(c, "ok")
    /\ UNCHANGED <<work, paired, idType, links, todo, known, old, alone>>

\* the statement that is due fails: what was done stays
LinkFails(c) ==
    /\ \/ Ongoing(c) /\ UNCHANGED <<fixed, old, alone>>
       \/ work[c].op # "none" /\ Opens(c, work[c].via, work[c].op)
    /\ Over(c, "error")
    /\ UNCHANGED <<links, todo, known>>

LinkStep(c) ==
    \/ GetLinks(c) \/ Attach(c) \/ Detach(c) \/ DetachAll(c) \/ UpdatePivot(c)
    \/ Sync(c) \/ Toggle(c)
    \/ MorphGetLinks(c) \/ MorphWrite(c) \/ MorphSync(c) \/ MorphToggle(c)
    \/ HandleId(c) \/ IdsHandled(c)

PivotsNext == \E c \in Callers : LinkStep(c) \/ LinkFails(c)
PivotsSpec == PivotsInit /\ [][PivotsNext]_linkVars

-----------------------------------------------------------------------------
(* Properties.                                                             *)

LinkTypeOK ==
    /\ work \in [Callers -> LinkCalls]
    /\ paired \in BOOLEAN /\ idType \in {"i64", "uuid"}
    /\ links \in [Targets -> Nat]
    /\ stage \in [Callers -> {"start", "loop", "done"}]
    /\ todo \in [Callers -> Seq(Targets)] /\ known \in [Callers -> SUBSET Targets]
    /\ reply \in [Callers -> {"none", "ok", "error"}]
    /\ old \in [Callers -> SUBSET Targets] /\ alone \in [Callers -> BOOLEAN]

Flipped(c) == (old[c] \ Asked(c)) \cup (Asked(c) \ old[c])
Moves(c) == stage'[c] # stage[c] \/ todo'[c] # todo[c]
Succeeds(c) == reply[c] = "none" /\ reply'[c] = "ok"

\* While nobody else writes, a sync that stops half way has lost no link that was
\* asked for and made none that was not, and one that succeeds leaves exactly what
\* was asked (pivot_query.rs:205: "detach IDs not in ids, attach missing ones").
SyncConverges ==
    [][\A c \in Callers : work[c].op = "sync" /\ alone'[c] /\ Moves(c) =>
          /\ old'[c] \cap Asked(c) \subseteq Linked(links')
          /\ Linked(links') \subseteq old'[c] \cup Asked(c)
          /\ Succeeds(c) => Linked(links') = Asked(c)]_linkVars

\* While nobody else writes, a toggle of integer ids has changed links that were
\* asked for only, and one that succeeds has changed each of them.
ToggleFlips ==
    [][\A c \in Callers :
          work[c].op = "toggle" /\ alone'[c] /\ Moves(c) /\ idType = "i64" =>
            /\ old'[c] \ Asked(c) = Linked(links') \ Asked(c)
            /\ Succeeds(c) => Linked(links') = Flipped(c)']_linkVars

\* Statement of pivot_query.rs:282: "attach IDs not present, detach IDs already
\* present".  Violated for other keys than i64, which are never detached.
EveryToggleFlips ==
    [][\A c \in Callers :
          work[c].op = "toggle" /\ alone'[c] /\ Succeeds(c) => Linked(links') = Flipped(c)']_linkVars
=============================================================================
