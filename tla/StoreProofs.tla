----------------------------- MODULE StoreProofs -----------------------------
(***************************************************************************)
(* Proofs about Records and Store, for any clients, calls, tables, hooks   *)
(* and links: a row an upsert has locked or inserted is its own until it   *)
(* commits, and what follows for the answers of upserts, for duplicates,   *)
(* for hooks and for what a chunked insert has sent; all of it holds       *)
(* beside the calls on links, and a sync or toggle that runs alone does    *)
(* what it says.                                                           *)
(***************************************************************************)
EXTENDS Store, FiniteSetTheorems, SequenceTheorems, TLAPS

Labels == Phases \cup {"start", "asking", "sending", "chunk", "done"}
Mapped(f) == f = [c \in Clients |-> f[c]]

JobOK ==
  \A c \in Clients :
     /\ job[c].kind \in Kinds
     /\ job[c].kind # "none" => job[c].key \in Keys /\ job[c].keys \in Seq(Keys)
                                /\ job[c].chunk \in Nat
     /\ job[c].kind = "hooked" =>
           \/ job[c].call.verb = "insert" /\ job[c].keys = <<job[c].key>>
           \/ /\ job[c].call.verb \in {"update", "delete"}
              /\ job[c].call.where = "pk" /\ job[c].call.only = "any"
              /\ job[c].id \in Ids

RTypes ==
  /\ rows \in [Ids -> Row \cup {NoRow}] /\ next \in Nat \ {0}
  /\ pc \in [Clients -> Labels] /\ seen \in [Clients -> SUBSET Ids]
  /\ held \in [Clients -> Nat] /\ mine \in [Clients -> Row \cup {NoRow}]
  /\ before \in [Clients -> SUBSET Clients] /\ made \in [Clients -> Nat]
  /\ Mapped(got) /\ Mapped(hooks) /\ Mapped(answer)

\* which call can be where
Placed(c) ==
  /\ job[c].kind = "none" => pc[c] = "done"
  /\ pc[c] \in {"asking", "sending"} => job[c].kind \in {"call", "hooked"}
  /\ pc[c] = "chunk" => job[c].kind = "chunked" /\ made[c] <= Len(job[c].keys)
  /\ pc[c] \in Phases => job[c].kind \in Upserts
  /\ pc[c] = "updated" => job[c].kind = "update_or_create"
  /\ pc[c] = "start" => made[c] = 0 /\ before[c] = {} /\ hooks[c] = <<>>
  /\ pc[c] # "done" => answer[c] = "none"

Basics == JobOK /\ RTypes /\ \A c \in Clients : Placed(c)

-----------------------------------------------------------------------------
(* A step of c leaves to the other clients what is theirs.                 *)

Theirs(d) ==
  /\ pc'[d] = pc[d] /\ seen'[d] = seen[d] /\ held'[d] = held[d] /\ mine'[d] = mine[d]
  /\ got'[d] = got[d] /\ hooks'[d] = hooks[d] /\ answer'[d] = answer[d]
  /\ before'[d] = before[d] /\ made'[d] = made[d]

Own(c) ==
  /\ job' = job /\ pc[c] # "done"
  /\ pc' \in [Clients -> Labels] /\ seen' \in [Clients -> SUBSET Ids]
  /\ held' \in [Clients -> Nat] /\ mine' \in [Clients -> Row \cup {NoRow}]
  /\ before' \in [Clients -> SUBSET Clients] /\ made' \in [Clients -> Nat]
  /\ Mapped(got') /\ Mapped(hooks') /\ Mapped(answer')
  /\ \A d \in Clients \ {c} : Theirs(d)

\* the call of c is over and has given back what it held
Over(c) ==
  /\ pc'[c] = "done" /\ held'[c] = 0 /\ mine'[c] = NoRow /\ before'[c] = before[c]

LEMMA EndsIs ==
  ASSUME RTypes, NEW c \in Clients, pc[c] # "done", NEW ans, NEW result,
         Ends(c, ans, result), made' \in [Clients -> Nat],
         \A d \in Clients \ {c} : made'[d] = made[d]
  PROVE  Own(c) /\ Over(c) /\ got'[c] = result /\ answer'[c] = ans
<1>1. /\ pc' \in [Clients -> Labels] /\ held' \in [Clients -> Nat]
      /\ mine' \in [Clients -> Row \cup {NoRow}]
  BY DEF RTypes, Ends, Goto, Labels
<1>2. Mapped(got') /\ got'[c] = result /\ \A d \in Clients \ {c} : got'[d] = got[d]
  BY DEF RTypes, Ends, Mapped
<1>3. Mapped(answer') /\ answer'[c] = ans /\ \A d \in Clients \ {c} : answer'[d] = answer[d]
  BY DEF RTypes, Ends, Mapped
<1>4. Mapped(hooks') /\ \A d \in Clients \ {c} : hooks'[d] = hooks[d]
  BY DEF RTypes, Ends, Mapped
<1>5. /\ pc'[c] = "done" /\ held'[c] = 0 /\ mine'[c] = NoRow
      /\ \A d \in Clients \ {c} : pc'[d] = pc[d] /\ held'[d] = held[d] /\ mine'[d] = mine[d]
  BY DEF RTypes, Ends, Goto
<1>6. job' = job /\ seen' = seen /\ before' = before
  BY DEF Ends
<1>7. seen' \in [Clients -> SUBSET Ids] /\ before' \in [Clients -> SUBSET Clients]
  BY <1>6 DEF RTypes
<1>8. QED
  BY <1>1, <1>2, <1>3, <1>4, <1>5, <1>6, <1>7 DEF Own, Over, Theirs

Rest == rows' = rows /\ next' = next

\* rows that nobody else has locked are changed or deleted
Alters(c) ==
  /\ next' = next /\ rows' \in [Ids -> Row \cup {NoRow}]
  /\ \A id \in Ids : rows'[id] # rows[id] =>
        /\ id \in Present /\ ~LockedFor(c, id)
        /\ rows'[id] # NoRow =>
              rows'[id].key = rows[id].key /\ rows'[id].by = rows[id].by

\* rows of c are added at the end of the sequence
Adds(c) ==
  \E n \in Nat :
     /\ Room(n) /\ next' = next + n /\ rows' \in [Ids -> Row \cup {NoRow}]
     /\ \A id \in Ids : IF id \in next .. next + n - 1
                        THEN rows'[id] # NoRow /\ rows'[id].by = c
                        ELSE rows'[id] = rows[id]

LEMMA RowIs ==
  ASSUME RTypes, NEW id \in Present
  PROVE  id \in Ids /\ rows[id] \in Row
BY DEF Present, RTypes

LEMMA NewRowIs ==
  ASSUME NEW c \in Clients, NEW k \in Keys
  PROVE  /\ NewRow(c, k) \in Row /\ NewRow(c, k) # NoRow
         /\ NewRow(c, k).by = c /\ NewRow(c, k).key = k
<1>1. NewRow(c, k) \in Row
  BY DEF NewRow, Row
<1>2. QED
  BY <1>1, RecordsAssumption DEF NewRow

LEMMA WrittenAlters ==
  ASSUME RTypes, NEW c \in Clients, NEW ids \in SUBSET Present,
         NEW verb \in {"update", "delete", "trash", "restore", "touch"},
         \A id \in ids : ~LockedFor(c, id),
         rows' = Written(c, verb, ids), next' = next
  PROVE  Alters(c)
<1>1. rows \in [Ids -> Row \cup {NoRow}] /\ NoRow \notin Row
  BY RecordsAssumption DEF RTypes
<1>2. ASSUME NEW id \in Ids
      PROVE  /\ rows'[id] \in Row \cup {NoRow}
             /\ rows'[id] # rows[id] => id \in ids
             /\ id \in ids /\ rows'[id] # NoRow =>
                   rows'[id].key = rows[id].key /\ rows'[id].by = rows[id].by
  <2>1. CASE id \notin ids
    BY <1>1, <2>1 DEF Written
  <2>2. CASE id \in ids
    <3>1. rows[id] \in Row
      BY <2>2, RowIs
    <3>2. /\ [rows[id] EXCEPT !.val = c] \in Row
          /\ [rows[id] EXCEPT !.val = c].key = rows[id].key
          /\ [rows[id] EXCEPT !.val = c].by = rows[id].by
      BY <3>1 DEF Row
    <3>3. \A t \in BOOLEAN :
             /\ [rows[id] EXCEPT !.trashed = t] \in Row
             /\ [rows[id] EXCEPT !.trashed = t].key = rows[id].key
             /\ [rows[id] EXCEPT !.trashed = t].by = rows[id].by
      BY <3>1 DEF Row
    <3>4. rows'[id] \in {[rows[id] EXCEPT !.val = c], [rows[id] EXCEPT !.trashed = TRUE],
                         [rows[id] EXCEPT !.trashed = FALSE], rows[id], NoRow}
      BY <2>2 DEF Written
    <3>5. QED
      BY <2>2, <3>1, <3>2, <3>3, <3>4
  <2>3. QED
    BY <2>1, <2>2
<1>3. rows' \in [Ids -> Row \cup {NoRow}]
  BY <1>2 DEF Written
<1>4. QED
  BY <1>2, <1>3 DEF Alters

LEMMA InsertedAdds ==
  ASSUME RTypes, NEW c \in Clients, NEW keys \in Seq(Keys), Room(Len(keys)),
         rows' = Inserted(c, keys), next' = next + Len(keys)
  PROVE  Adds(c)
<1>1. rows \in [Ids -> Row \cup {NoRow}] /\ next \in Nat /\ Len(keys) \in Nat
  BY DEF RTypes
<1>2. ASSUME NEW id \in Ids, id \in next .. next + Len(keys) - 1
      PROVE  /\ rows'[id] = NewRow(c, keys[id - next + 1])
             /\ keys[id - next + 1] \in Keys
  <2>1. id - next + 1 \in 1 .. Len(keys)
    BY <1>1, <1>2 DEF Ids
  <2>2. QED
    BY <1>2, <2>1 DEF Inserted
<1>3. \A id \in Ids : id \notin next .. next + Len(keys) - 1 => rows'[id] = rows[id]
  BY DEF Inserted
<1>4. \A id \in Ids : rows'[id] \in Row \cup {NoRow}
  BY <1>1, <1>2, <1>3, NewRowIs
<1>5. rows' \in [Ids -> Row \cup {NoRow}]
  BY <1>4 DEF Inserted
<1>6. ASSUME NEW id \in Ids, id \in next .. next + Len(keys) - 1
      PROVE  rows'[id] # NoRow /\ rows'[id].by = c
  BY <1>2, <1>6, NewRowIs
<1>7. \A id \in Ids : IF id \in next .. next + Len(keys) - 1
                      THEN rows'[id] # NoRow /\ rows'[id].by = c
                      ELSE rows'[id] = rows[id]
  BY <1>3, <1>6
<1>8. QED
  BY <1>1, <1>5, <1>7 DEF Adds

-----------------------------------------------------------------------------
(* Every step of a client is of one of these kinds.                        *)

\* an ended call that was not an upsert, or one that failed
NoOk(c) == job[c].kind \in Upserts => answer'[c] # "ok"

Finishes(c) == Own(c) /\ Over(c) /\ Rest /\ NoOk(c)

\* hooks that run when a write has succeeded
Framed(c) == hooks' = IF Hooked(c) /\ answer'[c] = "ok"
                      THEN [hooks EXCEPT ![c] = Hooks(c)] ELSE hooks

Opens(c) ==
  /\ pc[c] = "start" /\ Own(c) /\ Rest
  /\ pc'[c] \in {"asking", "sending", "chunk", "begun", "done"}
  /\ held'[c] = held[c] /\ mine'[c] = mine[c] /\ made'[c] = made[c]
  /\ before'[c] = {d \in Clients : pc[d] = "done" /\ job[d].kind # "none"}
  /\ answer'[c] \in {"none", "vetoed"}
  /\ answer'[c] = "vetoed" => pc'[c] = "done"
  /\ pc'[c] # "done" => answer'[c] = "none"
  /\ job[c].kind \in Upserts /\ pc'[c] # "done" => pc'[c] = "begun"
  /\ pc'[c] = "begun" => job[c].kind \in Upserts
  /\ pc'[c] \in {"asking", "sending"} => job[c].kind \in {"call", "hooked"}
  /\ pc'[c] = "chunk" => job[c].kind = "chunked"

Idles(c) == Own(c) /\ Rest /\ Theirs(c)

\* a call that is no upsert writes
Writes(c) ==
  /\ Own(c) /\ pc[c] \in {"sending", "chunk"}
  /\ Alters(c) \/ Adds(c)
  /\ pc'[c] = "chunk" => pc[c] = "chunk" /\ answer'[c] = answer[c]
                          /\ made'[c] <= Len(job[c].keys)
  /\ job[c].kind \notin Upserts /\ pc'[c] \in {"chunk", "done"}
  /\ held'[c] = 0 /\ mine'[c] = NoRow /\ before'[c] = before[c]

Resting(c) ==
  pc[c] \notin {"found", "updated", "commit"} => held[c] = 0 /\ mine[c] = NoRow

LEMMA EndsFinishes ==
  ASSUME Basics, NEW c \in Clients, pc[c] # "done", NEW ans, NEW result,
         Ends(c, ans, result), Rest, made' = made, job[c].kind \in Upserts => ans # "ok"
  PROVE  Finishes(c)
<1>1. made' \in [Clients -> Nat] /\ \A d \in Clients \ {c} : made'[d] = made[d]
  BY DEF Basics, RTypes
<1>2. QED
  BY <1>1, EndsIs DEF Basics, Finishes, NoOk

LEMMA RefusedFinishes ==
  ASSUME Basics, NEW c \in Clients, pc[c] # "done", Refused(c)
  PROVE  Finishes(c)
BY EndsFinishes DEF Refused, Rest

LEMMA SelectFinishes ==
  ASSUME Basics, NEW c \in Clients, Select(c)
  PROVE  Finishes(c)
<1>1. PICK ids :
        Ends(c, IF job[c].call.answer = "fail" /\ ids = {} THEN "not found" ELSE "ok",
             Pairs(rows, ids))
  BY DEF Select
<1>2. pc[c] = "sending" /\ Rest /\ made' = made
  BY DEF Select, Sending, Rest
<1>3. job[c].kind \notin Upserts
  BY <1>2 DEF Basics, Placed, Upserts
<1>4. QED
  BY <1>1, <1>2, <1>3, EndsFinishes

LEMMA OthersFinish ==
  ASSUME Basics, NEW c \in Clients,
         \/ StackOverflows(c) \/ ChunkSizePanics(c) \/ ChunksDone(c)
         \/ StatementFails(c) \/ ChunkFails(c) \/ UpsertFails(c) \/ IndexRefuses(c)
  PROVE  Finishes(c)
<1>1. CASE StackOverflows(c)
  BY <1>1, EndsFinishes DEF StackOverflows, Rest
<1>2. CASE ChunkSizePanics(c)
  BY <1>2, EndsFinishes DEF ChunkSizePanics, Rest
<1>3. CASE ChunksDone(c)
  <2>1. job[c].kind \notin Upserts
    BY <1>3 DEF ChunksDone, Basics, Placed, Upserts
  <2>2. QED
    BY <1>3, <2>1, EndsFinishes DEF ChunksDone, Rest
<1>4. CASE StatementFails(c) \/ ChunkFails(c) \/ UpsertFails(c) \/ IndexRefuses(c)
  BY <1>4, RefusedFinishes DEF StatementFails, ChunkFails, UpsertFails, IndexRefuses,
     Phases, Sending
<1>5. QED
  BY <1>1, <1>2, <1>3, <1>4

LEMMA BeginsOpens ==
  ASSUME Basics, NEW c \in Clients, Start(c) \/ HooksPass(c) \/ HooksVeto(c)
  PROVE  Opens(c)
<1>1. pc[c] = "start" /\ job' = job /\ Rest
      /\ UNCHANGED <<seen, held, mine, made, got>>
  BY DEF Start, HooksPass, HooksVeto, Begins, Rest
<1>2. before' = [before EXCEPT ![c] =
          {d \in Clients : pc[d] = "done" /\ job[d].kind # "none"}]
  BY DEF Start, HooksPass, HooksVeto, Begins
<1>3. /\ before' \in [Clients -> SUBSET Clients]
      /\ before'[c] = {d \in Clients : pc[d] = "done" /\ job[d].kind # "none"}
      /\ \A d \in Clients \ {c} : before'[d] = before[d]
  BY <1>2 DEF Basics, RTypes
<1>4. PICK l \in {"asking", "sending", "chunk", "begun", "done"} :
        /\ pc' = [pc EXCEPT ![c] = l]
        /\ job[c].kind \in Upserts /\ l # "done" => l = "begun"
        /\ l = "done" <=> HooksVeto(c)
        /\ l = "begun" => job[c].kind \in Upserts
        /\ l \in {"asking", "sending"} => job[c].kind \in {"call", "hooked"}
        /\ l = "chunk" => job[c].kind = "chunked"
  <2>1. job[c].kind \in Kinds \ {"none"}
    BY <1>1 DEF Basics, JobOK, Placed
  <2>2. /\ FirstLabel(c) \in {"asking", "sending", "chunk", "begun"}
        /\ FirstLabel(c) = "begun" <=> job[c].kind \in Upserts
        /\ FirstLabel(c) \in {"asking", "sending"} => job[c].kind \in {"call", "hooked"}
        /\ FirstLabel(c) = "chunk" => job[c].kind = "chunked"
    BY <2>1 DEF FirstLabel, Kinds, Upserts
  <2>3. CASE Start(c) \/ HooksPass(c)
    <3>1. ~HooksVeto(c)
      BY <2>3 DEF Start, HooksPass, HooksVeto
    <3>2. pc' = [pc EXCEPT ![c] = FirstLabel(c)]
      BY <2>3 DEF Start, HooksPass, Begins, Goto
    <3>3. QED
      BY <2>2, <3>1, <3>2
  <2>4. CASE HooksVeto(c)
    BY <2>4 DEF HooksVeto, Begins, Goto
  <2>5. QED
    BY <2>3, <2>4
<1>5. /\ pc' \in [Clients -> Labels] /\ pc'[c] = l
      /\ \A d \in Clients \ {c} : pc'[d] = pc[d]
  BY <1>4 DEF Basics, RTypes, Labels, Phases
<1>6. /\ Mapped(hooks') /\ \A d \in Clients \ {c} : hooks'[d] = hooks[d]
      /\ Mapped(answer') /\ \A d \in Clients \ {c} : answer'[d] = answer[d]
      /\ HooksVeto(c) => answer'[c] = "vetoed"
      /\ ~HooksVeto(c) => answer'[c] = answer[c]
  <2>1. CASE Start(c)
    BY <2>1 DEF Start, HooksVeto, Basics, RTypes, Mapped
  <2>2. CASE HooksPass(c)
    BY <2>2 DEF HooksPass, HooksVeto, Basics, RTypes, Mapped
  <2>3. CASE HooksVeto(c)
    BY <2>3 DEF HooksVeto, Basics, RTypes, Mapped
  <2>4. QED
    BY <2>1, <2>2, <2>3
<1>7. answer[c] = "none"
  BY <1>1 DEF Basics, Placed
<1>8. Own(c)
  BY <1>1, <1>3, <1>5, <1>6 DEF Own, Theirs, Basics, RTypes
<1>9. QED
  BY <1>1, <1>3, <1>4, <1>5, <1>6, <1>7, <1>8 DEF Opens

LEMMA AskedIdles ==
  ASSUME Basics, NEW c \in Clients, RepositoryAsked(c)
  PROVE  Idles(c)
BY DEF RepositoryAsked, Idles, Own, Rest, Theirs, Basics, RTypes

LEMMA ExecutedWrites ==
  ASSUME Basics, NEW c \in Clients, pc[c] = "sending", NEW n, NEW table, NEW result,
         Executed(c, table, n, result), Alters(c) \/ Adds(c)
  PROVE  Writes(c)
<1>1. made' = made /\ made' \in [Clients -> Nat]
  BY DEF Executed, Basics, RTypes
<1>2. Own(c) /\ Over(c)
  BY <1>1, EndsIs DEF Executed, Basics
<1>3. job[c].kind \notin Upserts
  BY DEF Basics, Placed, Upserts
<1>4. QED
  BY <1>2, <1>3 DEF Writes, Over

LEMMA InsertWrites ==
  ASSUME Basics, NEW c \in Clients, Insert(c)
  PROVE  Writes(c)
<1>1. job[c].keys \in Seq(Keys) /\ pc[c] = "sending"
  BY DEF Insert, Sending, Basics, JobOK, Placed
<1>2. PICK table, result :
         /\ table = Inserted(c, job[c].keys)
         /\ Executed(c, table, Len(job[c].keys), result)
  BY DEF Insert
<1>3. Room(Len(job[c].keys)) /\ rows' = table /\ next' = next + Len(job[c].keys)
  BY <1>2 DEF Insert, Executed
<1>4. Adds(c)
  BY <1>1, <1>2, <1>3, InsertedAdds DEF Basics
<1>5. QED
  BY <1>1, <1>2, <1>4, ExecutedWrites

LEMMA ChangeWrites ==
  ASSUME Basics, NEW c \in Clients, Change(c)
  PROVE  Writes(c)
<1>1. PICK ids \in Matches(c) :
         /\ \A id \in ids : ~LockedFor(c, id)
         /\ Executed(c, Written(c, job[c].call.verb, ids), 0, Pairs(rows, ids))
  BY DEF Change
<1>2. ids \in SUBSET Present
  BY DEF Matches
<1>3. pc[c] = "sending"
      /\ job[c].call.verb \in {"update", "delete", "trash", "restore", "touch"}
  BY DEF Change, Sending
<1>4. rows' = Written(c, job[c].call.verb, ids) /\ next' = next
  BY <1>1 DEF Executed, Basics, RTypes
<1>5. Alters(c)
  BY <1>1, <1>2, <1>3, <1>4, WrittenAlters DEF Basics
<1>6. QED
  BY <1>1, <1>3, <1>5, ExecutedWrites

LEMMA UpsertWrites ==
  ASSUME Basics, NEW c \in Clients, Upsert(c)
  PROVE  Writes(c)
<1> DEFINE matching == {id \in Present : rows[id].key = job[c].key}
<1>1. pc[c] = "sending" /\ job[c].key \in Keys /\ \A id \in matching : ~LockedFor(c, id)
  BY DEF Upsert, Sending, Basics, JobOK, Placed
<1>2. CASE matching # {}
  <2>1. PICK result : Executed(c, Written(c, "update", matching), 0, result)
    BY <1>2 DEF Upsert
  <2>2. rows' = Written(c, "update", matching) /\ next' = next
    BY <2>1 DEF Executed, Basics, RTypes
  <2>3. Alters(c)
    BY <1>1, <2>2, WrittenAlters DEF Basics
  <2>4. QED
    BY <1>1, <2>1, <2>3, ExecutedWrites
<1>3. CASE matching = {}
  <2>1. PICK result : Executed(c, Inserted(c, <<job[c].key>>), 1, result)
    BY <1>3 DEF Upsert
  <2>2. Room(1)
    BY <1>3 DEF Upsert
  <2>3. /\ <<job[c].key>> \in Seq(Keys) /\ Len(<<job[c].key>>) = 1
        /\ rows' = Inserted(c, <<job[c].key>>) /\ next' = next + 1
    BY <1>1, <2>1 DEF Executed
  <2>4. Adds(c)
    BY <2>2, <2>3, InsertedAdds DEF Basics
  <2>5. QED
    BY <1>1, <2>1, <2>4, ExecutedWrites
<1>4. QED
  BY <1>2, <1>3

LEMMA ChunkWrites ==
  ASSUME Basics, NEW c \in Clients, Resting(c), ChunkInserted(c)
  PROVE  Writes(c)
<1>1. /\ pc[c] = "chunk" /\ made[c] \in Nat /\ job[c].kind = "chunked"
      /\ job[c].keys \in Seq(Keys) /\ job[c].chunk \in Nat /\ Len(job[c].keys) \in Nat
      /\ made[c] < Len(job[c].keys)
  BY DEF ChunkInserted, Basics, Placed, JobOK, RTypes
<1>2. /\ ChunkLen(c) \in Nat /\ made[c] + ChunkLen(c) <= Len(job[c].keys)
  BY <1>1 DEF ChunkLen
<1>3. ChunkKeys(c) \in Seq(Keys) /\ Len(ChunkKeys(c)) = ChunkLen(c)
  <2> DEFINE m == made[c] + 1
             n == made[c] + ChunkLen(c)
  <2>1. m \in Int /\ n \in Int /\ (IF m <= n THEN n - m + 1 ELSE 0) = ChunkLen(c)
    BY <1>1, <1>2
  <2>2. \A i \in m .. n : job[c].keys[i] \in Keys
    <3>1. \A i \in m .. n : i \in 1 .. Len(job[c].keys)
      BY <1>1, <1>2
    <3>2. QED
      BY <1>1, <3>1
  <2> HIDE DEF m, n
  <2>3. /\ SubSeq(job[c].keys, m, n) \in Seq(Keys)
        /\ Len(SubSeq(job[c].keys, m, n)) = IF m <= n THEN n - m + 1 ELSE 0
    BY <2>1, <2>2, SubSeqProperties
  <2>4. QED
    BY <2>1, <2>3 DEF ChunkKeys, m, n
<1>4. Adds(c)
  BY <1>3, InsertedAdds DEF ChunkInserted, Basics
<1>5. made' \in [Clients -> Nat] /\ made'[c] = made[c] + ChunkLen(c)
      /\ \A d \in Clients \ {c} : made'[d] = made[d]
  BY <1>1, <1>2 DEF ChunkInserted, Basics, RTypes
<1>6. CASE Ends(c, "error", {})
  <2>1. Own(c) /\ Over(c)
    BY <1>1, <1>5, <1>6, EndsIs DEF Basics
  <2>2. QED
    BY <1>1, <1>4, <2>1 DEF Writes, Over, Upserts
<1>7. CASE UNCHANGED <<job, repo, unique, pc, seen, held, mine, got, hooks, depth, answer, before>>
  <2>1. Own(c)
    BY <1>1, <1>5, <1>7 DEF Own, Theirs, Basics, RTypes
  <2>2. held[c] = 0 /\ mine[c] = NoRow
    BY <1>1 DEF Resting
  <2>3. QED
    BY <1>1, <1>2, <1>4, <1>5, <1>7, <2>1, <2>2 DEF Writes, Upserts
<1>8. QED
  BY <1>6, <1>7 DEF ChunkInserted

-----------------------------------------------------------------------------
(* The steps of an upsert.                                                 *)

\* an upsert goes on: nothing is written yet
Goes(c, label) ==
  /\ Own(c) /\ rows' = rows /\ pc'[c] = label /\ job[c].kind \in Upserts
  /\ before'[c] = before[c] /\ answer'[c] = answer[c] /\ made' = made

SelectsRows(c) ==
  /\ pc[c] = "begun" /\ Goes(c, "scan") /\ next' = next
  /\ seen'[c] = Found(job[c].key) /\ held'[c] = held[c] /\ mine'[c] = mine[c]

LocksRow(c) ==
  /\ pc[c] = "scan" /\ Goes(c, "found") /\ next' = next
  /\ \E id \in seen[c] \cap Found(job[c].key) :
        /\ ~LockedFor(c, id) /\ held'[c] = id /\ mine'[c] = rows[id]
        /\ got'[c] = {<<id, rows[id]>>}

SkipsRow(c) ==
  /\ pc[c] = "scan" /\ Goes(c, "scan") /\ next' = next
  /\ held'[c] = held[c] /\ mine'[c] = mine[c]
  /\ \E id : id \notin Found(job[c].key) /\ seen'[c] = seen[c] \ {id}

FindsNone(c) ==
  /\ pc[c] = "scan" /\ seen[c] = {} /\ Goes(c, "missing") /\ next' = next
  /\ held'[c] = held[c] /\ mine'[c] = mine[c]

Finds(c) ==
  /\ pc[c] = "found" /\ Own(c) /\ Over(c) /\ Rest /\ got'[c] = got[c]
  /\ job[c].kind = "first_or_create"

Updates(c) ==
  /\ pc[c] = "found" /\ Goes(c, "updated") /\ next' = next
  /\ held'[c] = held[c] /\ mine'[c] = [mine[c] EXCEPT !.val = c]
  /\ job[c].kind = "update_or_create"

Reselects(c) ==
  /\ pc[c] = "updated" /\ Goes(c, "commit") /\ next' = next
  /\ held'[c] = held[c] /\ mine'[c] = mine[c] /\ got'[c] = {<<held[c], mine[c]>>}

InsertsRow(c) ==
  /\ pc[c] = "missing" /\ Goes(c, "commit") /\ Room(1) /\ next' = next + 1
  /\ held'[c] = next /\ mine'[c] = NewRow(c, job[c].key)
  /\ got'[c] = {<<next, NewRow(c, job[c].key)>>}

Commits(c) ==
  /\ pc[c] = "commit" /\ Own(c) /\ Over(c) /\ next' = next
  /\ rows' = [rows EXCEPT ![held[c]] = mine[c]]
  /\ answer'[c] = "ok" => got'[c] = got[c]

UpsertStep(c) ==
  \/ SelectsRows(c) \/ LocksRow(c) \/ SkipsRow(c) \/ FindsNone(c) \/ Finds(c)
  \/ Updates(c) \/ Reselects(c) \/ InsertsRow(c) \/ Commits(c)

LEMMA MineTypes ==
  ASSUME Basics, NEW c \in Clients, NEW r \in Row, mine' = [mine EXCEPT ![c] = r]
  PROVE  /\ mine' \in [Clients -> Row \cup {NoRow}] /\ mine'[c] = r
         /\ \A d \in Clients \ {c} : mine'[d] = mine[d]
BY DEF Basics, RTypes

LEMMA PhaseTypes ==
  ASSUME Basics, NEW c \in Clients, NEW l \in Phases, Goto(c, l)
  PROVE  /\ pc' \in [Clients -> Labels] /\ pc'[c] = l
         /\ \A d \in Clients \ {c} : pc'[d] = pc[d]
BY DEF Basics, RTypes, Goto, Labels

LEMMA GotTypes ==
  ASSUME Basics, NEW c \in Clients, NEW r, got' = [got EXCEPT ![c] = r]
  PROVE  Mapped(got') /\ got'[c] = r /\ \A d \in Clients \ {c} : got'[d] = got[d]
BY DEF Basics, RTypes, Mapped

LEMMA HeldTypes ==
  ASSUME Basics, NEW c \in Clients, NEW n \in Nat, held' = [held EXCEPT ![c] = n]
  PROVE  /\ held' \in [Clients -> Nat] /\ held'[c] = n
         /\ \A d \in Clients \ {c} : held'[d] = held[d]
BY DEF Basics, RTypes

LEMMA SeenTypes ==
  ASSUME Basics, NEW c \in Clients, NEW S \in SUBSET Ids, seen' = [seen EXCEPT ![c] = S]
  PROVE  /\ seen' \in [Clients -> SUBSET Ids] /\ seen'[c] = S
         /\ \A d \in Clients \ {c} : seen'[d] = seen[d]
BY DEF Basics, RTypes

LEMMA FoundIs == \A key : Found(key) \in SUBSET Ids
BY DEF Found, Present

LEMMA SelectsIs ==
  ASSUME Basics, NEW c \in Clients, SelectForUpdate(c)
  PROVE  SelectsRows(c)
<1>1. "scan" \in Phases
  BY DEF Phases
<1>2. QED
  BY <1>1, PhaseTypes, SeenTypes, FoundIs DEF SelectForUpdate, SelectsRows, Goes, Own,
     Theirs, InPhase, Basics, RTypes

LEMMA LocksIs ==
  ASSUME Basics, NEW c \in Clients, LockRow(c)
  PROVE  LocksRow(c) \/ SkipsRow(c)
<1>1. PICK id \in seen[c] :
          /\ ~LockedFor(c, id)
          /\ \/ /\ id \in Found(job[c].key)
                /\ held' = [held EXCEPT ![c] = id]
                /\ mine' = [mine EXCEPT ![c] = rows[id]]
                /\ got' = [got EXCEPT ![c] = Pairs(rows, {id})]
                /\ Goto(c, "found") /\ UNCHANGED seen
             \/ /\ id \notin Found(job[c].key)
                /\ seen' = [seen EXCEPT ![c] = @ \ {id}]
                /\ UNCHANGED <<pc, held, mine, got>>
  BY DEF LockRow
<1>2. /\ pc[c] = "scan" /\ job[c].kind \in Upserts
      /\ UNCHANGED <<job, rows, next, made, hooks, answer, before>>
  BY DEF LockRow, InPhase
<1>3. id \in Ids /\ id \in Nat
  BY DEF Basics, RTypes, Ids
<1>4. CASE id \in Found(job[c].key)
  <2>1. rows[id] \in Row
    BY <1>4, RowIs DEF Found, Basics
  <2>2. Pairs(rows, {id}) = {<<id, rows[id]>>}
    BY DEF Pairs
  <2>3. /\ held' = [held EXCEPT ![c] = id] /\ mine' = [mine EXCEPT ![c] = rows[id]]
        /\ got' = [got EXCEPT ![c] = {<<id, rows[id]>>}]
        /\ Goto(c, "found") /\ UNCHANGED seen
    BY <1>1, <1>4, <2>2
  <2>4. "found" \in Phases
    BY DEF Phases
  <2>5. /\ held' \in [Clients -> Nat] /\ held'[c] = id
        /\ \A d \in Clients \ {c} : held'[d] = held[d]
    BY <1>3, <2>3, HeldTypes
  <2>6. Own(c)
    BY <1>2, <2>1, <2>3, <2>4, <2>5, PhaseTypes, MineTypes, GotTypes, ZenonT(60)
       DEF Own, Theirs, Basics, RTypes
  <2>7. pc'[c] = "found" /\ mine'[c] = rows[id]
    BY <2>1, <2>3, <2>4, PhaseTypes, MineTypes
  <2>8. got'[c] = {<<id, rows[id]>>}
    BY <2>3, GotTypes
  <2>9. QED
    BY <1>1, <1>2, <1>4, <2>5, <2>6, <2>7, <2>8 DEF LocksRow, Goes
<1>5. CASE id \notin Found(job[c].key)
  <2>1. seen' = [seen EXCEPT ![c] = seen[c] \ {id}] /\ UNCHANGED <<pc, held, mine, got>>
    BY <1>1, <1>5
  <2>2. seen[c] \ {id} \in SUBSET Ids
    BY DEF Basics, RTypes
  <2>3. Own(c)
    BY <1>2, <2>1, <2>2, SeenTypes DEF Own, Theirs, Basics, RTypes
  <2>4. QED
    BY <1>2, <1>5, <2>1, <2>2, <2>3, SeenTypes DEF SkipsRow, Goes
<1>6. QED
  BY <1>4, <1>5

LEMMA NoneIs ==
  ASSUME Basics, NEW c \in Clients, NoneFound(c)
  PROVE  FindsNone(c)
<1>1. "missing" \in Phases
  BY DEF Phases
<1>2. QED
  BY <1>1, PhaseTypes DEF NoneFound, FindsNone, Goes, Own, Theirs, InPhase, Basics, RTypes

LEMMA FindsIs ==
  ASSUME Basics, NEW c \in Clients, FirstFound(c)
  PROVE  Finds(c)
<1>1. /\ pc[c] = "found" /\ job[c].kind = "first_or_create" /\ Rest /\ made' = made
      /\ Ends(c, "ok", got[c])
  BY DEF FirstFound, InPhase, Rest
<1>2. made' \in [Clients -> Nat] /\ \A d \in Clients \ {c} : made'[d] = made[d]
  BY <1>1 DEF Basics, RTypes
<1>3. QED
  BY <1>1, <1>2, EndsIs DEF Finds, Basics

LEMMA UpdatesIs ==
  ASSUME Basics, NEW c \in Clients, mine[c] \in Row, UpdateFound(c)
  PROVE  Updates(c)
<1>1. "updated" \in Phases
  BY DEF Phases
<1>2. mine' = [mine EXCEPT ![c] = [mine[c] EXCEPT !.val = c]]
  BY DEF UpdateFound
<1>3. [mine[c] EXCEPT !.val = c] \in Row
  BY DEF Row
<1> DEFINE r == [mine[c] EXCEPT !.val = c]
<1> HIDE DEF r
<1>4. /\ mine' \in [Clients -> Row \cup {NoRow}] /\ mine'[c] = r
      /\ \A d \in Clients \ {c} : mine'[d] = mine[d]
  BY <1>2, <1>3, MineTypes DEF r
<1>5. Goto(c, "updated") /\ UNCHANGED <<job, rows, next, seen, held, got, made, hooks, answer, before>>
      /\ pc[c] = "found" /\ job[c].kind = "update_or_create"
  BY DEF UpdateFound, InPhase
<1>6. Own(c)
  BY <1>1, <1>4, <1>5, PhaseTypes DEF Own, Theirs, Basics, RTypes
<1>7. QED
  BY <1>1, <1>4, <1>5, <1>6, PhaseTypes DEF Updates, Goes, Upserts, r

LEMMA ReselectsIs ==
  ASSUME Basics, NEW c \in Clients, Reselect(c)
  PROVE  Reselects(c)
<1>1. "commit" \in Phases
  BY DEF Phases
<1>2. Goto(c, "commit") /\ UNCHANGED <<job, rows, next, seen, held, mine, made, hooks, answer, before>>
      /\ pc[c] = "updated" /\ job[c].kind \in Upserts
      /\ got' = [got EXCEPT ![c] = {<<held[c], mine[c]>>}]
  BY DEF Reselect, InPhase, Upserts
<1>3. Own(c)
  BY <1>1, <1>2, PhaseTypes, GotTypes DEF Own, Theirs, Basics, RTypes
<1>4. QED
  BY <1>1, <1>2, <1>3, PhaseTypes, GotTypes DEF Reselects, Goes

LEMMA InsertsIs ==
  ASSUME Basics, NEW c \in Clients, InsertMissing(c)
  PROVE  InsertsRow(c)
<1>1. "commit" \in Phases
  BY DEF Phases
<1>2. /\ Goto(c, "commit") /\ UNCHANGED <<job, rows, seen, made, hooks, answer, before>>
      /\ pc[c] = "missing" /\ job[c].kind \in Upserts /\ Room(1) /\ next' = next + 1
      /\ held' = [held EXCEPT ![c] = next]
      /\ mine' = [mine EXCEPT ![c] = NewRow(c, job[c].key)]
      /\ got' = [got EXCEPT ![c] = {<<next, NewRow(c, job[c].key)>>}]
  BY DEF InsertMissing, InPhase
<1>3. job[c].key \in Keys /\ NewRow(c, job[c].key) \in Row /\ next \in Nat
  BY <1>2, NewRowIs DEF Basics, JobOK, Upserts, RTypes
<1>4. Own(c)
  BY <1>1, <1>2, <1>3, PhaseTypes, GotTypes, MineTypes, HeldTypes, ZenonT(60)
     DEF Own, Theirs, Basics, RTypes
<1>5. /\ pc'[c] = "commit" /\ held'[c] = next /\ mine'[c] = NewRow(c, job[c].key)
      /\ got'[c] = {<<next, NewRow(c, job[c].key)>>}
  <2>1. pc'[c] = "commit"
    BY <1>1, <1>2, PhaseTypes
  <2>2. held'[c] = next
    BY <1>2, <1>3, HeldTypes
  <2>3. mine'[c] = NewRow(c, job[c].key)
    BY <1>2, <1>3, MineTypes
  <2>4. got'[c] = {<<next, NewRow(c, job[c].key)>>}
    BY <1>2, GotTypes
  <2>5. QED
    BY <2>1, <2>2, <2>3, <2>4
<1>6. QED
  BY <1>2, <1>4, <1>5 DEF InsertsRow, Goes

LEMMA CommitsIs ==
  ASSUME Basics, NEW c \in Clients, Commit(c)
  PROVE  Commits(c)
<1>1. /\ pc[c] = "commit" /\ next' = next /\ made' = made
      /\ rows' = [rows EXCEPT ![held[c]] = mine[c]]
      /\ Ends(c, "ok", got[c]) \/ Ends(c, "error", {})
  BY DEF Commit, InPhase
<1>2. made' \in [Clients -> Nat] /\ \A d \in Clients \ {c} : made'[d] = made[d]
  BY <1>1 DEF Basics, RTypes
<1>3. CASE Ends(c, "ok", got[c])
  BY <1>1, <1>2, <1>3, EndsIs DEF Commits, Basics
<1>4. CASE Ends(c, "error", {})
  BY <1>1, <1>2, <1>4, EndsIs DEF Commits, Basics
<1>5. QED
  BY <1>1, <1>3, <1>4

-----------------------------------------------------------------------------
(* What an upsert has locked or inserted is its own.                       *)

Holding(c) ==
  /\ Resting(c)
  /\ held[c] < next
  /\ pc[c] \in {"found", "updated", "commit"} =>
        held[c] \in Ids /\ mine[c] \in Row /\ mine[c].key = job[c].key
  /\ pc[c] = "found" =>
        rows[held[c]] = mine[c] /\ got[c] = {<<held[c], mine[c]>>}
  /\ pc[c] = "updated" =>
        /\ rows[held[c]] \in Row /\ mine[c].val = c /\ mine[c].by = rows[held[c]].by
        /\ rows[held[c]].key = mine[c].key
  /\ pc[c] = "commit" =>
        /\ got[c] = {<<held[c], mine[c]>>}
        /\ job[c].kind = "update_or_create" => mine[c].val = c
        /\ \/ /\ rows[held[c]] \in Row /\ mine[c].by = rows[held[c]].by
              /\ rows[held[c]].key = mine[c].key
           \/ rows[held[c]] = NoRow /\ mine[c].by = c

Fresh == \A id \in Present : id < next
Apart == \A c, d \in Clients : c # d /\ held[c] # 0 => held[c] # held[d]

Owned == Fresh /\ Apart /\ \A c \in Clients : Holding(c)

StepOf(c) ==
  Finishes(c) \/ Opens(c) \/ Idles(c) \/ Writes(c) \/ UpsertStep(c)

LEMMA StepsAre ==
  ASSUME Basics, Owned, NEW c \in Clients, Step(c) \/ Fails(c)
  PROVE  StepOf(c)
<1>1. Resting(c) /\ (pc[c] = "found" => mine[c] \in Row)
  BY DEF Owned, Holding
<1>2. CASE Start(c) \/ HooksPass(c) \/ HooksVeto(c) \/ RepositoryAsked(c)
  BY <1>2, BeginsOpens, AskedIdles DEF StepOf
<1>3. CASE Select(c) \/ StackOverflows(c) \/ ChunkSizePanics(c) \/ ChunksDone(c)
           \/ StatementFails(c) \/ ChunkFails(c) \/ UpsertFails(c) \/ IndexRefuses(c)
  BY <1>3, SelectFinishes, OthersFinish DEF StepOf
<1>4. CASE Insert(c) \/ Change(c) \/ Upsert(c) \/ ChunkInserted(c)
  BY <1>1, <1>4, InsertWrites, ChangeWrites, UpsertWrites, ChunkWrites DEF StepOf
<1>5. CASE Upserting(c)
  <2>1. CASE UpdateFound(c)
    BY <1>1, <2>1, UpdatesIs DEF UpdateFound, InPhase, StepOf, UpsertStep
  <2>2. QED
    BY <1>5, <2>1, SelectsIs, LocksIs, NoneIs, FindsIs, ReselectsIs, InsertsIs, CommitsIs
       DEF Upserting, StepOf, UpsertStep
<1>6. QED
  BY <1>2, <1>3, <1>4, <1>5 DEF Step, Fails, Chunked

LEMMA StepOwn ==
  ASSUME NEW c \in Clients, StepOf(c)
  PROVE  Own(c)
BY DEF StepOf, Finishes, Opens, Idles, Writes, UpsertStep, SelectsRows, LocksRow,
   SkipsRow, FindsNone, Finds, Updates, Reselects, InsertsRow, Commits, Goes

LEMMA StepRows ==
  ASSUME Basics, Owned, NEW c \in Clients, StepOf(c)
  PROVE  rows' \in [Ids -> Row \cup {NoRow}] /\ next' \in Nat \ {0}
<1>1. rows \in [Ids -> Row \cup {NoRow}] /\ next \in Nat \ {0}
  BY DEF Basics, RTypes
<1>2. CASE Writes(c)
  <2>1. CASE Alters(c)
    BY <1>1, <2>1 DEF Alters
  <2>2. ASSUME NEW n \in Nat, next' = next + n, rows' \in [Ids -> Row \cup {NoRow}]
        PROVE  rows' \in [Ids -> Row \cup {NoRow}] /\ next' \in Nat \ {0}
    BY <1>1, <2>2
  <2>3. CASE Adds(c)
    BY <2>2, <2>3 DEF Adds
  <2>4. QED
    BY <1>2, <2>1, <2>3 DEF Writes
<1>3. CASE Commits(c)
  <2>1. mine[c] \in Row
    BY <1>3 DEF Commits, Owned, Holding
  <2>2. QED
    BY <1>1, <1>3, <2>1 DEF Commits
<1>4. CASE ~Writes(c) /\ ~Commits(c)
  BY <1>1, <1>4 DEF StepOf, Finishes, Opens, Idles, UpsertStep, SelectsRows, LocksRow,
     SkipsRow, FindsNone, Finds, Updates, Reselects, InsertsRow, Goes, Rest
<1>5. QED
  BY <1>2, <1>3, <1>4

LEMMA StepPlaced ==
  ASSUME Basics, NEW c \in Clients, StepOf(c)
  PROVE  Placed(c)'
<1>1. job' = job /\ Placed(c)
  BY StepOwn DEF Own, Basics
<1>2. job[c].kind # "none"
  BY <1>1, StepOwn DEF Own, Placed
<1>3. CASE Finishes(c) \/ Finds(c) \/ Commits(c)
  BY <1>1, <1>2, <1>3 DEF Finishes, Finds, Commits, Over, Placed, Phases
<1>4. CASE Opens(c)
  <2>1. made'[c] = 0
    BY <1>1, <1>4 DEF Opens, Placed
  <2>2. pc'[c] = "chunk" => job[c].keys \in Seq(Keys)
    BY <1>2 DEF Basics, JobOK
  <2>3. QED
    BY <1>1, <1>2, <1>4, <2>1, <2>2 DEF Opens, Placed, Phases
<1>5. CASE Idles(c)
  BY <1>1, <1>5 DEF Idles, Theirs, Placed
<1>6. CASE Writes(c)
  BY <1>1, <1>2, <1>6 DEF Writes, Placed, Phases
<1>7. CASE UpsertStep(c) /\ ~Finds(c) /\ ~Commits(c)
  <2>1. PICK l \in {"scan", "found", "missing", "updated", "commit"} :
          /\ Goes(c, l) /\ (l = "updated" => job[c].kind = "update_or_create")
          /\ pc[c] \in Phases
    BY <1>7 DEF UpsertStep, SelectsRows, LocksRow, SkipsRow, FindsNone, Updates, Reselects,
       InsertsRow, Phases
  <2>2. QED
    BY <1>1, <1>2, <2>1 DEF Goes, Placed, Phases, Upserts
<1>8. QED
  BY <1>3, <1>4, <1>5, <1>6, <1>7 DEF StepOf, UpsertStep

LEMMA BasicsStep ==
  ASSUME Basics, Owned, NEW c \in Clients, StepOf(c)
  PROVE  Basics'
<1>1. Own(c) /\ job' = job
  BY StepOwn DEF Own
<1>2. JobOK'
  BY <1>1 DEF Basics, JobOK
<1>3. RTypes'
  BY <1>1, StepRows DEF Own, RTypes
<1>4. ASSUME NEW d \in Clients \ {c}
      PROVE  Placed(d)'
  BY <1>1, ZenonT(60) DEF Own, Theirs, Basics, Placed
<1>5. QED
  BY <1>2, <1>3, <1>4, StepPlaced DEF Basics

\* a step of c leaves the rows alone that others have locked or inserted
RowsOfOthers(c) ==
  \A d \in Clients \ {c} : held[d] \in Ids => rows'[held[d]] = rows[held[d]]

LEMMA IdsAre == Ids \subseteq Nat \ {0} /\ (Room(1) /\ next \in Nat \ {0} => next \in Ids)
BY RecordsAssumption DEF Ids, Room

LEMMA RowsStep ==
  ASSUME Basics, Owned, NEW c \in Clients, StepOf(c)
  PROVE  RowsOfOthers(c) /\ Fresh' /\ next <= next'
<1>1. /\ rows \in [Ids -> Row \cup {NoRow}] /\ next \in Nat \ {0}
      /\ held \in [Clients -> Nat] /\ Fresh /\ Apart
      /\ \A d \in Clients : held[d] < next
  BY DEF Basics, RTypes, Owned, Holding
<1>2. CASE rows' = rows /\ next' \in {next, next + 1}
  BY <1>1, <1>2, IdsAre DEF RowsOfOthers, Fresh, Present
<1>3. CASE Alters(c)
  <2>1. \A id \in Ids : rows'[id] # NoRow => rows[id] # NoRow
    BY <1>3 DEF Alters, Present
  <2>2. Fresh'
    BY <1>1, <1>3, <2>1 DEF Fresh, Present, Alters
  <2>3. RowsOfOthers(c)
    BY <1>3 DEF RowsOfOthers, Alters, LockedFor
  <2>4. QED
    BY <1>1, <1>3, <2>2, <2>3 DEF Alters
<1>4. CASE Adds(c)
  <2>1. PICK n \in Nat :
     /\ Room(n) /\ next' = next + n /\ rows' \in [Ids -> Row \cup {NoRow}]
     /\ \A id \in Ids : IF id \in next .. next + n - 1
                        THEN rows'[id] # NoRow /\ rows'[id].by = c
                        ELSE rows'[id] = rows[id]
    BY <1>4 DEF Adds
  <2>2. Fresh'
    BY <1>1, <2>1, IdsAre DEF Fresh, Present
  <2>3. RowsOfOthers(c)
    BY <1>1, <2>1 DEF RowsOfOthers
  <2>4. QED
    BY <1>1, <2>1, <2>2, <2>3
<1>5. CASE Commits(c)
  <2>1. rows' = [rows EXCEPT ![held[c]] = mine[c]] /\ next' = next
        /\ held[c] \in Ids /\ held[c] < next /\ held[c] # 0
    BY <1>5, IdsAre DEF Commits, Owned, Holding
  <2>2. RowsOfOthers(c)
    BY <1>1, <2>1 DEF RowsOfOthers, Apart
  <2>3. Fresh'
    BY <1>1, <2>1 DEF Fresh, Present
  <2>4. QED
    BY <1>1, <2>1, <2>2, <2>3
<1>6. CASE ~Writes(c) /\ ~Commits(c)
  <2>1. rows' = rows /\ next' \in {next, next + 1}
    BY <1>6 DEF StepOf, Finishes, Opens, Idles, UpsertStep, SelectsRows, LocksRow,
       SkipsRow, FindsNone, Finds, Updates, Reselects, InsertsRow, Goes, Rest
  <2>2. QED
    BY <1>2, <2>1
<1>7. QED
  BY <1>3, <1>4, <1>5, <1>6 DEF Writes

LEMMA ApartStep ==
  ASSUME Basics, Owned, NEW c \in Clients, StepOf(c)
  PROVE  Apart'
<1>1. /\ held \in [Clients -> Nat] /\ Apart /\ \A d \in Clients : held[d] < next
      /\ \A d \in Clients \ {c} : held'[d] = held[d]
  BY StepOwn DEF Basics, RTypes, Owned, Holding, Own, Theirs
<1>2. CASE held'[c] = held[c] \/ held'[c] = 0
  BY <1>1, <1>2 DEF Apart
<1>3. CASE LocksRow(c)
  <2>1. PICK id \in Ids : ~LockedFor(c, id) /\ held'[c] = id
    BY <1>3, FoundIs DEF LocksRow
  <2>2. \A d \in Clients \ {c} : held[d] # id
    BY <2>1 DEF LockedFor
  <2>3. QED
    BY <1>1, <2>1, <2>2 DEF Apart
<1>4. CASE InsertsRow(c)
  <2>1. held'[c] = next
    BY <1>4 DEF InsertsRow
  <2>2. QED
    BY <1>1, <2>1 DEF Apart
<1>5. CASE ~LocksRow(c) /\ ~InsertsRow(c)
  <2>1. held'[c] = held[c] \/ held'[c] = 0
    BY <1>5 DEF StepOf, Finishes, Opens, Idles, Theirs, Writes, UpsertStep, SelectsRows,
       SkipsRow, FindsNone, Finds, Updates, Reselects, Over, Commits
  <2>2. QED
    BY <1>2, <2>1
<1>6. QED
  BY <1>3, <1>4, <1>5

LEMMA HoldingOthers ==
  ASSUME Basics, Owned, NEW c \in Clients, StepOf(c), NEW d \in Clients \ {c}
  PROVE  Holding(d)'
<1>1. Theirs(d) /\ job' = job
  BY StepOwn DEF Own
<1>2. held[d] \in Ids => rows'[held[d]] = rows[held[d]]
  BY RowsStep DEF RowsOfOthers
<1>3. held[d] \in Nat /\ next \in Nat /\ next' \in Nat /\ next <= next'
  BY RowsStep, StepRows DEF Basics, RTypes
<1>4. Holding(d)
  BY DEF Owned
<1>5. QED
  BY <1>1, <1>2, <1>3, <1>4 DEF Holding, Theirs, Resting

LEMMA HoldingOwn ==
  ASSUME Basics, Owned, NEW c \in Clients, StepOf(c)
  PROVE  Holding(c)'
<1>1. /\ rows \in [Ids -> Row \cup {NoRow}] /\ next \in Nat \ {0} /\ next' \in Nat \ {0}
      /\ next <= next' /\ held[c] \in Nat /\ job' = job /\ Holding(c) /\ Resting(c)
      /\ held[c] < next' /\ 0 < next' /\ NoRow \notin Row
  BY RowsStep, StepRows, StepOwn, RecordsAssumption DEF Basics, RTypes, Own, Owned, Holding
<1>2. CASE pc'[c] \notin {"found", "updated", "commit"} /\ held'[c] = 0 /\ mine'[c] = NoRow
  BY <1>1, <1>2 DEF Holding, Resting
<1>3. CASE Finishes(c) \/ Finds(c) \/ Commits(c) \/ Writes(c)
  BY <1>2, <1>3 DEF Finishes, Finds, Commits, Writes, Over
<1>4. CASE Opens(c) \/ SelectsRows(c) \/ SkipsRow(c) \/ FindsNone(c)
  BY <1>1, <1>2, <1>4 DEF Opens, SelectsRows, SkipsRow, FindsNone, Goes, Resting
<1>5. CASE Idles(c)
  BY <1>1, <1>5 DEF Idles, Theirs, Rest, Holding, Resting
<1>6. CASE LocksRow(c)
  <2>1. PICK id \in Found(job[c].key) :
           /\ held'[c] = id /\ mine'[c] = rows[id] /\ got'[c] = {<<id, rows[id]>>}
    BY <1>6 DEF LocksRow
  <2>2. id \in Ids /\ id < next /\ rows[id] \in Row /\ rows[id].key = job[c].key
    BY <2>1, RowIs DEF Found, Owned, Fresh, Basics
  <2>3. rows' = rows /\ next' = next /\ pc'[c] = "found"
    BY <1>6 DEF LocksRow, Goes
  <2>4. QED
    BY <1>1, <2>1, <2>2, <2>3 DEF Holding, Resting
<1>7. CASE Updates(c)
  <2>1. mine[c] \in Row /\ rows[held[c]] = mine[c] /\ held[c] \in Ids
        /\ mine[c].key = job[c].key
    BY <1>7 DEF Updates, Holding, Owned
  <2>2. /\ mine'[c] \in Row /\ mine'[c].val = c /\ mine'[c].by = mine[c].by
        /\ mine'[c].key = mine[c].key
    BY <1>7, <2>1 DEF Updates, Row
  <2>3. held'[c] = held[c] /\ rows' = rows /\ next' = next /\ pc'[c] = "updated"
    BY <1>7 DEF Updates, Goes
  <2>4. QED
    BY <1>1, <2>1, <2>2, <2>3 DEF Holding, Resting
<1>8. CASE Reselects(c)
  <2>1. /\ held'[c] = held[c] /\ mine'[c] = mine[c] /\ rows' = rows /\ next' = next
        /\ pc'[c] = "commit" /\ pc[c] = "updated" /\ got'[c] = {<<held[c], mine[c]>>}
    BY <1>8 DEF Reselects, Goes
  <2>2. QED
    BY <1>1, <2>1 DEF Holding, Resting
<1>9. CASE InsertsRow(c)
  <2>1. /\ held'[c] = next /\ mine'[c] = NewRow(c, job[c].key) /\ rows' = rows
        /\ got'[c] = {<<next, mine'[c]>>} /\ next' = next + 1 /\ pc'[c] = "commit"
        /\ next \in Ids
    BY <1>1, <1>9, IdsAre DEF InsertsRow, Goes
  <2>2. job[c].key \in Keys /\ job[c].kind \in Upserts
    BY <1>9 DEF InsertsRow, Goes, Basics, JobOK, Upserts
  <2>3. rows[next] = NoRow
    BY <1>1, <2>1 DEF Owned, Fresh, Present
  <2>4. /\ mine'[c] \in Row /\ mine'[c].key = job[c].key /\ mine'[c].by = c
        /\ mine'[c].val = c
    BY <2>1, <2>2, NewRowIs DEF NewRow
  <2>5. QED
    BY <1>1, <2>1, <2>3, <2>4 DEF Holding, Resting
<1>10. QED
  BY <1>3, <1>4, <1>5, <1>6, <1>7, <1>8, <1>9 DEF StepOf, UpsertStep

LEMMA OwnedStep ==
  ASSUME Basics, Owned, NEW c \in Clients, StepOf(c)
  PROVE  Owned'
BY RowsStep, ApartStep, HoldingOthers, HoldingOwn DEF Owned

-----------------------------------------------------------------------------
(* The invariant holds of every behaviour.                                 *)

LEMMA PresentIs == Present \subseteq Ids /\ IsFiniteSet(Ids) /\ IsFiniteSet(Present)
                   /\ Cardinality(Present) \in Nat
<1>1. IsFiniteSet(Ids)
  BY FS_Interval, RecordsAssumption DEF Ids
<1>2. Present \subseteq Ids
  BY DEF Present
<1>3. QED
  BY <1>1, <1>2, FS_Subset, FS_CardinalityType

LEMMA PackedIsFresh ==
  ASSUME rows \in StartingRows, next = 1 + Cardinality(Present)
  PROVE  Fresh
<1>1. SUFFICES ASSUME NEW id \in Present PROVE id < next
  BY DEF Fresh
<1>2. id \in Ids /\ id \in Nat \ {0} /\ rows[id] # NoRow
  BY DEF Present, Ids
<1>3. \A j \in 1 .. id : rows[j] # NoRow
  BY <1>2, StartingAssumption
<1>4. 1 .. id \subseteq Present
  BY <1>2, <1>3, RecordsAssumption DEF Present, Ids
<1>5. IsFiniteSet(1 .. id) /\ Cardinality(1 .. id) = id
  BY <1>2, FS_Interval
<1>6. id <= Cardinality(Present)
  BY <1>4, <1>5, PresentIs, FS_Subset
<1>7. QED
  BY <1>2, <1>6, PresentIs

LEMMA StartsJobs ==
  ASSUME job \in Workloads
  PROVE  JobOK
<1>1. job \in [Clients -> Jobs]
  BY RecordsAssumption
<1>2. SUFFICES ASSUME NEW c \in Clients
      PROVE  /\ job[c].kind \in Kinds /\ job[c].key \in Keys /\ job[c].keys \in Seq(Keys)
             /\ job[c].chunk \in Nat
             /\ job[c].kind = "hooked" =>
                  \/ job[c].call.verb = "insert" /\ job[c].keys = <<job[c].key>>
                  \/ /\ job[c].call.verb \in {"update", "delete"}
                     /\ job[c].call.where = "pk" /\ job[c].call.only = "any"
                     /\ job[c].id \in Ids
  BY DEF JobOK
<1>3. job[c] \in Jobs
  BY <1>1
<1>4. job[c].kind \in Kinds /\ job[c].key \in Keys /\ job[c].keys \in Seq(Keys)
      /\ job[c].chunk \in Nat /\ job[c].id \in Ids
  BY <1>3 DEF Jobs
<1>5. QED
  BY <1>4, HookedAssumption

LEMMA StartsBasics ==
  ASSUME JobOK, rows \in [Ids -> Row \cup {NoRow}], Starts({job}, {rows}, {repo}, {unique})
  PROVE  Basics
<1>1. next \in Nat \ {0}
  BY PresentIs DEF Starts
<1>2. pc \in [Clients -> Labels]
  BY DEF Starts, Labels
<1>3. RTypes
  BY <1>1, <1>2 DEF Starts, RTypes, Mapped
<1>4. ASSUME NEW c \in Clients
      PROVE  Placed(c)
  BY <1>4 DEF Starts, Placed, Phases
<1>5. QED
  BY <1>3, <1>4 DEF Basics

LEMMA StartsOwned ==
  ASSUME Fresh, next \in Nat \ {0}, Starts({job}, {rows}, {repo}, {unique})
  PROVE  Owned
<1>1. ASSUME NEW c \in Clients
      PROVE  Holding(c)
  BY <1>1 DEF Starts, Holding, Resting
<1>2. Apart
  BY DEF Starts, Apart
<1>3. QED
  BY <1>1, <1>2 DEF Owned

LEMMA InitInv ==
  ASSUME Init
  PROVE  Basics /\ Owned
<1>1. job \in Workloads /\ rows \in StartingRows /\ next = 1 + Cardinality(Present)
      /\ Starts({job}, {rows}, {repo}, {unique})
  BY DEF Init, Starts
<1>2. rows \in [Ids -> Row \cup {NoRow}]
  BY <1>1, RecordsAssumption
<1>3. Basics
  BY <1>1, <1>2, StartsJobs, StartsBasics
<1>4. next \in Nat \ {0}
  BY <1>3 DEF Basics, RTypes
<1>5. QED
  BY <1>1, <1>3, <1>4, PackedIsFresh, StartsOwned

LEMMA StutterInv ==
  ASSUME Basics, Owned, UNCHANGED vars
  PROVE  Basics' /\ Owned'
BY DEF vars, Basics, JobOK, RTypes, Mapped, Placed, Owned, Fresh, Present, Apart, Holding,
   Resting

LEMMA StepInv ==
  ASSUME Basics, Owned, [RecordsNext]_vars
  PROVE  Basics' /\ Owned'
<1>1. CASE UNCHANGED vars
  BY <1>1, StutterInv
<1>2. CASE RecordsNext
  <2>1. PICK c \in Clients : Step(c) \/ Fails(c)
    BY <1>2 DEF RecordsNext
  <2>2. StepOf(c)
    BY <2>1, StepsAre
  <2>3. QED
    BY <2>2, BasicsStep, OwnedStep
<1>3. QED
  BY <1>1, <1>2

-----------------------------------------------------------------------------
(* What an upsert returns.                                                 *)

LEMMA UpsertAnswers ==
  ASSUME Basics, Owned, NEW c \in Clients, StepOf(c), job[c].kind \in Upserts,
         answer[c] = "none", answer'[c] = "ok"
  PROVE  /\ got'[c] = {<<held[c], mine[c]>>} /\ held[c] \in Ids /\ rows'[held[c]] = mine[c]
         /\ mine[c].key = job[c].key
         /\ job[c].kind = "update_or_create" => mine[c].val = c
<1>1. Holding(c) /\ rows \in [Ids -> Row \cup {NoRow}]
  BY DEF Owned, Basics, RTypes
<1>2. CASE Finds(c)
  BY <1>1, <1>2 DEF Finds, Rest, Holding
<1>3. CASE Commits(c)
  BY <1>1, <1>3 DEF Commits, Holding
<1>4. CASE ~Finds(c) /\ ~Commits(c)
  <2>1. answer'[c] # "ok"
    BY <1>4 DEF StepOf, Finishes, NoOk, Opens, Idles, Theirs, Writes, UpsertStep, SelectsRows,
       LocksRow, SkipsRow, FindsNone, Updates, Reselects, InsertsRow, Goes
  <2>2. QED
    BY <2>1
<1>5. QED
  BY <1>2, <1>3, <1>4

Returned(c) ==
  /\ Cardinality(got'[c]) = 1
  /\ \A p \in got'[c] :
       /\ rows'[p[1]] = p[2] /\ p[2].key = job[c].key
       /\ job[c].kind = "update_or_create" => p[2].val = c

LEMMA UpsertsReturn ==
  Basics /\ Owned /\ [RecordsNext]_vars =>
    [\A c \in Clients : job[c].kind \in Upserts /\ Answered(c, "ok") => Returned(c)]_vars
<1>1. ASSUME Basics, Owned, [RecordsNext]_vars, NEW c \in Clients,
             job[c].kind \in Upserts, Answered(c, "ok")
      PROVE  Returned(c)
  <2>1. PICK d \in Clients : Step(d) \/ Fails(d)
    BY <1>1 DEF RecordsNext, vars, Answered
  <2>2. StepOf(d)
    BY <1>1, <2>1, StepsAre
  <2>3. d = c
    BY <1>1, <2>2, StepOwn DEF Own, Theirs, Answered
  <2>4. /\ got'[c] = {<<held[c], mine[c]>>} /\ rows'[held[c]] = mine[c]
        /\ mine[c].key = job[c].key
        /\ job[c].kind = "update_or_create" => mine[c].val = c
    BY <1>1, <2>2, <2>3, UpsertAnswers DEF Answered
  <2>5. Cardinality(got'[c]) = 1
    BY <2>4, FS_Singleton
  <2>6. QED
    BY <2>4, <2>5 DEF Returned
<1>2. QED
  BY <1>1

-----------------------------------------------------------------------------
(* Duplicates.                                                             *)

\* nobody whose call was over before c's began has made a row of c's key
Clear(c) == \A d \in before[c] : \A j \in Made(d) : rows[j].key # job[c].key

\* what an upsert of c knows of the rows that were there when it began
Knows(c) ==
  /\ c \notin before[c] /\ \A d \in before[c] : d \in Clients /\ pc[d] = "done"
  /\ pc[c] # "done" => Made(c) = {}
  /\ \A i \in Made(c) : rows[i].key = job[c].key
  /\ pc[c] = "scan" =>
        \A d \in before[c] : \A j \in Made(d) : rows[j].key = job[c].key => j \in seen[c]
  /\ pc[c] = "missing" \/ (pc[c] = "commit" /\ rows[held[c]] = NoRow) \/ Made(c) # {} =>
        Clear(c)

Knowing == \A c \in Clients : job[c].kind \in Upserts => Knows(c)

\* a row is new and of the client that made the step, or it has its key and maker
LEMMA RowsKeepMaker ==
  ASSUME Basics, Owned, NEW e \in Clients, StepOf(e), NEW id \in Ids, rows'[id] # NoRow
  PROVE  \/ /\ id \in Present /\ rows'[id].by = rows[id].by
            /\ rows'[id].key = rows[id].key
         \/ /\ rows'[id].by = e /\ rows[id] = NoRow /\ (Writes(e) \/ Commits(e))
            /\ Commits(e) => id = held[e] /\ rows'[id] = mine[e]
<1>1. CASE rows'[id] = rows[id]
  BY <1>1 DEF Present
<1>2. CASE Alters(e)
  BY <1>1, <1>2 DEF Alters
<1>3. CASE Adds(e) /\ Writes(e)
  <2>1. PICK n \in Nat :
          IF id \in next .. next + n - 1
          THEN rows'[id] # NoRow /\ rows'[id].by = e ELSE rows'[id] = rows[id]
    BY <1>3 DEF Adds
  <2>2. CASE id \in next .. next + n - 1
    <3>1. ~(id < next)
      BY <2>2 DEF Basics, RTypes
    <3>2. rows[id] = NoRow
      BY <3>1 DEF Owned, Fresh, Present
    <3>3. ~Commits(e)
      BY <1>3 DEF Commits, Writes
    <3>4. QED
      BY <1>3, <2>1, <2>2, <3>2, <3>3
  <2>3. QED
    BY <1>1, <2>1, <2>2
<1>4. CASE Commits(e)
  <2>1. rows' = [rows EXCEPT ![held[e]] = mine[e]] /\ pc[e] = "commit"
    BY <1>4 DEF Commits
  <2>2. \/ /\ rows[held[e]] \in Row /\ mine[e].by = rows[held[e]].by
           /\ rows[held[e]].key = mine[e].key
        \/ rows[held[e]] = NoRow /\ mine[e].by = e
    BY <2>1 DEF Owned, Holding
  <2>3. rows \in [Ids -> Row \cup {NoRow}] /\ NoRow \notin Row
    BY RecordsAssumption DEF Basics, RTypes
  <2>4. CASE id = held[e]
    <3>1. rows'[id] = mine[e]
      BY <2>1, <2>3, <2>4
    <3>2. rows[id] \in Row => id \in Present
      BY <2>3 DEF Present
    <3>3. QED
      BY <1>4, <2>2, <2>4, <3>1, <3>2
  <2>5. CASE id # held[e]
    BY <1>1, <2>1, <2>3, <2>5
  <2>6. QED
    BY <2>4, <2>5
<1>5. CASE ~Writes(e) /\ ~Commits(e)
  <2>1. rows' = rows
    BY <1>5 DEF StepOf, Finishes, Opens, Idles, UpsertStep, SelectsRows, LocksRow,
       SkipsRow, FindsNone, Finds, Updates, Reselects, InsertsRow, Goes, Rest
  <2>2. QED
    BY <1>1, <2>1
<1>6. QED
  BY <1>2, <1>3, <1>4, <1>5 DEF Writes

LEMMA MadeOfOthers ==
  ASSUME Basics, Owned, NEW e \in Clients, StepOf(e), NEW d \in Clients \ {e},
         NEW j \in Made(d)'
  PROVE  j \in Made(d) /\ rows'[j].key = rows[j].key
<1>1. j \in Ids /\ rows'[j] # NoRow /\ rows'[j].by = d
  BY DEF Made, Present
<1>2. QED
  BY <1>1, RowsKeepMaker DEF Made

LEMMA ClearStays ==
  ASSUME Basics, Owned, NEW e \in Clients, StepOf(e), NEW c \in Clients, Clear(c),
         before'[c] = before[c], \A d \in before[c] : d \in Clients \ {e}
  PROVE  Clear(c)'
<1>1. job' = job
  BY StepOwn DEF Own
<1>2. QED
  BY <1>1, MadeOfOthers DEF Clear

LEMMA KnowsOthers ==
  ASSUME Basics, Owned, NEW e \in Clients, StepOf(e), NEW c \in Clients \ {e}, Knows(c)
  PROVE  Knows(c)'
<1>1. Theirs(c) /\ job' = job /\ pc[e] # "done" /\ \A d \in Clients \ {e} : pc'[d] = pc[d]
  BY StepOwn DEF Own, Theirs
<1>2. \A d \in before[c] : d \in Clients \ {e}
  BY <1>1 DEF Knows
<1>3. \A j \in Made(c)' : j \in Made(c) /\ rows'[j].key = rows[j].key
  BY MadeOfOthers
<1>4. \A d \in before[c] : \A j \in Made(d)' : j \in Made(d) /\ rows'[j].key = rows[j].key
  BY <1>2, MadeOfOthers
<1>5. pc[c] = "commit" => rows'[held[c]] = rows[held[c]]
  BY RowsStep DEF RowsOfOthers, Owned, Holding
<1>6. Clear(c) => Clear(c)'
  BY <1>1, <1>2, ClearStays DEF Theirs
<1>7. QED
  BY <1>1, <1>2, <1>3, <1>4, <1>5, <1>6 DEF Knows, Theirs

LEMMA KnowsStays ==
  ASSUME rows' = rows, job' = job, NEW c \in Clients, before'[c] = before[c]
  PROVE  /\ \A d \in Clients : Made(d)' = Made(d)
         /\ before[c] \subseteq Clients => Clear(c)' = Clear(c)
BY DEF Made, Present, Clear

LEMMA KnowsOwn ==
  ASSUME Basics, Owned, NEW c \in Clients, StepOf(c), job[c].kind \in Upserts, Knows(c)
  PROVE  Knows(c)'
<1>1. /\ job' = job /\ pc[c] # "done" /\ \A d \in Clients \ {c} : pc'[d] = pc[d]
      /\ before[c] \subseteq Clients \ {c} /\ Made(c) = {}
  BY StepOwn DEF Own, Theirs, Knows
<1>2. CASE rows' = rows /\ before'[c] = before[c]
  <2>1. /\ Made(c)' = {} /\ Clear(c)' = Clear(c) /\ \A d \in Clients : Made(d)' = Made(d)
    BY <1>1, <1>2, KnowsStays
  <2>2. \A d \in before'[c] : d \in Clients /\ pc'[d] = "done"
    BY <1>1, <1>2 DEF Knows
  <2>3. SUFFICES /\ pc'[c] = "scan" =>
                      \A d \in before[c] : \A j \in Made(d) :
                          rows[j].key = job[c].key => j \in seen'[c]
                 /\ pc'[c] = "missing" \/ (pc'[c] = "commit" /\ rows[held'[c]] = NoRow) => Clear(c)
    BY <1>1, <1>2, <2>1, <2>2 DEF Knows
  <2>4. CASE Finishes(c) \/ Finds(c) \/ LocksRow(c) \/ Updates(c)
    BY <2>4 DEF Finishes, Finds, LocksRow, Updates, Over, Goes
  <2>5. CASE Opens(c)
    BY <2>5 DEF Opens
  <2>6. CASE Idles(c)
    BY <2>6 DEF Idles, Theirs, Knows
  <2>7. CASE SelectsRows(c)
    <3>1. seen'[c] = Found(job[c].key) /\ pc'[c] = "scan"
      BY <2>7 DEF SelectsRows, Goes
    <3>2. QED
      BY <3>1 DEF Found, Made
  <2>8. CASE SkipsRow(c)
    <3>1. PICK id : id \notin Found(job[c].key) /\ seen'[c] = seen[c] \ {id}
      BY <2>8 DEF SkipsRow
    <3>2. pc'[c] = "scan" /\ pc[c] = "scan"
      BY <2>8 DEF SkipsRow, Goes
    <3>3. \A d \in before[c] : \A j \in Made(d) : rows[j].key = job[c].key =>
             j \in seen[c] /\ j \in Found(job[c].key)
      BY <3>2 DEF Knows, Made, Found
    <3>4. QED
      BY <3>1, <3>2, <3>3
  <2>9. CASE FindsNone(c)
    BY <2>9 DEF FindsNone, Goes, Knows, Clear
  <2>10. CASE Reselects(c)
    <3>1. pc[c] = "updated" /\ held'[c] = held[c] /\ pc'[c] = "commit"
      BY <2>10 DEF Reselects, Goes
    <3>2. rows[held[c]] \in Row /\ NoRow \notin Row
      BY <3>1, RecordsAssumption DEF Owned, Holding
    <3>3. QED
      BY <3>1, <3>2
  <2>11. CASE InsertsRow(c)
    BY <2>11 DEF InsertsRow, Goes, Knows
  <2>12. CASE Commits(c)
    BY <2>12 DEF Commits, Over
  <2>13. QED
    <3>1. ~Writes(c)
      BY DEF Writes
    <3>2. QED
      BY <3>1, <2>4, <2>5, <2>6, <2>7, <2>8, <2>9, <2>10, <2>11, <2>12 DEF StepOf, UpsertStep
<1>3. CASE Opens(c)
  <2>1. /\ rows' = rows /\ pc[c] = "start" /\ pc'[c] \in {"begun", "done"}
        /\ before'[c] = {d \in Clients : pc[d] = "done" /\ job[d].kind # "none"}
    BY <1>3 DEF Opens, Rest
  <2>2. Made(c)' = {}
    BY <1>1, <2>1 DEF Made, Present
  <2>3. c \notin before'[c] /\ \A d \in before'[c] : d \in Clients /\ pc'[d] = "done"
    BY <1>1, <2>1
  <2>4. QED
    BY <2>1, <2>2, <2>3 DEF Knows
<1>4. CASE Commits(c)
  <2>1. pc[c] = "commit" /\ pc'[c] = "done" /\ before'[c] = before[c]
    BY <1>4 DEF Commits, Over
  <2>2. \A i \in Made(c)' : rows[i] = NoRow /\ i = held[c] /\ rows'[i] = mine[c]
    <3>1. TAKE i \in Made(c)'
    <3>2. i \in Ids /\ rows'[i] # NoRow /\ rows'[i].by = c
      BY DEF Made, Present
    <3>3. i \notin Made(c)
      BY <1>1
    <3>4. QED
      BY <1>4, <3>2, <3>3, RowsKeepMaker DEF Made
  <2>3. mine[c].key = job[c].key
    BY <2>1 DEF Owned, Holding
  <2>4. \A d \in before[c] : d \in Clients /\ pc'[d] = "done"
    BY <1>1 DEF Knows
  <2>5. Made(c)' # {} => Clear(c)'
    <3>1. HAVE Made(c)' # {}
    <3>2. rows[held[c]] = NoRow
      BY <2>2, <3>1
    <3>3. Clear(c)
      BY <2>1, <3>2 DEF Knows
    <3>4. QED
      BY <1>1, <2>1, <3>3, ClearStays
  <2>6. QED
    BY <1>1, <2>1, <2>2, <2>3, <2>4, <2>5 DEF Knows
<1>5. CASE ~Opens(c) /\ ~Commits(c)
  <2>1. rows' = rows /\ before'[c] = before[c]
    BY <1>5 DEF StepOf, Finishes, Idles, Writes, Theirs, Over, UpsertStep, SelectsRows, LocksRow,
       SkipsRow, FindsNone, Finds, Updates, Reselects, InsertsRow, Goes, Rest
  <2>2. QED
    BY <1>2, <2>1
<1>6. QED
  BY <1>3, <1>4, <1>5

LEMMA KnowingStep ==
  ASSUME Basics, Owned, Knowing, [RecordsNext]_vars
  PROVE  Knowing'
<1>1. CASE UNCHANGED vars
  BY <1>1 DEF vars, Knowing, Knows, Made, Present, Clear
<1>2. CASE RecordsNext
  <2>1. PICK e \in Clients : Step(e) \/ Fails(e)
    BY <1>2 DEF RecordsNext
  <2>2. StepOf(e) /\ job' = job
    BY <2>1, StepsAre, StepOwn DEF Own
  <2>3. QED
    BY <2>2, KnowsOthers, KnowsOwn DEF Knowing
<1>3. QED
  BY <1>1, <1>2

LEMMA InitKnowing ==
  ASSUME Init
  PROVE  Knowing
<1>1. rows \in StartingRows /\ before = [c \in Clients |-> {}]
      /\ pc = [c \in Clients |-> IF job[c].kind = "none" THEN "done" ELSE "start"]
  BY DEF Init, Starts
<1>2. \A c \in Clients : Made(c) = {}
  BY <1>1, StartingAssumption, RecordsAssumption DEF Made, Present
<1>3. QED
  BY <1>1, <1>2 DEF Knowing, Knows

LEMMA KnowingMeans ==
  ASSUME Knowing
  PROVE  DuplicatesNeedOverlap
<1>1. SUFFICES ASSUME NEW c \in Clients, job[c].kind \in Upserts, NEW d \in before[c],
                      NEW i \in Made(c), NEW j \in Made(d)
               PROVE  rows[i].key # rows[j].key
  BY DEF DuplicatesNeedOverlap
<1>2. Knows(c) /\ Made(c) # {}
  BY <1>1 DEF Knowing
<1>3. QED
  BY <1>1, <1>2 DEF Knows, Clear

-----------------------------------------------------------------------------
(* Hooks.                                                                  *)

LEMMA HooksRunIn ==
  ASSUME Basics, NEW c \in Clients, Step(c) \/ Fails(c), Hooked(c),
         hooks[c] # <<>>, hooks'[c] # hooks[c]
  PROVE  Insert(c) \/ Change(c)
<1>1. /\ job[c].kind = "hooked" /\ pc[c] # "start" /\ pc[c] # "chunk" /\ pc[c] \notin Phases
      /\ job[c].call.verb \in {"insert", "update", "delete"}
  BY DEF Hooked, Basics, JobOK, Placed, Upserts
<1>2. ~Start(c) /\ ~HooksPass(c) /\ ~HooksVeto(c)
  BY <1>1 DEF Start, HooksPass, HooksVeto, Begins
<1>3. ASSUME NEW ans, NEW result, Ends(c, ans, result), ans # "ok"
      PROVE  FALSE
  BY <1>3 DEF Ends
<1>4. ~RepositoryAsked(c) /\ ~StackOverflows(c)
  BY <1>3 DEF RepositoryAsked, StackOverflows
<1>5. ~Select(c) /\ ~Upsert(c)
  BY <1>1 DEF Select, Upsert, Sending
<1>6. ~Chunked(c) /\ ~Upserting(c)
  BY <1>1 DEF Chunked, ChunkSizePanics, ChunkInserted, ChunksDone, Upserting, SelectForUpdate,
     LockRow, NoneFound, FirstFound, UpdateFound, Reselect, InsertMissing, Commit, InPhase, Upserts
<1>7. ~IndexRefuses(c) /\ ~Fails(c)
  BY <1>3 DEF IndexRefuses, Fails, StatementFails, ChunkFails, UpsertFails, Refused
<1>8. QED
  BY <1>2, <1>4, <1>5, <1>6, <1>7 DEF Step

LEMMA InsertFramed ==
  ASSUME Basics, Owned, NEW c \in Clients, Insert(c), Hooked(c)
  PROVE  /\ job[c].call.verb = "insert"
         /\ \E id \in Ids : rows[id] = NoRow /\ rows'[id] = NewRow(c, job[c].key)
<1>1. job[c].call.verb = "insert" /\ job[c].keys = <<job[c].key>>
  BY DEF Insert, Sending, Hooked, Basics, JobOK
<1>2. Room(1) /\ rows' = Inserted(c, <<job[c].key>>)
  BY <1>1 DEF Insert, Executed
<1>3. next \in Ids /\ next \in Nat
  BY <1>2, IdsAre DEF Basics, RTypes
<1>4. rows[next] = NoRow
  BY <1>3 DEF Owned, Fresh, Present
<1>5. rows'[next] = NewRow(c, job[c].key)
  BY <1>2, <1>3 DEF Inserted
<1>6. QED
  BY <1>1, <1>3, <1>4, <1>5

LEMMA ChangeFramed ==
  ASSUME Basics, NEW c \in Clients, Change(c), Hooked(c)
  PROVE  \/ job[c].call.verb = "update" /\ (rows'[job[c].id] # NoRow => rows'[job[c].id].val = c)
         \/ job[c].call.verb = "delete" /\ rows'[job[c].id] = NoRow
<1>1. /\ job[c].call.verb \in {"update", "delete"} /\ job[c].id \in Ids
      /\ job[c].call.where = "pk" /\ job[c].call.only = "any"
  BY DEF Change, Sending, Hooked, Basics, JobOK
<1>2. PICK ids \in Matches(c) : rows' = Written(c, job[c].call.verb, ids)
  BY DEF Change, Executed
<1>3. ids = Present \cap {job[c].id}
  BY <1>1, <1>2 DEF Matches, Kept
<1>4. CASE job[c].id \notin Present
  BY <1>1, <1>2, <1>3, <1>4 DEF Present, Written
<1>5. CASE job[c].id \in Present
  <2>1. job[c].id \in ids /\ rows[job[c].id] \in Row
    BY <1>3, <1>5, RowIs DEF Basics
  <2>2. [rows[job[c].id] EXCEPT !.val = c].val = c
    BY <2>1 DEF Row
  <2>3. QED
    BY <1>1, <1>2, <2>1, <2>2 DEF Written
<1>6. QED
  BY <1>4, <1>5

LEMMA VetoedWritesNothing ==
  ASSUME Basics, Owned, NEW c \in Clients, StepOf(c), Hooked(c), Answered(c, "vetoed"),
         Step(c) \/ Fails(c)
  PROVE  rows' = rows
<1>1. /\ job[c].kind = "hooked" /\ pc[c] # "chunk" /\ pc[c] \notin Phases
  BY DEF Hooked, Basics, Placed, Upserts
<1>2. CASE Insert(c) \/ Change(c) \/ Upsert(c)
  <2>1. PICK table, n, result : Executed(c, table, n, result)
    BY <1>2 DEF Insert, Change, Upsert
  <2>2. Mapped(answer)
    BY DEF Basics, RTypes
  <2>3. answer'[c] \in {"ok", "error"}
    BY <2>1, <2>2 DEF Executed, Ends, Mapped
  <2>4. QED
    BY <2>3 DEF Answered
<1>3. CASE ~Insert(c) /\ ~Change(c) /\ ~Upsert(c)
  <2>1. ~Chunked(c) /\ ~Upserting(c)
    BY <1>1 DEF Chunked, ChunkSizePanics, ChunkInserted, ChunksDone, Upserting, SelectForUpdate,
       LockRow, NoneFound, FirstFound, UpdateFound, Reselect, InsertMissing, Commit, InPhase,
       Phases
  <2>2. QED
    BY <1>3, <2>1, BeginsOpens, AskedIdles, SelectFinishes, OthersFinish
       DEF Step, Fails, Opens, Idles, Finishes, Rest
<1>4. QED
  BY <1>2, <1>3

Framing(c) ==
  /\ Len(hooks'[c]) > Len(hooks[c]) /\ hooks[c] # <<>> =>
        CASE job[c].call.verb = "insert" -> \E id \in Ids :
                    rows[id] = NoRow /\ rows'[id] = NewRow(c, job[c].key)
          [] job[c].call.verb = "update" ->
                    rows'[job[c].id] # NoRow => rows'[job[c].id].val = c
          [] job[c].call.verb = "delete" -> rows'[job[c].id] = NoRow
  /\ Answered(c, "vetoed") => rows' = rows

LEMMA HooksAreFramed ==
  Basics /\ Owned /\ [RecordsNext]_vars =>
    [\A c \in Clients : Hooked(c) => Framing(c)]_vars
<1>1. ASSUME Basics, Owned, RecordsNext, NEW c \in Clients, Hooked(c)
      PROVE  Framing(c)
  <2>1. PICK d \in Clients : Step(d) \/ Fails(d)
    BY <1>1 DEF RecordsNext
  <2>2. StepOf(d)
    BY <1>1, <2>1, StepsAre
  <2>3. CASE d # c
    <3>1. hooks'[c] = hooks[c] /\ answer'[c] = answer[c]
      BY <2>2, <2>3, StepOwn DEF Own, Theirs
    <3>2. ~(Len(hooks'[c]) > Len(hooks[c])) \/ hooks[c] = <<>>
      BY <3>1
    <3>3. QED
      BY <3>1, <3>2 DEF Answered, Framing
  <2>4. CASE d = c
    <3>1. Answered(c, "vetoed") => rows' = rows
      BY <1>1, <2>1, <2>2, <2>4, VetoedWritesNothing
    <3>2. ASSUME hooks[c] # <<>>, hooks'[c] # hooks[c]
          PROVE  CASE job[c].call.verb = "insert" -> \E id \in Ids :
                         rows[id] = NoRow /\ rows'[id] = NewRow(c, job[c].key)
                   [] job[c].call.verb = "update" ->
                         rows'[job[c].id] # NoRow => rows'[job[c].id].val = c
                   [] job[c].call.verb = "delete" -> rows'[job[c].id] = NoRow
      BY <1>1, <2>1, <2>4, <3>2, HooksRunIn, InsertFramed, ChangeFramed
    <3>3. Len(hooks'[c]) > Len(hooks[c]) => hooks'[c] # hooks[c]
      <4>1. SUFFICES ASSUME hooks'[c] = hooks[c]
                     PROVE  ~(Len(hooks'[c]) > Len(hooks[c]))
        OBVIOUS
      <4>2. QED
        BY <4>1
    <3>4. QED
      BY <3>1, <3>2, <3>3 DEF Framing
  <2>5. QED
    BY <2>3, <2>4
<1>2. QED
  BY <1>1

-----------------------------------------------------------------------------
(* Chunks.                                                                 *)

LEMMA WrittenKeeps ==
  ASSUME RTypes, NEW c \in Clients, NEW ids \in SUBSET Present,
         NEW verb \in {"update", "trash", "restore", "touch"},
         rows' = Written(c, verb, ids), NEW id \in Present
  PROVE  rows'[id] # NoRow
<1>1. id \in Ids /\ rows[id] \in Row /\ NoRow \notin Row
  BY RowIs, RecordsAssumption
<1>2. [rows[id] EXCEPT !.val = c] \in Row
  BY <1>1 DEF Row
<1>3. \A t \in BOOLEAN : [rows[id] EXCEPT !.trashed = t] \in Row
  BY <1>1 DEF Row
<1>4. rows'[id] \in {[rows[id] EXCEPT !.val = c], [rows[id] EXCEPT !.trashed = TRUE],
                     [rows[id] EXCEPT !.trashed = FALSE], rows[id]}
  BY <1>1 DEF Written
<1>5. QED
  BY <1>1, <1>2, <1>3, <1>4

LEMMA InsertedKeeps ==
  ASSUME RTypes, NEW c \in Clients, NEW keys \in Seq(Keys),
         rows' = Inserted(c, keys), NEW id \in Present
  PROVE  rows'[id] # NoRow
<1>1. id \in Ids /\ rows[id] # NoRow
  BY DEF Present
<1>2. NewRow(c, keys[id - next + 1]) # NoRow
         \/ ~(id \in next .. next + Len(keys) - 1)
  <2>1. next \in Nat /\ Len(keys) \in Nat /\ id \in Nat
    BY <1>1 DEF RTypes, Ids
  <2>2. ASSUME id \in next .. next + Len(keys) - 1
        PROVE  keys[id - next + 1] \in Keys
    <3>1. id - next + 1 \in 1 .. Len(keys)
      BY <2>1, <2>2
    <3>2. QED
      BY <3>1
  <2>3. QED
    BY <2>2, NewRowIs
<1>3. QED
  BY <1>1, <1>2 DEF Inserted

LEMMA ChunkIs ==
  ASSUME Basics, NEW c \in Clients, ChunkInserted(c)
  PROVE  /\ pc[c] = "chunk" /\ job[c].kind = "chunked" /\ job[c].keys \in Seq(Keys)
         /\ made[c] \in Nat /\ ChunkLen(c) \in Nat /\ Len(job[c].keys) \in Nat
         /\ made[c] + ChunkLen(c) <= Len(job[c].keys)
         /\ ChunkKeys(c) \in Seq(Keys) /\ Len(ChunkKeys(c)) = ChunkLen(c)
         /\ \A i \in 1 .. ChunkLen(c) : ChunkKeys(c)[i] = job[c].keys[made[c] + i]
<1>1. /\ pc[c] = "chunk" /\ made[c] \in Nat /\ job[c].kind = "chunked"
      /\ job[c].keys \in Seq(Keys) /\ job[c].chunk \in Nat /\ Len(job[c].keys) \in Nat
      /\ made[c] < Len(job[c].keys)
  BY DEF ChunkInserted, Basics, Placed, JobOK, RTypes
<1>2. /\ ChunkLen(c) \in Nat /\ made[c] + ChunkLen(c) <= Len(job[c].keys)
  BY <1>1 DEF ChunkLen
<1> DEFINE m == made[c] + 1
           n == made[c] + ChunkLen(c)
<1>3. m \in Int /\ n \in Int /\ (IF m <= n THEN n - m + 1 ELSE 0) = ChunkLen(c)
  BY <1>1, <1>2
<1>4. \A i \in m .. n : job[c].keys[i] \in Keys
  <2>1. \A i \in m .. n : i \in 1 .. Len(job[c].keys)
    BY <1>1, <1>2
  <2>2. QED
    BY <1>1, <2>1
<1> HIDE DEF m, n
<1>5. /\ SubSeq(job[c].keys, m, n) \in Seq(Keys)
      /\ Len(SubSeq(job[c].keys, m, n)) = IF m <= n THEN n - m + 1 ELSE 0
      /\ \A i \in 1 .. n - m + 1 : SubSeq(job[c].keys, m, n)[i] = job[c].keys[m + i - 1]
  BY <1>3, <1>4, SubSeqProperties
<1>6. /\ n - m + 1 = ChunkLen(c)
      /\ \A i \in 1 .. ChunkLen(c) : m + i - 1 = made[c] + i
  BY <1>1, <1>2 DEF m, n
<1>7. ChunkKeys(c) = SubSeq(job[c].keys, m, n)
  BY DEF ChunkKeys, m, n
<1>8. QED
  BY <1>1, <1>2, <1>3, <1>5, <1>6, <1>7

\* without deletes a row stays, with its key and its maker
LEMMA RowsStay ==
  ASSUME Basics, Owned, NobodyDeletes, NEW e \in Clients, Step(e) \/ Fails(e),
         NEW id \in Present
  PROVE  id \in Present' /\ rows'[id].key = rows[id].key /\ rows'[id].by = rows[id].by
<1>1. StepOf(e)
  BY StepsAre
<1>2. id \in Ids /\ rows[id] # NoRow /\ RTypes
  BY DEF Present, Basics
<1>3. CASE Change(e)
  <2>1. PICK ids \in Matches(e) : rows' = Written(e, job[e].call.verb, ids)
    BY <1>3 DEF Change, Executed
  <2>2. /\ job[e].kind \in {"call", "hooked"}
        /\ job[e].call.verb \in {"update", "delete", "trash", "restore", "touch"}
    BY <1>3 DEF Change, Sending, Basics, Placed
  <2>3. job[e].call.verb \in {"update", "trash", "restore", "touch"}
    BY <2>2 DEF NobodyDeletes
  <2>4. ids \in SUBSET Present
    BY DEF Matches
  <2>5. rows'[id] # NoRow
    BY <1>2, <2>1, <2>3, <2>4, WrittenKeeps
  <2>6. QED
    BY <1>1, <1>2, <2>5, RowsKeepMaker DEF Present
<1>4. CASE Insert(e)
  <2>1. rows' = Inserted(e, job[e].keys)
    BY <1>4 DEF Insert, Executed
  <2>2. job[e].keys \in Seq(Keys)
    BY <1>4 DEF Insert, Sending, Basics, Placed, JobOK
  <2>3. rows'[id] # NoRow
    BY <1>2, <2>1, <2>2, InsertedKeeps
  <2>4. QED
    BY <1>1, <1>2, <2>3, RowsKeepMaker DEF Present
<1>5. CASE Upsert(e)
  <2> DEFINE matching == {i \in Present : rows[i].key = job[e].key}
  <2>1. <<job[e].key>> \in Seq(Keys)
    BY <1>5 DEF Upsert, Sending, Basics, Placed, JobOK
  <2>2. rows' = Written(e, "update", matching) \/ rows' = Inserted(e, <<job[e].key>>)
    BY <1>5 DEF Upsert, Executed
  <2>3. rows'[id] # NoRow
    BY <1>2, <2>1, <2>2, WrittenKeeps, InsertedKeeps
  <2>4. QED
    BY <1>1, <1>2, <2>3, RowsKeepMaker DEF Present
<1>6. CASE ChunkInserted(e)
  <2>1. rows'[id] # NoRow
    BY <1>2, <1>6, ChunkIs, InsertedKeeps DEF ChunkInserted
  <2>2. QED
    BY <1>1, <1>2, <2>1, RowsKeepMaker DEF Present
<1>7. CASE Commit(e)
  <2>1. rows' = [rows EXCEPT ![held[e]] = mine[e]] /\ pc[e] = "commit"
    BY <1>7 DEF Commit, InPhase
  <2>2. mine[e] \in Row
    BY <2>1 DEF Owned, Holding
  <2>3. rows'[id] # NoRow
    BY <1>2, <2>1, <2>2, RecordsAssumption DEF RTypes
  <2>4. QED
    BY <1>1, <1>2, <2>3, RowsKeepMaker DEF Present
<1>8. CASE rows' = rows
  BY <1>2, <1>8 DEF Present
<1>9. QED
  BY <1>3, <1>4, <1>5, <1>6, <1>7, <1>8 DEF Step, Fails, Start, HooksPass, HooksVeto, Begins,
     RepositoryAsked, StackOverflows, Select, Chunked, ChunkSizePanics, ChunksDone, Upserting,
     SelectForUpdate, LockRow, NoneFound, FirstFound, UpdateFound, Reselect, InsertMissing,
     IndexRefuses, Refused, StatementFails, ChunkFails, UpsertFails

\* the rows of a chunked insert are those of the chunks sent, whatever became of
\* the call after its last one
Sent(c) ==
  /\ made[c] <= Len(job[c].keys)
  /\ {rows[id].key : id \in Made(c)} = {job[c].keys[i] : i \in 1 .. made[c]}
  /\ Cardinality(Made(c)) = made[c]
  /\ made[c] \in {0, Len(job[c].keys)} \/ (job[c].chunk > 0 /\ made[c] % job[c].chunk = 0)
  /\ answer[c] = "ok" => made[c] = Len(job[c].keys)

Sendings == NobodyDeletes => \A c \in Clients : job[c].kind = "chunked" => Sent(c)

\* the rows somebody made stay theirs through the steps of others
LEMMA MadeStays ==
  ASSUME Basics, Owned, NobodyDeletes, NEW e \in Clients, Step(e) \/ Fails(e),
         NEW c \in Clients, e # c \/ rows' = rows
  PROVE  /\ Made(c)' = Made(c)
         /\ {rows'[id].key : id \in Made(c)} = {rows[id].key : id \in Made(c)}
<1>1. CASE rows' = rows
  BY <1>1 DEF Made, Present
<1>2. CASE e # c
  <2>1. StepOf(e)
    BY StepsAre
  <2>2. \A id \in Made(c)' : id \in Made(c)
    BY <1>2, <2>1, MadeOfOthers
  <2>3. \A id \in Made(c) : id \in Made(c)' /\ rows'[id].key = rows[id].key
    BY RowsStay DEF Made
  <2>4. QED
    BY <2>2, <2>3
<1>3. QED
  BY <1>1, <1>2

LEMMA SentOthers ==
  ASSUME Basics, Owned, NobodyDeletes, NEW e \in Clients, Step(e) \/ Fails(e),
         NEW c \in Clients \ {e}, Sent(c)
  PROVE  Sent(c)'
<1>1. job' = job /\ Theirs(c)
  BY StepsAre, StepOwn DEF Own
<1>2. /\ Made(c)' = Made(c)
      /\ {rows'[id].key : id \in Made(c)} = {rows[id].key : id \in Made(c)}
  BY MadeStays
<1>3. QED
  BY <1>1, <1>2 DEF Sent, Theirs

LEMMA NextChunkWhole ==
  ASSUME NEW n \in Nat, NEW k \in Nat, k > 0, n % k = 0
  PROVE  (n + k) % k = 0
<1> DEFINE q == n \div k
<1>1. q \in Nat /\ n = k * q
  OBVIOUS
<1>2. n + k = k * (q + 1)
  BY <1>1
<1>3. \A i \in Nat : (k * i) % k = 0
  OBVIOUS
<1>4. QED
  BY <1>1, <1>2, <1>3

LEMMA SentChunk ==
  ASSUME Basics, Owned, NobodyDeletes, NEW c \in Clients, ChunkInserted(c), ~Aborted, Sent(c)
  PROVE  Sent(c)'
<1> DEFINE n == made[c]
           len == ChunkLen(c)
           new == next .. next + len - 1
           keys == job[c].keys
<1>1. /\ keys \in Seq(Keys) /\ n \in Nat /\ len \in Nat /\ Len(keys) \in Nat
      /\ n + len <= Len(keys)
      /\ ChunkKeys(c) \in Seq(Keys) /\ Len(ChunkKeys(c)) = len
      /\ \A i \in 1 .. len : ChunkKeys(c)[i] = keys[n + i]
  BY ChunkIs
<1>2. /\ job' = job /\ made'[c] = n + len /\ rows' = Inserted(c, ChunkKeys(c))
      /\ next \in Nat \ {0} /\ next + len <= MaxId + 1
  BY <1>1, StepsAre, StepOwn DEF ChunkInserted, Basics, RTypes, Own, Room, Chunked, Step
<1>3. answer'[c] # "ok"
  <2>1. pc[c] = "chunk" /\ answer[c] = "none"
    BY DEF ChunkInserted, Basics, Placed
  <2>2. QED
    BY <2>1 DEF ChunkInserted, Ends, Basics, RTypes, Mapped
<1>4. new \subseteq Ids
  BY <1>1, <1>2, RecordsAssumption DEF Ids
<1>5. \A id \in Ids : rows'[id] = IF id \in new THEN NewRow(c, ChunkKeys(c)[id - next + 1])
                                  ELSE rows[id]
  BY <1>1, <1>2 DEF Inserted
<1>6. \A id \in new : /\ id - next + 1 \in 1 .. len
                      /\ rows'[id] # NoRow /\ rows'[id].by = c
                      /\ rows'[id].key = keys[n + (id - next + 1)]
  <2>1. \A id \in new : id - next + 1 \in 1 .. len
    BY <1>1, <1>2
  <2>2. \A i \in 1 .. len : ChunkKeys(c)[i] \in Keys
    BY <1>1
  <2>3. ASSUME NEW id \in new
        PROVE  /\ rows'[id] # NoRow /\ rows'[id].by = c
               /\ rows'[id].key = keys[n + (id - next + 1)]
    <3>1. id \in Ids /\ rows'[id] = NewRow(c, ChunkKeys(c)[id - next + 1])
      BY <1>4, <1>5
    <3>2. /\ ChunkKeys(c)[id - next + 1] = keys[n + (id - next + 1)]
          /\ ChunkKeys(c)[id - next + 1] \in Keys
      BY <1>1, <2>1, <2>2
    <3>3. QED
      BY <3>1, <3>2, NewRowIs
  <2>4. QED
    BY <2>1, <2>3
<1>7. \A id \in Present : id \notin new
  BY <1>2 DEF Owned, Fresh, Present, Ids
<1>8. Made(c)' = Made(c) \cup new /\ Made(c) \cap new = {}
  BY <1>4, <1>5, <1>6, <1>7 DEF Made, Present
<1>9. Cardinality(Made(c)') = n + len
  <2>1. IsFiniteSet(Made(c)) /\ Cardinality(Made(c)) = n
    BY PresentIs, FS_Subset DEF Made, Sent
  <2>2. IsFiniteSet(new) /\ Cardinality(new) = len
    <3>1. next \in Int /\ next + len - 1 \in Int
      BY <1>1, <1>2
    <3>2. IsFiniteSet(new) /\ Cardinality(new) =
             IF next > next + len - 1 THEN 0 ELSE (next + len - 1) - next + 1
      BY <3>1, FS_Interval
    <3>3. QED
      BY <1>1, <1>2, <3>2
  <2>3. Cardinality(Made(c) \cup new)
          = Cardinality(Made(c)) + Cardinality(new) - Cardinality(Made(c) \cap new)
    BY <2>1, <2>2, FS_Union
  <2>4. Cardinality(Made(c) \cap new) = 0
    BY <1>8, FS_EmptySet
  <2>5. QED
    BY <1>1, <1>8, <2>1, <2>2, <2>3, <2>4
<1>10. {rows'[id].key : id \in Made(c)'} = {keys[i] : i \in 1 .. n + len}
  <2>1. {rows'[id].key : id \in Made(c)} = {keys[i] : i \in 1 .. n}
    <3>1. \A id \in Made(c) : rows'[id] = rows[id]
      BY <1>5, <1>7 DEF Made, Present
    <3>2. QED
      BY <3>1 DEF Sent
  <2>2. {rows'[id].key : id \in new} = {keys[i] : i \in n + 1 .. n + len}
    <3>1. ASSUME NEW id \in new
          PROVE  \E i \in n + 1 .. n + len : rows'[id].key = keys[i]
      <4>1. n + (id - next + 1) \in n + 1 .. n + len
        BY <1>1, <1>2
      <4>2. QED
        BY <1>6, <4>1
    <3>2. ASSUME NEW i \in n + 1 .. n + len
          PROVE  \E id \in new : rows'[id].key = keys[i]
      <4>1. next + (i - n - 1) \in new
        BY <1>1, <1>2
      <4>2. n + ((next + (i - n - 1)) - next + 1) = i
        BY <1>1, <1>2
      <4>3. QED
        BY <1>6, <4>1, <4>2
    <3>3. QED
      BY <3>1, <3>2
  <2>3. 1 .. n + len = (1 .. n) \cup (n + 1 .. n + len)
    BY <1>1
  <2>4. {rows'[id].key : id \in Made(c)'}
          = {rows'[id].key : id \in Made(c)} \cup {rows'[id].key : id \in new}
    BY <1>8
  <2>5. {keys[i] : i \in 1 .. n + len}
          = {keys[i] : i \in 1 .. n} \cup {keys[i] : i \in n + 1 .. n + len}
    BY <2>3
  <2>6. QED
    BY <2>1, <2>2, <2>4, <2>5
<1>11. n + len \in {0, Len(keys)} \/ (job[c].chunk > 0 /\ (n + len) % job[c].chunk = 0)
  <2>1. job[c].chunk \in Nat /\ job[c].chunk > 0 /\ n < Len(keys)
    BY DEF ChunkInserted, Basics, JobOK, Placed
  <2>2. CASE len = Len(keys) - n
    BY <1>1, <2>2
  <2>3. CASE len = job[c].chunk
    <3>1. n % job[c].chunk = 0
      <4>1. 0 % job[c].chunk = 0
        BY <2>1
      <4>2. n = 0 \/ n % job[c].chunk = 0
        BY <1>1, <2>1 DEF Sent
      <4>3. QED
        BY <4>1, <4>2
    <3>2. QED
      BY <1>1, <2>1, <2>3, <3>1, NextChunkWhole
  <2>4. QED
    BY <2>2, <2>3 DEF ChunkLen
<1>12. QED
  BY <1>1, <1>2, <1>3, <1>9, <1>10, <1>11 DEF Sent

LEMMA SentOwn ==
  ASSUME Basics, Owned, NobodyDeletes, NEW c \in Clients, Step(c) \/ Fails(c),
         job[c].kind = "chunked", Sent(c)
  PROVE  Sent(c)'
<1>1. CASE ChunkInserted(c) /\ ~Aborted
  BY <1>1, SentChunk
<1>2. ~Select(c) /\ ~Insert(c) /\ ~Change(c) /\ ~Upsert(c) /\ ~StatementFails(c) /\ ~UpsertFails(c)
      /\ ~StackOverflows(c) /\ ~Hooked(c) /\ ~Upserting(c)
  BY DEF Select, Insert, Change, Upsert, Sending, StatementFails, UpsertFails, StackOverflows,
     Hooked, Basics, Placed, Upserts, Upserting, SelectForUpdate, LockRow, NoneFound, FirstFound,
     UpdateFound, Reselect, InsertMissing, Commit, InPhase
<1>3. ASSUME rows' = rows, made' = made,
             answer'[c] \in {answer[c], "error", "panic"} \/ made[c] = Len(job[c].keys)
      PROVE  Sent(c)'
  <2>1. job' = job
    BY StepsAre, StepOwn DEF Own
  <2>2. QED
    BY <1>3, <2>1 DEF Sent, Made, Present
<1>4. ASSUME NEW ans, Ends(c, ans, {})
      PROVE  answer'[c] = ans
  BY <1>4 DEF Ends, Basics, RTypes, Mapped
<1>5. CASE Start(c) \/ RepositoryAsked(c)
  BY <1>3, <1>5 DEF Start, Begins, RepositoryAsked
<1>6. CASE ChunkSizePanics(c) \/ ChunksDone(c)
  BY <1>3, <1>4, <1>6 DEF ChunkSizePanics, ChunksDone
<1>7. CASE ChunkFails(c) \/ IndexRefuses(c)
  BY <1>3, <1>4, <1>7 DEF ChunkFails, IndexRefuses, Refused
<1>8. QED
  BY <1>1, <1>2, <1>5, <1>6, <1>7 DEF Step, Fails, HooksPass, HooksVeto, Chunked

LEMMA SendingsStep ==
  ASSUME Basics, Owned, Sendings, [RecordsNext]_vars
  PROVE  Sendings'
<1>1. CASE UNCHANGED vars
  <2>1. job' = job /\ rows' = rows /\ made' = made /\ answer' = answer
    BY <1>1 DEF vars
  <2>2. (NobodyDeletes' <=> NobodyDeletes) /\ \A c \in Clients : Sent(c) => Sent(c)'
    BY <2>1 DEF NobodyDeletes, Sent, Made, Present
  <2>3. QED
    BY <2>1, <2>2 DEF Sendings
<1>2. CASE RecordsNext
  <2>1. PICK e \in Clients : Step(e) \/ Fails(e)
    BY <1>2 DEF RecordsNext
  <2>2. job' = job
    BY <2>1, StepsAre, StepOwn DEF Own
  <2>3. NobodyDeletes' <=> NobodyDeletes
    BY <2>2 DEF NobodyDeletes
  <2>4. QED
    BY <2>1, <2>2, <2>3, SentOthers, SentOwn DEF Sendings
<1>3. QED
  BY <1>1, <1>2

LEMMA StartsSendings ==
  ASSUME \A c \in Clients : Made(c) = {} /\ made[c] = 0 /\ answer[c] = "none", JobOK
  PROVE  Sendings
<1>1. SUFFICES ASSUME NEW c \in Clients, job[c].kind = "chunked"
               PROVE  Sent(c)
  BY DEF Sendings
<1>2. Len(job[c].keys) \in Nat
  BY <1>1 DEF JobOK
<1>3. Cardinality(Made(c)) = 0
  BY FS_EmptySet
<1>4. QED
  BY <1>2, <1>3 DEF Sent

LEMMA SendingsMean ==
  ASSUME Basics, Sendings
  PROVE  BulkIsPrefix
<1>1. SUFFICES ASSUME NEW c \in Clients, job[c].kind = "chunked", NobodyDeletes
               PROVE  \E n \in 0 .. Len(job[c].keys) :
                        /\ {rows[id].key : id \in Made(c)} = {job[c].keys[i] : i \in 1 .. n}
                        /\ Cardinality(Made(c)) = n
                        /\ n \in {0, Len(job[c].keys)} \/ n % job[c].chunk = 0
                        /\ answer[c] = "ok" => n = Len(job[c].keys)
  BY DEF BulkIsPrefix
<1>2. Sent(c)
  BY <1>1 DEF Sendings
<1>3. made[c] \in 0 .. Len(job[c].keys)
  BY <1>1, <1>2 DEF Sent, Basics, JobOK, RTypes
<1>4. QED
  BY <1>2, <1>3 DEF Sent

LEMMA InitSendings ==
  ASSUME Init
  PROVE  Sendings
<1>1. rows \in StartingRows /\ JobOK
  BY StartsJobs DEF Init, Starts
<1>2. \A c \in Clients : made[c] = 0 /\ answer[c] = "none"
  BY DEF Init, Starts
<1>3. \A c \in Clients : Made(c) = {}
  BY <1>1, StartingAssumption, RecordsAssumption DEF Made, Present
<1>4. QED
  BY <1>1, <1>2, <1>3, StartsSendings


-----------------------------------------------------------------------------
(* The theorems, for the specification of this table alone and for every   *)
(* behaviour whose steps leave the table and its callers as one of its     *)
(* steps does.                                                             *)

Sane == Basics /\ Owned /\ Knowing /\ Sendings
Runs == Sane /\ [][RecordsNext]_vars

\* The rows that upserts have locked or inserted, and what they have read of them,
\* stay theirs until the COMMIT (model.rs:646-747).
LEMMA RunsSane == Runs => []Sane
<1>1. Sane /\ [RecordsNext]_vars => Sane'
  BY StepInv, KnowingStep, SendingsStep DEF Sane
<1>2. QED
  BY <1>1, PTL DEF Runs

LEMMA RunsReturnStored == Runs => UpsertReturnsStored
<1>1. Sane /\ [RecordsNext]_vars =>
        [\A c \in Clients :
           job[c].kind \in Upserts /\ Answered(c, "ok") => Returned(c)]_vars
  BY UpsertsReturn DEF Sane
<1>2. QED
  BY <1>1, RunsSane, PTL DEF Runs, UpsertReturnsStored, Returned

LEMMA RunsOverlap == Runs => []DuplicatesNeedOverlap
<1>1. Sane => DuplicatesNeedOverlap
  BY KnowingMeans DEF Sane
<1>2. QED
  BY <1>1, RunsSane, PTL

LEMMA RunsSend == Runs => []BulkIsPrefix
<1>1. Sane => BulkIsPrefix
  BY SendingsMean DEF Sane
<1>2. QED
  BY <1>1, RunsSane, PTL

LEMMA RunsFrame == Runs => HooksFrameTheWrite
<1>1. Sane /\ [RecordsNext]_vars => [\A c \in Clients : Hooked(c) => Framing(c)]_vars
  BY HooksAreFramed DEF Sane
<1>2. QED
  BY <1>1, RunsSane, PTL DEF Runs, HooksFrameTheWrite, Framing

LEMMA RecordsRuns == RecordsSpec => Runs
<1>1. Init => Sane
  BY InitInv, InitKnowing, InitSendings DEF Sane
<1>2. QED
  BY <1>1, PTL DEF RecordsSpec, Runs

\* What first_or_create and update_or_create return is what the table holds at that
\* moment, for any number of callers and whatever they do (model.rs:646-747).
THEOREM UpsertsReturnStored == RecordsSpec => UpsertReturnsStored
BY RecordsRuns, RunsReturnStored

\* An upsert adds no second row of a key to what calls inserted that were over
\* before it began (model.rs:646-747): a duplicate needs two calls at a time.
THEOREM DuplicatesOverlap == RecordsSpec => []DuplicatesNeedOverlap
BY RecordsRuns, RunsOverlap

\* The hooks after a write run for a write that is in the table at that moment, and
\* a hook that vetoes leaves the table alone (model.rs:562-635).
THEOREM HooksFrame == RecordsSpec => HooksFrameTheWrite
BY RecordsRuns, RunsFrame

\* While nobody deletes, a chunked insert has put whole chunks of a prefix of its
\* rows into the table, each row once, and all of them if it answers that it did
\* (model.rs:231-255), for any number of callers, rows and chunk sizes.
THEOREM BulkSendsPrefix == RecordsSpec => []BulkIsPrefix
BY RecordsRuns, RunsSend

-----------------------------------------------------------------------------
(* The same beside the calls on links.                                     *)

LEMMA AtRestSane ==
  ASSUME RecordsAtRest
  PROVE  Sane
<1>1. /\ rows = [id \in Ids |-> NoRow] /\ Starts({job}, {rows}, {repo}, {unique})
      /\ next = 1 + Cardinality(Present) /\ before = [c \in Clients |-> {}]
      /\ \A c \in Clients : job[c].kind = "none"
  BY DEF RecordsAtRest, Starts, NoCalls
<1>2. Present = {}
  BY <1>1 DEF Present
<1>3. next = 1
  BY <1>1, <1>2, FS_EmptySet
<1>4. JobOK
  BY <1>1 DEF JobOK, Kinds
<1>5. Basics
  BY <1>1, <1>4, StartsBasics
<1>6. Owned
  BY <1>1, <1>2, <1>3, StartsOwned DEF Fresh
<1>7. Knowing
  BY <1>1 DEF Knowing, Upserts
<1>8. Sendings
  BY <1>1, <1>2, <1>4, StartsSendings DEF Starts, Made
<1>9. QED
  BY <1>5, <1>6, <1>7, <1>8 DEF Sane

LEMMA StoreRuns == StoreSpec => Runs
<1>1. StoreInit => Sane
  BY InitInv, InitKnowing, InitSendings, AtRestSane DEF StoreInit, Sane
<1>2. [StoreNext]_<<vars, pivotVars>> => [RecordsNext]_vars
  BY DEF StoreNext
<1>3. QED
  BY <1>1, <1>2, PTL DEF StoreSpec, Runs

-----------------------------------------------------------------------------
(* The calls on links.                                                     *)

LinkTypes ==
  /\ links \in [Targets -> Nat]
  /\ stage \in [Clients -> {"start", "loop", "done"}]
  /\ todo \in [Clients -> Seq(Targets)]
  /\ alone \in [Clients -> BOOLEAN]
  /\ Mapped(known) /\ Mapped(reply) /\ Mapped(old)
  /\ \A c \in Clients : work[c].ids \in Seq(Targets)

LEMMA SetOfTail ==
  ASSUME NEW S, NEW s \in Seq(S), s # <<>>
  PROVE  /\ Head(s) \in S /\ Tail(s) \in Seq(S)
         /\ P!ToSet(s) = {Head(s)} \cup P!ToSet(Tail(s))
<1>1. Len(s) \in Nat \ {0} /\ DOMAIN s = 1 .. Len(s) /\ Head(s) = s[1] /\ 1 \in DOMAIN s
  OBVIOUS
<1>2. Head(s) \in S
  BY <1>1
<1>3. /\ Tail(s) \in Seq(S) /\ DOMAIN Tail(s) = 1 .. Len(s) - 1
      /\ \A i \in 1 .. Len(s) - 1 : Tail(s)[i] = s[i + 1]
  BY <1>1
<1>4. \A i \in DOMAIN s : i # 1 => i - 1 \in DOMAIN Tail(s) /\ s[i] = Tail(s)[i - 1]
  <2>1. SUFFICES ASSUME NEW i \in DOMAIN s, i # 1
                 PROVE  i - 1 \in DOMAIN Tail(s) /\ s[i] = Tail(s)[i - 1]
    OBVIOUS
  <2>2. i - 1 \in 1 .. Len(s) - 1 /\ (i - 1) + 1 = i
    BY <1>1, <2>1
  <2>3. QED
    BY <1>3, <2>2
<1>5. \A i \in DOMAIN Tail(s) : i + 1 \in DOMAIN s /\ Tail(s)[i] = s[i + 1]
  BY <1>1, <1>3
<1>6. P!ToSet(s) = {s[i] : i \in DOMAIN s}
      /\ P!ToSet(Tail(s)) = {Tail(s)[i] : i \in DOMAIN Tail(s)}
  BY DEF P!ToSet
<1>7. P!ToSet(s) \subseteq {Head(s)} \cup P!ToSet(Tail(s))
  <2>1. SUFFICES ASSUME NEW i \in DOMAIN s
                 PROVE  s[i] \in {Head(s)} \cup P!ToSet(Tail(s))
    BY <1>6
  <2>2. CASE i = 1
    BY <1>1, <2>2
  <2>3. CASE i # 1
    BY <1>4, <1>6, <2>3
  <2>4. QED
    BY <2>2, <2>3
<1>8. Head(s) \in P!ToSet(s) /\ P!ToSet(Tail(s)) \subseteq P!ToSet(s)
  BY <1>1, <1>5, <1>6
<1>9. QED
  BY <1>2, <1>3, <1>7, <1>8

LEMMA LinkedBy ==
  ASSUME LinkTypes, NEW t \in Targets
  PROVE  /\ P!InsertLink(links, t) \in [Targets -> Nat]
         /\ P!Linked(P!InsertLink(links, t)) = P!Linked(links) \cup {t}
<1>1. /\ P!InsertLink(links, t) \in [Targets -> Nat]
      /\ P!InsertLink(links, t)[t] > 0
      /\ \A u \in Targets \ {t} : P!InsertLink(links, t)[u] = links[u]
  BY DEF LinkTypes, P!InsertLink
<1>2. QED
  BY <1>1 DEF P!Linked

LEMMA UnlinkedBy ==
  ASSUME LinkTypes, NEW ts
  PROVE  /\ P!DeleteLinks(links, ts) \in [Targets -> Nat]
         /\ P!Linked(P!DeleteLinks(links, ts)) = P!Linked(links) \ ts
<1>1. /\ P!DeleteLinks(links, ts) \in [Targets -> Nat]
      /\ \A u \in Targets : P!DeleteLinks(links, ts)[u] = IF u \in ts THEN 0 ELSE links[u]
  BY DEF LinkTypes, P!DeleteLinks
<1>2. QED
  BY <1>1 DEF P!Linked

-----------------------------------------------------------------------------
(* Every step of a call on links is of one of these kinds.                 *)

Moved(e) ==
  /\ links' \in [Targets -> Nat] /\ stage' \in [Clients -> {"start", "loop", "done"}]
  /\ todo' \in [Clients -> Seq(Targets)] /\ Mapped(known') /\ Mapped(reply')
  /\ \A d \in Clients \ {e} : /\ stage'[d] = stage[d] /\ todo'[d] = todo[d]
                              /\ known'[d] = known[d] /\ reply'[d] = reply[d]

LinkOpens(e) ==
  /\ stage[e] = "start" /\ Moved(e) /\ UNCHANGED <<work, idType>>
  /\ alone' \in [Clients -> BOOLEAN] /\ Mapped(old')
  /\ old'[e] = P!Linked(links) /\ \A d \in Clients \ {e} : old'[d] = old[d]
  /\ alone'[e] => P!Meeting(e) = {}
  /\ \A d \in Clients \ {e} : alone'[d] => alone[d] /\ ~P!Ongoing(d)

LinkGoesOn(e) ==
  /\ P!Ongoing(e) /\ Moved(e) /\ UNCHANGED <<work, idType, old, alone, known>>

SyncOpens(e) ==
  /\ LinkOpens(e) /\ work[e].op = "sync"
  /\ P!Linked(links') = P!Linked(links) \cap P!Asked(e)
  /\ \/ work[e].ids = <<>> /\ stage'[e] = "done"
     \/ stage'[e] = "loop" /\ todo'[e] = work[e].ids /\ reply'[e] = reply[e]
     \/ stage'[e] = "done" /\ reply'[e] = "error"

ToggleOpens(e) ==
  /\ LinkOpens(e) /\ work[e].op = "toggle" /\ links' = links
  /\ \/ work[e].ids = <<>> /\ stage'[e] = "done"
     \/ /\ stage'[e] = "loop" /\ todo'[e] = work[e].ids /\ reply'[e] = reply[e]
        /\ idType = "i64" => known'[e] = P!Linked(links) \cap P!Asked(e)

OtherOpens(e) ==
  LinkOpens(e) /\ work[e].op \notin {"sync", "toggle"} /\ stage'[e] = "done"

LinkBreaks(e) ==
  /\ LinkOpens(e) \/ LinkGoesOn(e)
  /\ stage'[e] = "done" /\ reply'[e] = "error" /\ links' = links

HandlesOne(e) ==
  /\ LinkGoesOn(e) /\ todo[e] # <<>> /\ todo'[e] = Tail(todo[e])
  /\ P!Linked(links') = IF P!Inserts(e, Head(todo[e])) THEN P!Linked(links) \cup {Head(todo[e])}
                        ELSE P!Linked(links) \ {Head(todo[e])}
  /\ \/ stage'[e] = "done" /\ reply'[e] = "error"
     \/ stage'[e] = stage[e] /\ reply'[e] = reply[e]

HandledAll(e) ==
  LinkGoesOn(e) /\ todo[e] = <<>> /\ links' = links /\ stage'[e] = "done"

LinkStepOf(e) ==
  \/ SyncOpens(e) \/ ToggleOpens(e) \/ OtherOpens(e) \/ LinkBreaks(e)
  \/ HandlesOne(e) \/ HandledAll(e)

LEMMA OverMoves ==
  ASSUME LinkTypes, NEW e \in Clients, NEW ans, P!Over(e, ans), known' = known,
         links' \in [Targets -> Nat], todo' \in [Clients -> Seq(Targets)],
         \A d \in Clients \ {e} : todo'[d] = todo[d]
  PROVE  Moved(e) /\ stage'[e] = "done" /\ reply'[e] = ans
<1>1. /\ stage' \in [Clients -> {"start", "loop", "done"}] /\ stage'[e] = "done"
      /\ \A d \in Clients \ {e} : stage'[d] = stage[d]
  BY DEF P!Over, LinkTypes
<1>2. Mapped(reply') /\ reply'[e] = ans /\ \A d \in Clients \ {e} : reply'[d] = reply[d]
  BY DEF P!Over, LinkTypes, Mapped
<1>3. QED
  BY <1>1, <1>2 DEF Moved, LinkTypes

LEMMA LoopMoves ==
  ASSUME LinkTypes, NEW e \in Clients, P!Loops(e), reply' = reply,
         links' \in [Targets -> Nat], Mapped(known'),
         \A d \in Clients \ {e} : known'[d] = known[d]
  PROVE  Moved(e) /\ stage'[e] = "loop" /\ todo'[e] = work[e].ids
<1>1. /\ stage' \in [Clients -> {"start", "loop", "done"}] /\ stage'[e] = "loop"
      /\ \A d \in Clients \ {e} : stage'[d] = stage[d]
  BY DEF P!Loops, LinkTypes
<1>2. /\ todo' \in [Clients -> Seq(Targets)] /\ todo'[e] = work[e].ids
      /\ \A d \in Clients \ {e} : todo'[d] = todo[d]
  BY DEF P!Loops, LinkTypes
<1>3. QED
  BY <1>1, <1>2 DEF Moved, LinkTypes

LEMMA OpensIsLink ==
  ASSUME LinkTypes, NEW e \in Clients, NEW via, NEW op, P!Opens(e, via, op), Moved(e)
  PROVE  LinkOpens(e) /\ work[e].op = op
<1>1. /\ Mapped(old') /\ old'[e] = P!Linked(links)
      /\ \A d \in Clients \ {e} : old'[d] = old[d]
  BY DEF P!Opens, LinkTypes, Mapped
<1>2. alone' = [d \in Clients |->
          IF d = e THEN P!Meeting(e) = {} ELSE alone[d] /\ ~P!Ongoing(d)]
  BY DEF P!Opens
<1>3. /\ alone' \in [Clients -> BOOLEAN]
      /\ alone'[e] => P!Meeting(e) = {}
      /\ \A d \in Clients \ {e} : alone'[d] => alone[d] /\ ~P!Ongoing(d)
  BY <1>2 DEF LinkTypes
<1>4. QED
  BY <1>1, <1>3 DEF P!Opens, P!fixed, LinkOpens

LEMMA SingleIs ==
  ASSUME LinkTypes, NEW e \in Clients, NEW via, NEW op, P!Opens(e, via, op),
         op \notin {"sync", "toggle"}, NEW table \in [Targets -> Nat], P!OneStatement(e, table)
  PROVE  OtherOpens(e)
<1>1. /\ links' \in [Targets -> Nat] /\ UNCHANGED <<todo, known>>
      /\ P!Over(e, "ok") \/ P!Over(e, "error")
  BY DEF P!OneStatement
<1>2. Moved(e) /\ stage'[e] = "done"
  BY <1>1, OverMoves DEF LinkTypes
<1>3. QED
  BY <1>2, OpensIsLink DEF OtherOpens

LEMMA SinglesAre ==
  ASSUME LinkTypes, NEW e \in Clients,
         \/ P!GetLinks(e) \/ P!Attach(e) \/ P!Detach(e) \/ P!DetachAll(e)
         \/ P!UpdatePivot(e) \/ P!MorphGetLinks(e) \/ P!MorphWrite(e)
  PROVE  OtherOpens(e)
<1>1. links \in [Targets -> Nat] /\ \A ts : P!DeleteLinks(links, ts) \in [Targets -> Nat]
  BY UnlinkedBy DEF LinkTypes
<1>2. \A t : P!InsertLink(links, t) \in [Targets -> Nat]
  <2>1. SUFFICES ASSUME NEW t PROVE P!InsertLink(links, t) \in [Targets -> Nat]
    OBVIOUS
  <2>2. CASE t \in Targets
    BY <2>2, LinkedBy
  <2>3. CASE t \notin Targets
    <3>1. P!InsertLink(links, t) = links
      BY <2>3 DEF LinkTypes, P!InsertLink
    <3>2. QED
      BY <1>1, <3>1
  <2>4. QED
    BY <2>2, <2>3
<1>3. CASE P!GetLinks(e) \/ P!UpdatePivot(e) \/ P!MorphGetLinks(e)
  BY <1>1, <1>3, SingleIs DEF P!GetLinks, P!UpdatePivot, P!MorphGetLinks
<1>4. ASSUME NEW via, P!Attaches(e, via) \/ P!Detaches(e, via) \/ P!DetachesAll(e, via)
      PROVE  OtherOpens(e)
  BY <1>1, <1>2, <1>4, SingleIs DEF P!Attaches, P!Detaches, P!DetachesAll
<1>5. QED
  BY <1>3, <1>4 DEF P!Attach, P!Detach, P!DetachAll, P!MorphWrite

LEMMA SyncIs ==
  ASSUME LinkTypes, NEW e \in Clients, NEW via, P!Syncs(e, via)
  PROVE  SyncOpens(e)
<1>1. /\ P!Opens(e, via, "sync") /\ known' = known
      /\ links' = P!DeleteLinks(links, Targets \ P!Asked(e))
  BY DEF P!Syncs, P!KeptBySync
<1>2. /\ links' \in [Targets -> Nat]
      /\ P!Linked(links') = P!Linked(links) \ (Targets \ P!Asked(e))
  BY <1>1, UnlinkedBy
<1>3. P!Linked(links') = P!Linked(links) \cap P!Asked(e)
  BY <1>2 DEF P!Linked
<1>4. todo \in [Clients -> Seq(Targets)] /\ Mapped(known)
  BY DEF LinkTypes
<1>5. CASE P!Loops(e) /\ UNCHANGED reply
  <2>1. Moved(e) /\ stage'[e] = "loop" /\ todo'[e] = work[e].ids
    BY <1>1, <1>2, <1>4, <1>5, LoopMoves
  <2>2. QED
    BY <1>1, <1>3, <1>5, <2>1, OpensIsLink DEF SyncOpens
<1>6. CASE work[e].ids = <<>> /\ P!Over(e, "ok") /\ UNCHANGED todo
  <2>1. Moved(e) /\ stage'[e] = "done"
    BY <1>1, <1>2, <1>4, <1>6, OverMoves
  <2>2. QED
    BY <1>1, <1>3, <1>6, <2>1, OpensIsLink DEF SyncOpens
<1>7. CASE P!Over(e, "error") /\ UNCHANGED todo
  <2>1. Moved(e) /\ stage'[e] = "done" /\ reply'[e] = "error"
    BY <1>1, <1>2, <1>4, <1>7, OverMoves
  <2>2. QED
    BY <1>1, <1>3, <2>1, OpensIsLink DEF SyncOpens
<1>8. QED
  BY <1>5, <1>6, <1>7 DEF P!Syncs

LEMMA ToggleIs ==
  ASSUME LinkTypes, NEW e \in Clients, NEW via, P!Toggles(e, via)
  PROVE  ToggleOpens(e)
<1>1. P!Opens(e, via, "toggle") /\ links' = links /\ links' \in [Targets -> Nat]
  BY DEF P!Toggles, LinkTypes
<1>2. CASE work[e].ids = <<>> /\ P!Over(e, "ok") /\ UNCHANGED <<todo, known>>
  <2>1. Moved(e) /\ stage'[e] = "done"
    BY <1>1, <1>2, OverMoves DEF LinkTypes
  <2>2. QED
    BY <1>1, <1>2, <2>1, OpensIsLink DEF ToggleOpens
<1>3. CASE /\ known' = [known EXCEPT ![e] =
                IF idType = "i64" THEN P!Linked(links) \cap P!Asked(e) ELSE {}]
           /\ P!Loops(e) /\ UNCHANGED reply
  <2>1. /\ Mapped(known') /\ \A d \in Clients \ {e} : known'[d] = known[d]
        /\ idType = "i64" => known'[e] = P!Linked(links) \cap P!Asked(e)
    BY <1>3 DEF LinkTypes, Mapped
  <2>2. Moved(e) /\ stage'[e] = "loop" /\ todo'[e] = work[e].ids /\ reply'[e] = reply[e]
    BY <1>1, <1>3, <2>1, LoopMoves
  <2>3. QED
    BY <1>1, <2>1, <2>2, OpensIsLink DEF ToggleOpens
<1>4. QED
  BY <1>2, <1>3 DEF P!Toggles

LEMMA HandleIs ==
  ASSUME LinkTypes, NEW e \in Clients, P!HandleId(e)
  PROVE  HandlesOne(e)
<1> DEFINE t == Head(todo[e])
<1>1. /\ P!Ongoing(e) /\ todo[e] # <<>> /\ todo' = [todo EXCEPT ![e] = Tail(@)]
      /\ UNCHANGED <<work, idType, known, old, alone>>
      /\ P!Over(e, "error") \/ UNCHANGED <<stage, reply>>
  BY DEF P!HandleId
<1>2. t \in Targets /\ Tail(todo[e]) \in Seq(Targets)
  BY <1>1, SetOfTail DEF LinkTypes
<1>3. /\ todo' \in [Clients -> Seq(Targets)] /\ todo'[e] = Tail(todo[e])
      /\ \A d \in Clients \ {e} : todo'[d] = todo[d]
  BY <1>1, <1>2 DEF LinkTypes
<1>4. IF P!Inserts(e, t) THEN links' = P!InsertLink(links, t)
                         ELSE links' = P!DeleteLinks(links, {t})
  BY DEF P!HandleId
<1> HIDE DEF t
<1>5. /\ links' \in [Targets -> Nat]
      /\ P!Linked(links') = IF P!Inserts(e, t) THEN P!Linked(links) \cup {t}
                            ELSE P!Linked(links) \ {t}
  <2>1. CASE P!Inserts(e, t)
    BY <1>2, <1>4, <2>1, LinkedBy
  <2>2. CASE ~P!Inserts(e, t)
    BY <1>4, <2>2, UnlinkedBy
  <2>3. QED
    BY <2>1, <2>2
<1>6. Moved(e) /\ \/ stage'[e] = "done" /\ reply'[e] = "error"
                  \/ stage'[e] = stage[e] /\ reply'[e] = reply[e]
  <2>1. CASE P!Over(e, "error")
    BY <1>1, <1>3, <1>5, <2>1, OverMoves
  <2>2. CASE UNCHANGED <<stage, reply>>
    BY <1>1, <1>3, <1>5, <2>2 DEF Moved, LinkTypes
  <2>3. QED
    BY <1>1, <2>1, <2>2
<1>7. QED
  BY <1>1, <1>3, <1>5, <1>6 DEF HandlesOne, LinkGoesOn, t

LEMMA BreakIs ==
  ASSUME LinkTypes, NEW e \in Clients, P!LinkFails(e)
  PROVE  LinkBreaks(e)
<1>1. P!Over(e, "error") /\ UNCHANGED <<links, todo, known>>
  BY DEF P!LinkFails
<1>2. Moved(e) /\ stage'[e] = "done" /\ reply'[e] = "error"
  BY <1>1, OverMoves DEF LinkTypes
<1>3. CASE P!Ongoing(e) /\ UNCHANGED <<P!fixed, old, alone>>
  BY <1>1, <1>2, <1>3 DEF LinkBreaks, LinkGoesOn, P!fixed
<1>4. CASE P!Opens(e, work[e].via, work[e].op)
  BY <1>1, <1>2, <1>4, OpensIsLink DEF LinkBreaks
<1>5. QED
  BY <1>3, <1>4 DEF P!LinkFails

LEMMA AllIs ==
  ASSUME LinkTypes, NEW e \in Clients, P!IdsHandled(e)
  PROVE  HandledAll(e)
<1>1. /\ P!Ongoing(e) /\ todo[e] = <<>> /\ P!Over(e, "ok")
      /\ UNCHANGED <<work, idType, links, todo, known, old, alone>>
  BY DEF P!IdsHandled
<1>2. Moved(e) /\ stage'[e] = "done"
  BY <1>1, OverMoves DEF LinkTypes
<1>3. QED
  BY <1>1, <1>2 DEF HandledAll, LinkGoesOn

LEMMA LinkStepsAre ==
  ASSUME LinkTypes, NEW e \in Clients, P!LinkStep(e) \/ P!LinkFails(e)
  PROVE  LinkStepOf(e)
BY SinglesAre, SyncIs, ToggleIs, HandleIs, AllIs, BreakIs
   DEF P!LinkStep, P!Sync, P!MorphSync, P!Toggle, P!MorphToggle, LinkStepOf

-----------------------------------------------------------------------------
(* What a sync or a toggle has done so far, when it runs alone.            *)

SyncAt(c, linked, was, rest) ==
  /\ was \cap P!Asked(c) \subseteq linked /\ linked \subseteq P!Asked(c)
  /\ rest \subseteq P!Asked(c) /\ P!Asked(c) \ rest \subseteq linked

ToggleAt(c, linked, was, rest) ==
  /\ was \ P!Asked(c) = linked \ P!Asked(c) /\ rest \subseteq P!Asked(c)
  /\ \A t \in P!Asked(c) \ rest : t \in linked <=> t \notin was

Tracked(c) ==
  P!Ongoing(c) =>
    /\ work[c].op \in {"sync", "toggle"}
    /\ alone[c] /\ work[c].op = "sync" =>
          SyncAt(c, P!Linked(links), old[c], P!ToSet(todo[c]))
    /\ alone[c] /\ work[c].op = "toggle" /\ idType = "i64" =>
          /\ known[c] = old[c] \cap P!Asked(c)
          /\ ToggleAt(c, P!Linked(links), old[c], P!ToSet(todo[c]))

OneAtATime ==
  \A c, d \in Clients : c # d /\ P!Ongoing(c) /\ alone[c] => ~P!Ongoing(d)

Converging == LinkTypes /\ OneAtATime /\ \A c \in Clients : Tracked(c)

LEMMA NothingLeft == P!ToSet(<<>>) = {}
BY DEF P!ToSet

LEMMA SyncStep ==
  ASSUME LinkTypes, NEW e \in Clients, Tracked(e), LinkStepOf(e),
         work[e].op = "sync", alone'[e]
  PROVE  /\ old'[e] \cap P!Asked(e) \subseteq P!Linked(links')
         /\ P!Linked(links') \subseteq old'[e] \cup P!Asked(e)
         /\ stage'[e] = "loop" =>
               SyncAt(e, P!Linked(links'), old'[e], P!ToSet(todo'[e]))
         /\ stage'[e] = "done" /\ reply'[e] # "error" => P!Linked(links') = P!Asked(e)
<1>1. LinkGoesOn(e) => /\ alone[e] /\ old'[e] = old[e] /\ stage[e] = "loop"
                       /\ SyncAt(e, P!Linked(links), old[e], P!ToSet(todo[e]))
  BY DEF LinkGoesOn, P!Ongoing, Tracked
<1>2. LinkOpens(e) => old'[e] = P!Linked(links)
  BY DEF LinkOpens
<1>3. CASE SyncOpens(e)
  <2>1. /\ old'[e] = P!Linked(links)
        /\ P!Linked(links') = P!Linked(links) \cap P!Asked(e)
    BY <1>2, <1>3 DEF SyncOpens
  <2>2. work[e].ids = <<>> => P!Asked(e) = {}
    BY NothingLeft DEF P!Asked
  <2>3. stage'[e] = "loop" => P!ToSet(todo'[e]) = P!Asked(e)
    BY <1>3 DEF SyncOpens, P!Asked
  <2>4. stage'[e] = "done" => work[e].ids = <<>> \/ reply'[e] = "error"
    BY <1>3 DEF SyncOpens
  <2>5. QED
    BY <2>1, <2>2, <2>3, <2>4 DEF SyncAt
<1>4. CASE LinkBreaks(e)
  <2>1. links' = links /\ stage'[e] = "done" /\ reply'[e] = "error"
    BY <1>4 DEF LinkBreaks
  <2>2. QED
    BY <1>1, <1>2, <1>4, <2>1 DEF LinkBreaks, SyncAt
<1>5. CASE HandlesOne(e)
  <2> DEFINE t == Head(todo[e])
  <2>1. P!Inserts(e, t)
    BY DEF P!Inserts
  <2>2. P!Linked(links') = P!Linked(links) \cup {t} /\ LinkGoesOn(e)
    BY <1>5, <2>1 DEF HandlesOne
  <2>3. P!ToSet(todo[e]) = {t} \cup P!ToSet(todo'[e])
    BY <1>5, SetOfTail DEF HandlesOne, LinkTypes
  <2>4. stage'[e] = "loop" \/ reply'[e] = "error"
    BY <1>1, <1>5, <2>2 DEF HandlesOne
  <2>5. t \in P!Asked(e)
    <3>1. P!ToSet(todo[e]) \subseteq P!Asked(e)
      BY <1>1, <2>2 DEF SyncAt
    <3>2. QED
      BY <2>3, <3>1
  <2> HIDE DEF t
  <2>6. QED
    BY <1>1, <2>2, <2>3, <2>4, <2>5 DEF SyncAt
<1>6. CASE HandledAll(e)
  BY <1>1, <1>6, NothingLeft DEF HandledAll, SyncAt
<1>7. QED
  BY <1>3, <1>4, <1>5, <1>6 DEF LinkStepOf, ToggleOpens, OtherOpens

LEMMA ToggleStep ==
  ASSUME LinkTypes, NEW e \in Clients, Tracked(e), LinkStepOf(e),
         work[e].op = "toggle", alone'[e], idType = "i64"
  PROVE  /\ old'[e] \ P!Asked(e) = P!Linked(links') \ P!Asked(e)
         /\ stage'[e] = "loop" =>
               /\ known'[e] = old'[e] \cap P!Asked(e)
               /\ ToggleAt(e, P!Linked(links'), old'[e], P!ToSet(todo'[e]))
         /\ stage'[e] = "done" /\ reply'[e] # "error" =>
               \A t \in P!Asked(e) : t \in P!Linked(links') <=> t \notin old'[e]
<1>1. LinkGoesOn(e) => /\ alone[e] /\ old'[e] = old[e] /\ stage[e] = "loop"
                       /\ known'[e] = known[e] /\ known[e] = old[e] \cap P!Asked(e)
                       /\ ToggleAt(e, P!Linked(links), old[e], P!ToSet(todo[e]))
  BY DEF LinkGoesOn, P!Ongoing, Tracked
<1>2. LinkOpens(e) => old'[e] = P!Linked(links)
  BY DEF LinkOpens
<1>3. CASE ToggleOpens(e)
  <2>1. old'[e] = P!Linked(links) /\ links' = links
    BY <1>2, <1>3 DEF ToggleOpens
  <2>2. work[e].ids = <<>> => P!Asked(e) = {}
    BY NothingLeft DEF P!Asked
  <2>3. stage'[e] = "loop" => /\ P!ToSet(todo'[e]) = P!Asked(e)
                              /\ known'[e] = P!Linked(links) \cap P!Asked(e)
    BY <1>3 DEF ToggleOpens, P!Asked
  <2>4. stage'[e] = "done" => work[e].ids = <<>>
    BY <1>3 DEF ToggleOpens
  <2>5. QED
    BY <2>1, <2>2, <2>3, <2>4 DEF ToggleAt
<1>4. CASE LinkBreaks(e)
  <2>1. links' = links /\ stage'[e] = "done" /\ reply'[e] = "error"
    BY <1>4 DEF LinkBreaks
  <2>2. QED
    BY <1>1, <1>2, <1>4, <2>1 DEF LinkBreaks, ToggleAt
<1>5. CASE HandlesOne(e)
  <2> DEFINE t == Head(todo[e])
  <2>1. P!Inserts(e, t) <=> t \notin known[e]
    BY DEF P!Inserts
  <2>2. LinkGoesOn(e)
    BY <1>5 DEF HandlesOne
  <2>3. P!ToSet(todo[e]) = {t} \cup P!ToSet(todo'[e])
    BY <1>5, SetOfTail DEF HandlesOne, LinkTypes
  <2>4. stage'[e] = "loop" \/ reply'[e] = "error"
    BY <1>1, <1>5, <2>2 DEF HandlesOne
  <2>5. t \in P!Asked(e)
    <3>1. P!ToSet(todo[e]) \subseteq P!Asked(e)
      BY <1>1, <2>2 DEF ToggleAt
    <3>2. QED
      BY <2>3, <3>1
  <2>6. P!Linked(links') = IF P!Inserts(e, t) THEN P!Linked(links) \cup {t}
                           ELSE P!Linked(links) \ {t}
    BY <1>5 DEF HandlesOne
  <2> HIDE DEF t
  <2>7. t \in P!Linked(links') <=> t \notin old[e]
    BY <1>1, <2>1, <2>2, <2>5, <2>6
  <2>8. \A u : u # t => (u \in P!Linked(links') <=> u \in P!Linked(links))
    BY <2>6
  <2>9. P!Linked(links') \ P!Asked(e) = P!Linked(links) \ P!Asked(e)
    BY <2>5, <2>8
  <2>10. ToggleAt(e, P!Linked(links'), old[e], P!ToSet(todo'[e]))
    BY <1>1, <2>2, <2>3, <2>7, <2>8, <2>9 DEF ToggleAt
  <2>11. QED
    BY <1>1, <2>2, <2>4, <2>9, <2>10 DEF ToggleAt
<1>6. CASE HandledAll(e)
  BY <1>1, <1>6, NothingLeft DEF HandledAll, ToggleAt
<1>7. QED
  BY <1>3, <1>4, <1>5, <1>6 DEF LinkStepOf, SyncOpens, OtherOpens

LEMMA LinkTypesStep ==
  ASSUME LinkTypes, NEW e \in Clients, LinkStepOf(e)
  PROVE  LinkTypes' /\ work' = work /\ idType' = idType
<1>1. LinkOpens(e) \/ LinkGoesOn(e)
  BY DEF LinkStepOf, SyncOpens, ToggleOpens, OtherOpens, LinkBreaks, HandlesOne, HandledAll
<1>2. CASE LinkOpens(e)
  BY <1>2 DEF LinkOpens, Moved, LinkTypes
<1>3. CASE LinkGoesOn(e)
  BY <1>3 DEF LinkGoesOn, Moved, LinkTypes, Mapped
<1>4. QED
  BY <1>1, <1>2, <1>3

LEMMA OthersNotAlone ==
  ASSUME Converging, NEW e \in Clients, LinkStepOf(e), NEW d \in Clients \ {e},
         P!Ongoing(d)'
  PROVE  ~alone'[d] /\ P!Ongoing(d)
<1>1. LinkOpens(e) \/ LinkGoesOn(e)
  BY DEF LinkStepOf, SyncOpens, ToggleOpens, OtherOpens, LinkBreaks, HandlesOne, HandledAll
<1>2. P!Ongoing(d)
  BY <1>1 DEF LinkOpens, LinkGoesOn, Moved, P!Ongoing
<1>3. CASE LinkOpens(e)
  BY <1>2, <1>3 DEF LinkOpens
<1>4. CASE LinkGoesOn(e)
  BY <1>2, <1>4 DEF LinkGoesOn, Converging, OneAtATime
<1>5. QED
  BY <1>1, <1>2, <1>3, <1>4

LEMMA OneAtATimeStep ==
  ASSUME Converging, NEW e \in Clients, LinkStepOf(e)
  PROVE  OneAtATime'
<1>1. SUFFICES ASSUME NEW c \in Clients, NEW d \in Clients, c # d,
                      P!Ongoing(c)', alone'[c], P!Ongoing(d)'
               PROVE  FALSE
  BY DEF OneAtATime
<1>2. c = e
  BY <1>1, OthersNotAlone
<1>3. P!Ongoing(d)
  BY <1>1, <1>2, OthersNotAlone
<1>4. CASE LinkOpens(e)
  BY <1>1, <1>2, <1>3, <1>4 DEF LinkOpens, P!Meeting
<1>5. CASE LinkGoesOn(e)
  BY <1>1, <1>2, <1>3, <1>5 DEF LinkGoesOn, Converging, OneAtATime
<1>6. QED
  BY <1>4, <1>5 DEF LinkStepOf, SyncOpens, ToggleOpens, OtherOpens, LinkBreaks,
     HandlesOne, HandledAll

LEMMA TrackedStep ==
  ASSUME Converging, NEW e \in Clients, LinkStepOf(e), NEW c \in Clients
  PROVE  Tracked(c)'
<1>1. work' = work /\ idType' = idType /\ Tracked(c) /\ LinkTypes
  BY LinkTypesStep DEF Converging
<1>2. P!Asked(c)' = P!Asked(c)
  BY <1>1 DEF P!Asked
<1>3. CASE c # e
  <2>1. P!Ongoing(c)' => ~alone'[c] /\ work'[c].op \in {"sync", "toggle"}
    BY <1>1, <1>3, OthersNotAlone DEF Tracked
  <2>2. QED
    BY <2>1 DEF Tracked
<1>4. CASE c = e
  <2>1. P!Ongoing(c)' => stage'[e] = "loop" /\ work[e].op \in {"sync", "toggle"}
    BY <1>1, <1>4 DEF P!Ongoing, Tracked, LinkStepOf, SyncOpens, ToggleOpens, OtherOpens,
       LinkBreaks, HandlesOne, HandledAll, LinkGoesOn
  <2>2. stage'[e] = "loop" /\ alone'[e] /\ work[e].op = "sync" =>
           SyncAt(e, P!Linked(links'), old'[e], P!ToSet(todo'[e]))
    BY <1>1, <1>4, SyncStep
  <2>3. stage'[e] = "loop" /\ alone'[e] /\ work[e].op = "toggle" /\ idType = "i64" =>
           /\ known'[e] = old'[e] \cap P!Asked(e)
           /\ ToggleAt(e, P!Linked(links'), old'[e], P!ToSet(todo'[e]))
    BY <1>1, <1>4, ToggleStep
  <2>4. /\ SyncAt(e, P!Linked(links), old[e], P!ToSet(todo[e]))'
              = SyncAt(e, P!Linked(links'), old'[e], P!ToSet(todo'[e]))
        /\ ToggleAt(e, P!Linked(links), old[e], P!ToSet(todo[e]))'
              = ToggleAt(e, P!Linked(links'), old'[e], P!ToSet(todo'[e]))
    BY <1>2, <1>4 DEF SyncAt, ToggleAt, P!Linked, P!ToSet
  <2>5. QED
    BY <1>1, <1>2, <1>4, <2>1, <2>2, <2>3, <2>4 DEF Tracked
<1>5. QED
  BY <1>3, <1>4

LEMMA ConvergingStep ==
  ASSUME Converging, NEW e \in Clients, LinkStepOf(e)
  PROVE  Converging'
BY LinkTypesStep, OneAtATimeStep, TrackedStep DEF Converging

LEMMA StartsConverging ==
  ASSUME NEW workloads, NEW tables, NEW indexes, NEW types,
         \A w \in workloads : \A c \in Clients : w[c].ids \in Seq(Targets),
         tables \subseteq [Targets -> Nat], P!LinksStart(workloads, tables, indexes, types)
  PROVE  Converging
<1>1. /\ work \in workloads /\ links \in [Targets -> Nat]
      /\ stage = [c \in Clients |-> IF work[c].op = "none" THEN "done" ELSE "start"]
      /\ todo = [c \in Clients |-> <<>>] /\ known = [c \in Clients |-> {}]
      /\ reply = [c \in Clients |-> "none"] /\ old = [c \in Clients |-> {}]
      /\ alone = [c \in Clients |-> TRUE]
  BY DEF P!LinksStart
<1>2. LinkTypes
  BY <1>1 DEF LinkTypes, Mapped
<1>3. \A c \in Clients : ~P!Ongoing(c)
  BY <1>1 DEF P!Ongoing
<1>4. QED
  BY <1>2, <1>3 DEF Converging, OneAtATime, Tracked

LEMMA InitConverging ==
  ASSUME StoreInit
  PROVE  Converging
<1>1. CASE PivotsAtRest
  <2>1. \A w \in NoLinkCalls : \A c \in Clients : w[c].ids \in Seq(Targets)
    <3>1. SUFFICES ASSUME NEW c \in Clients
                   PROVE  [d \in Clients |-> [op |-> "none", ids |-> <<>>, via |-> "pivot"]][c].ids
                            \in Seq(Targets)
      BY DEF NoLinkCalls
    <3>2. [op |-> "none", ids |-> <<>>, via |-> "pivot"].ids = <<>>
      OBVIOUS
    <3>3. <<>> \in Seq(Targets)
      OBVIOUS
    <3>4. QED
      BY <3>2, <3>3
  <2>2. {[t \in Targets |-> 0]} \subseteq [Targets -> Nat]
    OBVIOUS
  <2>3. QED
    BY <1>1, <2>1, <2>2, StartsConverging DEF PivotsAtRest
<1>2. CASE P!PivotsInit
  <2>1. \A w \in LinkWorkloads : \A c \in Clients : w[c] \in P!LinkCalls
    BY LinksAssumption DEF P!PivotsAssumption
  <2>2. \A w \in LinkWorkloads : \A c \in Clients : w[c].ids \in Seq(Targets)
    BY <2>1 DEF P!LinkCalls
  <2>3. [Targets -> 0 .. 1] \subseteq [Targets -> Nat]
    OBVIOUS
  <2>4. QED
    BY <1>2, <2>2, <2>3, StartsConverging DEF P!PivotsInit
<1>3. QED
  BY <1>1, <1>2 DEF StoreInit

LEMMA StutterConverging ==
  ASSUME Converging, UNCHANGED pivotVars
  PROVE  Converging'
<1>1. LinkTypes'
  BY DEF pivotVars, Converging, LinkTypes, Mapped
<1>2. OneAtATime'
  BY DEF pivotVars, Converging, OneAtATime, P!Ongoing
<1>3. ASSUME NEW c \in Clients
      PROVE  Tracked(c)'
  <2>1. /\ P!Asked(c)' = P!Asked(c) /\ P!Linked(links)' = P!Linked(links)
        /\ P!ToSet(todo[c])' = P!ToSet(todo[c]) /\ P!Ongoing(c)' = P!Ongoing(c)
    BY DEF pivotVars, P!Asked, P!Linked, P!ToSet, P!Ongoing
  <2>2. Tracked(c) /\ UNCHANGED <<work, idType, alone, old, known>>
    BY DEF pivotVars, Converging
  <2>3. QED
    BY <2>1, <2>2 DEF Tracked, SyncAt, ToggleAt
<1>4. QED
  BY <1>1, <1>2, <1>3 DEF Converging

LEMMA MoverIs ==
  ASSUME Converging, [P!PivotsNext]_pivotVars, NEW c \in Clients, P!Moves(c)
  PROVE  LinkStepOf(c)
<1>1. ~UNCHANGED pivotVars
  BY DEF pivotVars, P!Moves
<1>2. PICK e \in Clients : P!LinkStep(e) \/ P!LinkFails(e)
  BY <1>1 DEF P!PivotsNext
<1>3. LinkStepOf(e)
  BY <1>2, LinkStepsAre DEF Converging
<1>4. LinkOpens(e) \/ LinkGoesOn(e)
  BY <1>3 DEF LinkStepOf, SyncOpens, ToggleOpens, OtherOpens, LinkBreaks, HandlesOne, HandledAll
<1>5. Moved(e)
  BY <1>4 DEF LinkOpens, LinkGoesOn
<1>6. e = c
  BY <1>5 DEF Moved, P!Moves
<1>7. QED
  BY <1>3, <1>6

LEMMA SucceedsIs ==
  ASSUME Converging, NEW c \in Clients, LinkStepOf(c), work[c].op \in {"sync", "toggle"},
         P!Succeeds(c)
  PROVE  stage'[c] = "done" /\ reply'[c] # "error"
<1>1. reply'[c] # "error" /\ reply'[c] # reply[c]
  BY DEF P!Succeeds
<1>2. QED
  BY <1>1 DEF LinkStepOf, SyncOpens, ToggleOpens, OtherOpens, LinkBreaks, HandlesOne, HandledAll

Syncing(c) ==
  /\ old'[c] \cap P!Asked(c) \subseteq P!Linked(links')
  /\ P!Linked(links') \subseteq old'[c] \cup P!Asked(c)
  /\ P!Succeeds(c) => P!Linked(links') = P!Asked(c)

Toggling(c) ==
  /\ old'[c] \ P!Asked(c) = P!Linked(links') \ P!Asked(c)
  /\ P!Succeeds(c) => P!Linked(links') = P!Flipped(c)'

LEMMA SyncsConverge ==
  Converging /\ [P!PivotsNext]_pivotVars =>
    [\A c \in Clients :
       work[c].op = "sync" /\ alone'[c] /\ P!Moves(c) => Syncing(c)]_pivotVars
<1>1. ASSUME Converging, [P!PivotsNext]_pivotVars, NEW c \in Clients,
             work[c].op = "sync", alone'[c], P!Moves(c)
      PROVE  Syncing(c)
  <2>1. LinkStepOf(c) /\ LinkTypes /\ Tracked(c)
    BY <1>1, MoverIs DEF Converging
  <2>2. P!Succeeds(c) => stage'[c] = "done" /\ reply'[c] # "error"
    BY <1>1, <2>1, SucceedsIs
  <2>3. QED
    BY <1>1, <2>1, <2>2, SyncStep DEF Syncing
<1>2. QED
  BY <1>1

LEMMA TogglesFlip ==
  Converging /\ [P!PivotsNext]_pivotVars =>
    [\A c \in Clients :
       work[c].op = "toggle" /\ alone'[c] /\ P!Moves(c) /\ idType = "i64" => Toggling(c)]_pivotVars
<1>1. ASSUME Converging, [P!PivotsNext]_pivotVars, NEW c \in Clients,
             work[c].op = "toggle", alone'[c], P!Moves(c), idType = "i64"
      PROVE  Toggling(c)
  <2>1. LinkStepOf(c) /\ LinkTypes /\ Tracked(c)
    BY <1>1, MoverIs DEF Converging
  <2>2. P!Succeeds(c) => stage'[c] = "done" /\ reply'[c] # "error"
    BY <1>1, <2>1, SucceedsIs
  <2>3. /\ old'[c] \ P!Asked(c) = P!Linked(links') \ P!Asked(c)
        /\ P!Succeeds(c) => \A t \in P!Asked(c) : t \in P!Linked(links') <=> t \notin old'[c]
    BY <1>1, <2>1, <2>2, ToggleStep
  <2>4. P!Flipped(c)' = (old'[c] \ P!Asked(c)) \cup (P!Asked(c) \ old'[c])
    BY <2>1, LinkTypesStep DEF P!Flipped, P!Asked
  <2>5. QED
    BY <2>3, <2>4 DEF Toggling
<1>2. QED
  BY <1>1

-----------------------------------------------------------------------------
(* The theorems.                                                           *)

LEMMA StoreConverging == StoreSpec => []Converging
<1>1. StoreInit => Converging
  BY InitConverging
<1>2. Converging /\ [StoreNext]_<<vars, pivotVars>> => Converging'
  <2>1. SUFFICES ASSUME Converging, [StoreNext]_<<vars, pivotVars>>
                 PROVE  Converging'
    OBVIOUS
  <2>2. CASE UNCHANGED pivotVars
    BY <2>1, <2>2, StutterConverging
  <2>3. CASE P!PivotsNext
    BY <2>1, <2>3, LinkStepsAre, ConvergingStep DEF P!PivotsNext, Converging
  <2>4. QED
    BY <2>1, <2>2, <2>3 DEF StoreNext
<1>3. QED
  BY <1>1, <1>2, PTL DEF StoreSpec

\* While nobody else writes, sync and toggle change only the links they were asked
\* about and, when they succeed, have done all of it (pivot_query.rs:205-330): for
\* any targets, lists of ids, duplicates among them, and numbers of callers.
THEOREM PivotsDoAsTheySay == StoreSpec => PivotsConverge
<1>1. [StoreNext]_<<vars, pivotVars>> => [P!PivotsNext]_pivotVars
  BY DEF StoreNext
<1>2. Converging /\ [StoreNext]_<<vars, pivotVars>> =>
        [\A c \in Clients :
           work[c].op = "sync" /\ alone'[c] /\ P!Moves(c) => Syncing(c)]_pivotVars
  BY <1>1, SyncsConverge
<1>3. Converging /\ [StoreNext]_<<vars, pivotVars>> =>
        [\A c \in Clients : work[c].op = "toggle" /\ alone'[c] /\ P!Moves(c)
                            /\ idType = "i64" => Toggling(c)]_pivotVars
  BY <1>1, TogglesFlip
<1>4. QED
  BY <1>2, <1>3, StoreConverging, PTL
     DEF StoreSpec, PivotsConverge, P!SyncConverges, P!ToggleFlips, P!linkVars, pivotVars,
         Syncing, Toggling

\* What first_or_create and update_or_create return is what the table holds at that
\* moment, for any number of callers and whatever they do (model.rs:646-747).
THEOREM StoreReturnsStored == StoreSpec => UpsertReturnsStored
BY StoreRuns, RunsReturnStored

\* An upsert adds no second row of a key to what calls inserted that were over
\* before it began (model.rs:646-747): a duplicate needs two calls at a time.
THEOREM StoreDuplicatesOverlap == StoreSpec => []DuplicatesNeedOverlap
BY StoreRuns, RunsOverlap

\* The hooks after a write run for a write that is in the table at that moment, and
\* a hook that vetoes leaves the table alone (model.rs:562-635).
THEOREM StoreHooksFrame == StoreSpec => HooksFrameTheWrite
BY StoreRuns, RunsFrame

\* While nobody deletes, a chunked insert has put whole chunks of a prefix of its
\* rows into the table, each row once, and all of them if it answers that it did
\* (model.rs:231-255).
THEOREM StoreSendsPrefix == StoreSpec => []BulkIsPrefix
BY StoreRuns, RunsSend
=============================================================================
