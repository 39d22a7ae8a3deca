------------------------ MODULE MigrationRunnerProofs ------------------------
(***************************************************************************)
(* Proofs about MigrationRunner, for any runners, migrations and releases. *)
(***************************************************************************)
EXTENDS MigrationRunner, TLAPS

-----------------------------------------------------------------------------
(* Type correctness                                                        *)

\* the loop of run() is at a migration of its list, and down() at a row of
\* the batch, whenever a statement of theirs is next
InBounds ==
    \A r \in Runners :
        /\ loc[r].pos >= 1
        /\ At(r, "up") => loc[r].pos <= Len(loc[r].rel) /\ loc[r].stmt >= 1
        /\ At(r, "down") => loc[r].rows # {}

TInv == TypeOK /\ InBounds

\* The migration a runner applies is one of its release.
LEMMA CurrentIsMigration ==
    ASSUME TypeOK, NEW r \in Runners,
           loc[r].pos \in 1 .. Len(loc[r].rel)
    PROVE  Current(r) \in Migrations /\ Current(r) \in Registered(r)
  BY DEF TypeOK, Locals, Current, Registered

\* A step that changes the locals of one runner keeps the typing when the new
\* locals are typed.
LEMMA LocalsKept ==
    ASSUME TInv, NEW r \in Runners, NEW l \in Locals,
           loc' = [loc EXCEPT ![r] = l],
           l.pos >= 1,
           l.pc = "up" => l.pos <= Len(l.rel) /\ l.stmt >= 1,
           l.pc = "down" => l.rows # {}
    PROVE  loc' \in [Runners -> Locals] /\ InBounds'
  BY DEF TInv, TypeOK, InBounds, At

\* What a runner reads from the table is typed.
LEMMA ReadsTyped ==
    ASSUME TypeOK
    PROVE  /\ Recorded \subseteq Migrations
           /\ Batches \subseteq Nat
           /\ Ids \subseteq Nat
  BY DEF TypeOK, Recorded, Batches, Ids, Rows

\* The fields of the locals of a runner
LEMMA FieldsTyped ==
    ASSUME TInv, NEW r \in Runners
    PROVE  /\ loc[r] \in Locals
           /\ loc[r].pos \in Nat /\ loc[r].pos >= 1
           /\ loc[r].stmt \in Nat /\ loc[r].batch \in Nat
           /\ loc[r].rel \in Seq(Migrations) /\ Len(loc[r].rel) \in Nat
           /\ loc[r].rows \subseteq Rows
  BY DEF TInv, TypeOK, InBounds, Locals

LEMMA IdleIsTyped == Idle \in Locals /\ Idle.pos = 1 /\ Idle.pc = "idle"
  BY DEF Idle, Locals, Pcs

LEMMA ReturnTyped ==
    ASSUME TInv, NEW r \in Runners, Return(r), UNCHANGED <<log, done>>
    PROVE  TInv'
  <1>1. loc' = [loc EXCEPT ![r] = Idle]
    BY DEF Return
  <1>2. Idle \in Locals /\ Idle.pos >= 1 /\ Idle.pc = "idle"
    BY IdleIsTyped
  <1>3. loc' \in [Runners -> Locals] /\ InBounds'
    BY <1>1, <1>2, LocalsKept
  <1> QED BY <1>3 DEF TInv, TypeOK

LEMMA TypedInit == ASSUME Init PROVE TInv
  BY IdleIsTyped DEF Init, TInv, TypeOK, InBounds, At, Idle

LEMMA TypedRun ==
    ASSUME TInv, NEW r \in Runners, RunStep(r)
    PROVE  TInv'
  <1> USE RunnerAssumption DEF TInv, TypeOK
  <1>0. /\ loc[r] \in Locals
        /\ loc[r].pos \in Nat /\ loc[r].pos >= 1
        /\ loc[r].stmt \in Nat /\ loc[r].batch \in Nat
        /\ loc[r].rel \in Seq(Migrations) /\ Len(loc[r].rel) \in Nat
        /\ loc[r].rows \subseteq Rows
    BY FieldsTyped
  <1>1. CASE StartRun(r)
    <2> PICK list \in Releases :
          loc' = [loc EXCEPT ![r].pc = "applied", ![r].rel = list]
      BY <1>1 DEF StartRun
    <2> DEFINE l == [loc[r] EXCEPT !.pc = "applied", !.rel = list]
    <2>1. l \in Locals /\ l.pos >= 1 /\ l.pc = "applied"
      BY <1>0 DEF Locals, Pcs
    <2>2. loc' = [loc EXCEPT ![r] = l]
      OBVIOUS
    <2> HIDE DEF l
    <2> QED BY <1>1, <2>1, <2>2, LocalsKept DEF StartRun
  <1>2. CASE ReadApplied(r)
    <2> DEFINE l == [loc[r] EXCEPT !.pc = "batch", !.seen = Recorded]
    <2>1. l \in Locals /\ l.pos >= 1 /\ l.pc = "batch"
      BY <1>0, ReadsTyped DEF Locals, Pcs
    <2>2. loc' = [loc EXCEPT ![r] = l]
      BY <1>2 DEF ReadApplied
    <2> HIDE DEF l
    <2> QED BY <1>2, <2>1, <2>2, LocalsKept DEF ReadApplied
  <1>3. CASE ReadBatch(r)
    <2> PICK b \in Batches :
          loc' = [loc EXCEPT ![r].pc = "next", ![r].batch = b + 1]
      BY <1>3 DEF ReadBatch
    <2> PICK n \in Nat : n = b + 1
      BY ReadsTyped
    <2> DEFINE l == [loc[r] EXCEPT !.pc = "next", !.batch = n]
    <2>1. l \in Locals /\ l.pos >= 1 /\ l.pc = "next"
      BY <1>0 DEF Locals, Pcs
    <2>2. loc' = [loc EXCEPT ![r] = l]
      OBVIOUS
    <2> HIDE DEF l
    <2> QED BY <1>3, <2>1, <2>2, LocalsKept DEF ReadBatch
  <1>4. CASE SkipApplied(r)
    <2> PICK n \in Nat : n = loc[r].pos + 1 /\ n >= 1
      BY <1>0
    <2> DEFINE l == [loc[r] EXCEPT !.pos = n]
    <2>1. l \in Locals /\ l.pos >= 1 /\ l.pc = "next"
      BY <1>0, <1>4 DEF Locals, SkipApplied, InLoop, At
    <2>2. loc' = [loc EXCEPT ![r] = l]
      BY <1>4 DEF SkipApplied
    <2> HIDE DEF l
    <2> QED BY <1>4, <2>1, <2>2, LocalsKept DEF SkipApplied
  <1>5. CASE StartUp(r)
    <2> DEFINE l == [loc[r] EXCEPT !.pc = "up", !.stmt = 1]
    <2>0. l \in Locals /\ l.pc = "up" /\ l.pos = loc[r].pos
          /\ l.rel = loc[r].rel /\ l.stmt = 1
      BY <1>0 DEF Locals, Pcs
    <2>1. l \in Locals /\ l.pos >= 1 /\ l.pc = "up"
          /\ l.pos <= Len(l.rel) /\ l.stmt >= 1
      BY <1>0, <1>5, <2>0 DEF StartUp, InLoop
    <2>2. loc' = [loc EXCEPT ![r] = l]
      BY <1>5 DEF StartUp
    <2> HIDE DEF l
    <2> QED BY <1>5, <2>1, <2>2, LocalsKept DEF StartUp
  <1>6. CASE UpStatement(r)
    <2> PICK n \in Nat : n = loc[r].stmt + 1 /\ n >= 1
      BY <1>0
    <2> DEFINE l == [loc[r] EXCEPT !.stmt = n]
    <2>0. l \in Locals /\ l.pc = "up" /\ l.pos = loc[r].pos
          /\ l.rel = loc[r].rel /\ l.stmt = n
      BY <1>0, <1>6 DEF Locals, UpStatement, At
    <2>1. l \in Locals /\ l.pos >= 1 /\ l.pc = "up"
          /\ l.pos <= Len(l.rel) /\ l.stmt >= 1
      BY <1>0, <1>6, <2>0 DEF UpStatement, InBounds
    <2>2. loc' = [loc EXCEPT ![r] = l]
      BY <1>6 DEF UpStatement
    <2>3. done' \in [Statements -> 0 .. 2]
      <3> DEFINE s == <<Current(r), loc[r].stmt>>
                 v == IF done[s] = 2 THEN 2 ELSE done[s] + 1
      <3>1. done' = [done EXCEPT ![s] = v]
        BY <1>6 DEF UpStatement
      <3>2. s \in Statements => v \in 0 .. 2
        <4> SUFFICES ASSUME s \in Statements PROVE v \in 0 .. 2
          OBVIOUS
        <4>1. done[s] \in 0 .. 2
          OBVIOUS
        <4> HIDE DEF s
        <4> QED BY <4>1
      <3> HIDE DEF s, v
      <3> QED BY <3>1, <3>2
    <2> HIDE DEF l
    <2> QED BY <1>6, <2>1, <2>2, <2>3, LocalsKept DEF UpStatement
  <1>7. CASE UpFails(r) \/ RecordFails(r) \/ FinishRun(r)
    BY <1>7, ReturnTyped DEF UpFails, RecordFails, FinishRun
  <1>8. CASE Record(r)
    <2> PICK n \in Nat : n = loc[r].pos + 1 /\ n >= 1
      BY <1>0
    <2> DEFINE l == [loc[r] EXCEPT !.pc = "next", !.pos = n]
    <2>1. l \in Locals /\ l.pos >= 1 /\ l.pc = "next"
      BY <1>0 DEF Locals, Pcs
    <2>2. loc' = [loc EXCEPT ![r] = l]
      BY <1>8 DEF Record, Inserted
    <2>3. Current(r) \in Migrations
      BY <1>0, <1>8, CurrentIsMigration DEF Record, InBounds, Locals
    <2>4. log' \subseteq Rows
      BY <1>0, <1>8, <2>3, ReadsTyped DEF Record, Inserted, Rows
    <2> HIDE DEF l
    <2> QED BY <1>8, <2>1, <2>2, <2>4, LocalsKept DEF Record, Inserted
  <1> QED BY <1>1, <1>2, <1>3, <1>4, <1>5, <1>6, <1>7, <1>8 DEF RunStep

LEMMA TypedRollback ==
    ASSUME TInv, NEW r \in Runners, RollbackStep(r)
    PROVE  TInv'
  <1> USE RunnerAssumption DEF TInv, TypeOK
  <1>0. /\ loc[r] \in Locals
        /\ loc[r].pos \in Nat /\ loc[r].pos >= 1
        /\ loc[r].stmt \in Nat /\ loc[r].batch \in Nat
        /\ loc[r].rel \in Seq(Migrations) /\ Len(loc[r].rel) \in Nat
        /\ loc[r].rows \subseteq Rows
    BY FieldsTyped
  <1>1. CASE StartRollback(r)
    <2> PICK list \in Releases :
          loc' = [loc EXCEPT ![r].pc = "last_batch", ![r].rel = list]
      BY <1>1 DEF StartRollback
    <2> DEFINE l == [loc[r] EXCEPT !.pc = "last_batch", !.rel = list]
    <2>1. l \in Locals /\ l.pos >= 1 /\ l.pc = "last_batch"
      BY <1>0 DEF Locals, Pcs
    <2>2. loc' = [loc EXCEPT ![r] = l]
      OBVIOUS
    <2> HIDE DEF l
    <2> QED BY <1>1, <2>1, <2>2, LocalsKept DEF StartRollback
  <1>2. CASE FindBatch(r)
    <2> PICK b \in Batches :
          IF b = 0 THEN Return(r)
          ELSE loc' = [loc EXCEPT ![r].pc = "last_rows", ![r].batch = b]
      BY <1>2 DEF FindBatch
    <2> DEFINE l == [loc[r] EXCEPT !.pc = "last_rows", !.batch = b]
    <2>1. l \in Locals /\ l.pos >= 1 /\ l.pc = "last_rows"
      BY <1>0, ReadsTyped DEF Locals, Pcs
    <2>2. Return(r) \/ loc' = [loc EXCEPT ![r] = l]
      OBVIOUS
    <2> HIDE DEF l
    <2> QED BY <1>2, <2>1, <2>2, LocalsKept, ReturnTyped DEF FindBatch
  <1>3. CASE ListRows(r)
    <2> DEFINE l == [loc[r] EXCEPT !.pc = "next_row",
                        !.rows = {row \in log : row.batch = loc[r].batch}]
    <2>1. l \in Locals /\ l.pos >= 1 /\ l.pc = "next_row"
      BY <1>0 DEF Locals, Pcs
    <2>2. loc' = [loc EXCEPT ![r] = l]
      BY <1>3 DEF ListRows
    <2> HIDE DEF l
    <2> QED BY <1>3, <2>1, <2>2, LocalsKept DEF ListRows
  <1>4. CASE SkipOrphan(r)
    <2> PICK row \in loc[r].rows :
          loc' = [loc EXCEPT ![r].rows = @ \ {row}]
      BY <1>4 DEF SkipOrphan
    <2> DEFINE l == [loc[r] EXCEPT !.rows = @ \ {row}]
    <2>1. l \in Locals /\ l.pos >= 1 /\ l.pc = "next_row"
      BY <1>0, <1>4 DEF Locals, SkipOrphan, At
    <2>2. loc' = [loc EXCEPT ![r] = l]
      OBVIOUS
    <2> HIDE DEF l
    <2> QED BY <1>4, <2>1, <2>2, LocalsKept DEF SkipOrphan
  <1>5. CASE StartDown(r)
    <2> PICK row \in loc[r].rows :
          loc' = [loc EXCEPT ![r].pc = "down",
                     ![r].stmt = IF row.name \in HasDown THEN Steps[row.name] ELSE 0]
      BY <1>5 DEF StartDown
    <2>0. Steps[row.name] \in Nat
      BY <1>0 DEF Locals, Rows
    <2> DEFINE l == [loc[r] EXCEPT !.pc = "down",
                        !.stmt = IF row.name \in HasDown THEN Steps[row.name] ELSE 0]
    <2>1. l \in Locals /\ l.pos >= 1 /\ l.pc = "down" /\ l.rows # {}
      BY <1>0, <2>0 DEF Locals, Pcs
    <2>2. loc' = [loc EXCEPT ![r] = l]
      OBVIOUS
    <2> HIDE DEF l
    <2> QED BY <1>5, <2>1, <2>2, LocalsKept DEF StartDown
  <1>6. CASE DownStatement(r)
    <2> PICK n \in Nat : n = loc[r].stmt - 1
      BY <1>0, <1>6 DEF DownStatement
    <2> DEFINE l == [loc[r] EXCEPT !.stmt = n]
    <2>1. l \in Locals /\ l.pos >= 1 /\ l.pc = "down" /\ l.rows # {}
      BY <1>0, <1>6 DEF Locals, DownStatement, InBounds, At
    <2>2. loc' = [loc EXCEPT ![r] = l]
      BY <1>6 DEF DownStatement
    <2>3. done' \in [Statements -> 0 .. 2]
      <3> PICK row \in loc[r].rows :
            done' = [done EXCEPT ![<<row.name, loc[r].stmt>>] = 0]
        BY <1>6 DEF DownStatement
      <3> DEFINE s == <<row.name, loc[r].stmt>>
      <3>1. done' = [done EXCEPT ![s] = 0] /\ 0 \in 0 .. 2
        OBVIOUS
      <3>2. done \in [Statements -> 0 .. 2]
        OBVIOUS
      <3> HIDE DEF s, TypeOK
      <3> QED BY ONLY <3>1, <3>2
    <2> HIDE DEF l
    <2> QED BY <1>6, <2>1, <2>2, <2>3, LocalsKept DEF DownStatement
  <1>7. CASE Unrecord(r)
    <2> PICK row \in loc[r].rows :
          loc' = [loc EXCEPT ![r].pc = "next_row", ![r].rows = @ \ {row}]
      BY <1>7 DEF Unrecord
    <2> DEFINE l == [loc[r] EXCEPT !.pc = "next_row", !.rows = @ \ {row}]
    <2>1. l \in Locals /\ l.pos >= 1 /\ l.pc = "next_row"
      BY <1>0 DEF Locals, Pcs
    <2>2. loc' = [loc EXCEPT ![r] = l]
      OBVIOUS
    <2>3. log' \subseteq Rows
      BY <1>7 DEF Unrecord
    <2> HIDE DEF l
    <2> QED BY <1>7, <2>1, <2>2, <2>3, LocalsKept DEF Unrecord
  <1>8. CASE FinishRollback(r)
    BY <1>8, ReturnTyped DEF FinishRollback
  <1> QED BY <1>1, <1>2, <1>3, <1>4, <1>5, <1>6, <1>7, <1>8 DEF RollbackStep

LEMMA TypedStep ==
    ASSUME TInv, [Next]_vars
    PROVE  TInv'
  <1>1. CASE UNCHANGED vars
    BY <1>1 DEF vars, TInv, TypeOK, InBounds, At
  <1>2. ASSUME NEW r \in Runners, Stop(r)
        PROVE  TInv'
    BY <1>2, ReturnTyped DEF Stop
  <1> QED BY <1>1, <1>2, TypedRun, TypedRollback DEF Next

\* The variables keep their types: in particular the loop never indexes its
\* list out of range, and down() never counts below its first statement.
THEOREM TypeCorrect == Spec => []TypeOK
  <1>1. Spec => []TInv
    BY TypedInit, TypedStep, PTL DEF Spec
  <1> QED BY <1>1, PTL DEF TInv

-----------------------------------------------------------------------------
(* Without rollback(): what the log claims                                 *)

\* the statements of up() before the next one have run
Progress ==
    \A r \in Runners : At(r, "up") =>
        \A i \in 1 .. Steps[Current(r)] :
            i < loc[r].stmt => done[<<Current(r), i>>] > 0

\* the loop has recorded, or seen recorded, what it has left behind
Behind ==
    \A r \in Runners :
        /\ loc[r].seen \subseteq Recorded
        /\ \A i \in 1 .. Len(loc[r].rel) :
              i < loc[r].pos => loc[r].rel[i] \in Recorded

RunPcs == {"idle", "applied", "batch", "next", "up"}

RInv ==
    /\ \A r \in Runners :
        /\ loc[r].pc \in RunPcs
        /\ loc[r].pc \in {"idle", "applied", "batch"} => loc[r].pos = 1
    /\ Progress
    /\ Behind
    /\ RecordedIsApplied

\* The invariant as a fact about one runner, given the log and the schema
OneRunner(r) ==
    /\ loc[r].pc \in RunPcs
    /\ loc[r].pc \in {"idle", "applied", "batch"} => loc[r].pos = 1
    /\ At(r, "up") =>
        \A i \in 1 .. Steps[Current(r)] :
            i < loc[r].stmt => done[<<Current(r), i>>] > 0
    /\ loc[r].seen \subseteq Recorded
    /\ \A i \in 1 .. Len(loc[r].rel) :
          i < loc[r].pos => loc[r].rel[i] \in Recorded

LEMMA RunnerByRunner ==
    RInv <=> (\A r \in Runners : OneRunner(r)) /\ RecordedIsApplied
  BY DEF RInv, OneRunner, Progress, Behind

\* Without rollback() nothing leaves the log or the schema.
LEMMA Grows ==
    ASSUME TInv, NEW r \in Runners, RunStep(r) \/ Stop(r)
    PROVE  /\ Recorded \subseteq Recorded'
           /\ \A s \in Statements : done[s] > 0 => done'[s] > 0
           /\ \A q \in Runners : q # r => loc'[q] = loc[q]
  <1>1. \A q \in Runners : q # r => loc'[q] = loc[q]
    BY DEF TInv, TypeOK, RunStep, StartRun, ReadApplied, ReadBatch, SkipApplied,
       StartUp, UpStatement, UpFails, Record, Inserted, RecordFails, FinishRun,
       Stop, Return
  <1>2. log \subseteq log'
    BY DEF RunStep, StartRun, ReadApplied, ReadBatch, SkipApplied,
       StartUp, UpStatement, UpFails, Record, Inserted, RecordFails, FinishRun,
       Stop
  <1>3. ASSUME NEW s \in Statements, done[s] > 0
        PROVE  done'[s] > 0
    <2>1. CASE UpStatement(r)
      <3> DEFINE t == <<Current(r), loc[r].stmt>>
      <3>1. done' = [done EXCEPT ![t] = IF done[t] = 2 THEN 2 ELSE done[t] + 1]
        BY <2>1 DEF UpStatement
      <3>2. done \in [Statements -> 0 .. 2]
        BY DEF TInv, TypeOK
      <3> HIDE DEF t
      <3> QED BY <1>3, <3>1, <3>2
    <2>2. CASE ~UpStatement(r)
      BY <1>3, <2>2 DEF RunStep, StartRun, ReadApplied, ReadBatch, SkipApplied,
         StartUp, UpFails, Record, Inserted, RecordFails, FinishRun, Stop
    <2> QED BY <2>1, <2>2
  <1> QED BY <1>1, <1>2, <1>3 DEF Recorded

\* Other runners keep their part of the invariant.
LEMMA OthersKept ==
    ASSUME TInv, RInv, NEW r \in Runners, RunStep(r) \/ Stop(r),
           NEW q \in Runners, q # r
    PROVE  OneRunner(q)'
  <1>1. loc'[q] = loc[q] /\ Recorded \subseteq Recorded'
    BY Grows
  <1>2. OneRunner(q)
    BY RunnerByRunner
  <1>3. ASSUME At(q, "up"), NEW i \in 1 .. Steps[Current(q)], i < loc[q].stmt
        PROVE  done'[<<Current(q), i>>] > 0
    <2>1. Current(q) \in Migrations
      BY <1>3, CurrentIsMigration, FieldsTyped DEF TInv, InBounds
    <2>2. <<Current(q), i>> \in Statements
      BY <2>1 DEF Statements
    <2> QED BY <1>2, <1>3, <2>2, Grows DEF OneRunner
  <1> QED BY <1>1, <1>2, <1>3 DEF OneRunner, At, Current

LEMMA IdleRunner ==
    ASSUME NEW r \in Runners, loc'[r] = Idle
    PROVE  OneRunner(r)'
  BY DEF OneRunner, Idle, At, RunPcs

\* A recorded migration stays applied, unless this step records it.
LEMMA AppliedKept ==
    ASSUME TInv, RInv, NEW r \in Runners, RunStep(r) \/ Stop(r),
           NEW m \in Recorded
    PROVE  InSchema(m)'
  <1>1. m \in Migrations /\ InSchema(m)
    BY ReadsTyped DEF TInv, RInv, RecordedIsApplied
  <1>2. \A i \in 1 .. Steps[m] : <<m, i>> \in Statements
    BY <1>1 DEF Statements
  <1> QED BY <1>1, <1>2, Grows DEF InSchema

LEMMA RunKeeps ==
    ASSUME TInv, RInv, NEW r \in Runners, RunStep(r) \/ Stop(r)
    PROVE  RInv'
  <1> USE RunnerAssumption
  <1>0. /\ loc \in [Runners -> Locals] /\ loc[r] \in Locals
        /\ loc[r].pos \in Nat /\ loc[r].pos >= 1
        /\ loc[r].stmt \in Nat
        /\ Len(loc[r].rel) \in Nat /\ Recorded \subseteq Recorded'
        /\ OneRunner(r)
    BY FieldsTyped, Grows, RunnerByRunner DEF TInv, TypeOK
  <1>1. CASE UNCHANGED log /\ OneRunner(r)'
    <2>1. Recorded' = Recorded
      BY <1>1 DEF Recorded
    <2>2. RecordedIsApplied'
      BY <2>1, AppliedKept DEF RecordedIsApplied
    <2>3. \A q \in Runners : OneRunner(q)'
      BY <1>1, OthersKept
    <2> QED BY <2>2, <2>3 DEF RInv, OneRunner, Progress, Behind
  <1>2. CASE StartRun(r)
    <2> PICK list \in Releases :
          loc' = [loc EXCEPT ![r].pc = "applied", ![r].rel = list]
      BY <1>2 DEF StartRun
    <2>1. /\ loc'[r].pc = "applied" /\ loc'[r].pos = 1
          /\ loc'[r].seen = loc[r].seen
      BY <1>0, <1>2 DEF StartRun, MayStart, At, OneRunner, Locals
    <2>2. OneRunner(r)'
      BY <1>0, <2>1 DEF OneRunner, RunPcs, At
    <2> QED BY <1>1, <1>2, <2>2 DEF StartRun
  <1>3. CASE ReadApplied(r)
    <2>1. /\ loc'[r].pc = "batch" /\ loc'[r].pos = loc[r].pos
          /\ loc'[r].seen = Recorded /\ loc'[r].rel = loc[r].rel
      BY <1>0, <1>3 DEF ReadApplied, Locals
    <2>2. OneRunner(r)'
      BY <1>0, <1>3, <2>1 DEF OneRunner, RunPcs, At, ReadApplied
    <2> QED BY <1>1, <1>3, <2>2 DEF ReadApplied
  <1>4. CASE ReadBatch(r)
    <2>1. /\ loc'[r].pc = "next" /\ loc'[r].pos = loc[r].pos
          /\ loc'[r].seen = loc[r].seen /\ loc'[r].rel = loc[r].rel
      BY <1>0, <1>4 DEF ReadBatch, Locals
    <2>2. OneRunner(r)'
      BY <1>0, <2>1 DEF OneRunner, RunPcs, At
    <2> QED BY <1>1, <1>4, <2>2 DEF ReadBatch
  <1>5. CASE SkipApplied(r)
    <2>1. /\ loc'[r].pc = "next" /\ loc'[r].pos = loc[r].pos + 1
          /\ loc'[r].seen = loc[r].seen /\ loc'[r].rel = loc[r].rel
      BY <1>0, <1>5 DEF SkipApplied, InLoop, At, Locals
    <2>2. loc[r].rel[loc[r].pos] \in Recorded'
      BY <1>0, <1>5 DEF SkipApplied, Current, OneRunner
    <2>3. OneRunner(r)'
      BY <1>0, <2>1, <2>2 DEF OneRunner, RunPcs, At
    <2> QED BY <1>1, <1>5, <2>3 DEF SkipApplied
  <1>6. CASE StartUp(r)
    <2>1. /\ loc'[r].pc = "up" /\ loc'[r].pos = loc[r].pos /\ loc'[r].stmt = 1
          /\ loc'[r].seen = loc[r].seen /\ loc'[r].rel = loc[r].rel
      BY <1>0, <1>6 DEF StartUp, Locals
    <2>2. OneRunner(r)'
      BY <1>0, <2>1 DEF OneRunner, RunPcs, At
    <2> QED BY <1>1, <1>6, <2>2 DEF StartUp
  <1>7. CASE UpStatement(r)
    <2>1. /\ loc'[r].pc = "up" /\ loc'[r].pos = loc[r].pos
          /\ loc'[r].stmt = loc[r].stmt + 1
          /\ loc'[r].seen = loc[r].seen /\ loc'[r].rel = loc[r].rel
      BY <1>0, <1>7 DEF UpStatement, At, Locals
    <2>2. Current(r) \in Migrations /\ Current(r)' = Current(r)
      BY <1>0, <1>7, <2>1, CurrentIsMigration
      DEF UpStatement, TInv, InBounds, Current
    <2>3. ASSUME NEW i \in 1 .. Steps[Current(r)], i < loc[r].stmt + 1
          PROVE  done'[<<Current(r), i>>] > 0
      <3>1. <<Current(r), i>> \in Statements
        BY <2>2 DEF Statements
      <3>2. CASE i < loc[r].stmt
        BY <1>0, <1>7, <3>1, <3>2, Grows DEF OneRunner, UpStatement
      <3>3. CASE i = loc[r].stmt
        <4> DEFINE s == <<Current(r), i>>
        <4>1. done' = [done EXCEPT ![s] = IF done[s] = 2 THEN 2 ELSE done[s] + 1]
          BY <1>7, <3>3 DEF UpStatement
        <4>2. done \in [Statements -> 0 .. 2] /\ s \in Statements
          BY <3>1 DEF TInv, TypeOK
        <4> HIDE DEF s
        <4>3. done'[s] > 0
          BY <4>1, <4>2
        <4> QED BY <4>3 DEF s
      <3> QED BY <1>0, <2>3, <3>2, <3>3
    <2>4. OneRunner(r)'
      BY <1>0, <2>1, <2>2, <2>3 DEF OneRunner, RunPcs, At
    <2> QED BY <1>1, <1>7, <2>4 DEF UpStatement
  <1>8. CASE UpFails(r) \/ RecordFails(r) \/ FinishRun(r) \/ Stop(r)
    <2>1. loc'[r] = Idle /\ UNCHANGED log
      BY <1>0, <1>8 DEF UpFails, RecordFails, FinishRun, Stop, Return
    <2> QED BY <1>1, <2>1, IdleRunner
  <1>9. CASE Record(r)
    <2>1. /\ loc'[r].pc = "next" /\ loc'[r].pos = loc[r].pos + 1
          /\ loc'[r].seen = loc[r].seen /\ loc'[r].rel = loc[r].rel
      BY <1>0, <1>9 DEF Record, Inserted, Locals
    <2>2. Recorded' = Recorded \cup {Current(r)} /\ done' = done
      <3>1. PICK top \in Ids :
              log' = log \cup {[id |-> top + 1, name |-> Current(r),
                                batch |-> loc[r].batch]}
        BY <1>9 DEF Record, Inserted
      <3> DEFINE row == [id |-> top + 1, name |-> Current(r), batch |-> loc[r].batch]
      <3>2. row.name = Current(r) /\ log' = log \cup {row}
        BY <3>1
      <3> HIDE DEF row
      <3>3. done' = done
        BY <1>9 DEF Record, Inserted
      <3> QED BY <3>2, <3>3 DEF Recorded
    <2>3. OneRunner(r)'
      BY <1>0, <2>1, <2>2 DEF OneRunner, RunPcs, At, Current
    <2>4. InSchema(Current(r))
      <3>1. Current(r) \in Migrations
        BY <1>0, <1>9, CurrentIsMigration DEF Record, TInv, InBounds
      <3> QED BY <1>0, <1>9, <3>1 DEF Record, InSchema, OneRunner
    <2>5. RecordedIsApplied'
      BY <2>2, <2>4 DEF RInv, RecordedIsApplied, InSchema
    <2> QED BY <2>3, <2>5, OthersKept DEF RInv, OneRunner, Progress, Behind
  <1> QED BY <1>2, <1>3, <1>4, <1>5, <1>6, <1>7, <1>8, <1>9 DEF RunStep

LEMMA RInvInit == ASSUME Init PROVE RInv
  BY DEF Init, RInv, Progress, Behind, RecordedIsApplied, Recorded, Idle, At, RunPcs

LEMMA RInvStep ==
    ASSUME "rollback" \notin Ops, TInv, RInv, [Next]_vars
    PROVE  RInv'
  <1>1. CASE UNCHANGED vars
    BY <1>1 DEF vars, RInv, Progress, Behind, RecordedIsApplied, Recorded,
       InSchema, At, Current
  <1>2. ASSUME NEW r \in Runners, RollbackStep(r)
        PROVE  FALSE
    BY <1>2 DEF RInv, RunPcs, At, RollbackStep, StartRollback, FindBatch,
       ListRows, SkipOrphan, StartDown, DownStatement, Unrecord, FinishRollback
  <1> QED BY <1>1, <1>2, RunKeeps DEF Next

\* As long as nobody rolls back, a recorded migration has had all its
\* statements run, for any number of concurrent runners of any releases and
\* wherever they stop.
THEOREM RecordedApplied ==
    ASSUME "rollback" \notin Ops
    PROVE  Spec => []RecordedIsApplied
  <1>1. Init => TInv /\ RInv
    BY TypedInit, RInvInit
  <1>2. TInv /\ RInv /\ [Next]_vars => TInv' /\ RInv'
    BY TypedStep, RInvStep
  <1>3. RInv => RecordedIsApplied
    BY DEF RInv
  <1> QED BY <1>1, <1>2, <1>3, PTL DEF Spec

\* As long as nobody rolls back, a run() that returns Ok leaves every
\* migration of its release recorded.
THEOREM OkRecorded ==
    ASSUME "rollback" \notin Ops
    PROVE  Spec => OkMeansRecorded
  <1>1. Init => TInv /\ RInv
    BY TypedInit, RInvInit
  <1>2. TInv /\ RInv /\ [Next]_vars => TInv' /\ RInv'
    BY TypedStep, RInvStep
  <1>3. ASSUME TInv, RInv, NEW r \in Runners, FinishRun(r)
        PROVE  Registered(r) \subseteq Recorded
    <2>1. \A i \in DOMAIN loc[r].rel : i < loc[r].pos
      BY <1>3, FieldsTyped DEF FinishRun
    <2> QED BY <1>3, <2>1, FieldsTyped DEF RInv, Behind, Registered
  <1>4. TInv /\ RInv /\ [Next]_vars =>
          [\A r \in Runners : FinishRun(r) => Registered(r) \subseteq Recorded]_vars
    BY <1>3
  <1> QED BY <1>1, <1>2, <1>4, PTL DEF Spec, OkMeansRecorded
-----------------------------------------------------------------------------
(* One runner at a time, no failure: log and schema agree                  *)

\* no release lists a migration twice
NoTwice == \A list \in Releases : \A i, j \in DOMAIN list : list[i] = list[j] => i = j

OneAtATime == \A r, q \in Runners : ~At(r, "idle") /\ ~At(q, "idle") => r = q

\* ids and names of the log are unique
RowsUnique == \A a, b \in log : a.id = b.id \/ a.name = b.name => a = b

\* What a runner knows of the log is true while it is alone: run() has seen or
\* inserted all of it, and the rows that rollback() has still to visit are there.
Knows(r) ==
    /\ \A i, j \in DOMAIN loc[r].rel : loc[r].rel[i] = loc[r].rel[j] => i = j
    /\ loc[r].pc \in {"batch", "next", "up"} =>
          \A m \in Recorded :
              m \in loc[r].seen \/ \E i \in DOMAIN loc[r].rel :
                                      i < loc[r].pos /\ loc[r].rel[i] = m
    /\ At(r, "up") => Current(r) \notin loc[r].seen
    /\ loc[r].pc \in {"next_row", "down"} => loc[r].rows \subseteq log

\* the migration a runner is applying or undoing
Undoing(r, m) == At(r, "down") /\ \E row \in loc[r].rows :
                                    NextRow(loc[r].rows, row) /\ row.name = m
AtWork(r, m) == (At(r, "up") /\ Current(r) = m) \/ Undoing(r, m)

\* how far it is
Halfway(r) ==
    \A s \in Statements : s[1] \in HasDown =>
        /\ At(r, "up") /\ Current(r) = s[1] =>
              done[s] = (IF s[2] < loc[r].stmt THEN 1 ELSE 0)
        /\ Undoing(r, s[1]) =>
              done[s] = (IF s[2] <= loc[r].stmt THEN 1 ELSE 0)

Agree(s) == done[s] = (IF s[1] \in Recorded THEN 1 ELSE 0)

DInv ==
    /\ OneAtATime
    /\ RowsUnique
    /\ \A r \in Runners : Knows(r) /\ Halfway(r)
    /\ \A s \in Statements :
          s[1] \in HasDown /\ (\A r \in Runners : ~AtWork(r, s[1])) => Agree(s)

\* A runner that takes a step is alone, and stays so.
LEMMA Alone ==
    ASSUME Exclusive, TInv, OneAtATime, NEW r \in Runners,
           RunStep(r) \/ RollbackStep(r) \/ Stop(r)
    PROVE  /\ \A q \in Runners : q # r => At(q, "idle") /\ loc'[q] = loc[q]
           /\ OneAtATime'
  <1>1. \A q \in Runners : q # r => loc'[q] = loc[q]
    BY DEF TInv, TypeOK, RunStep, StartRun, ReadApplied, ReadBatch, SkipApplied,
       StartUp, UpStatement, UpFails, Record, Inserted, RecordFails, FinishRun,
       RollbackStep, StartRollback, FindBatch, ListRows, SkipOrphan, StartDown,
       DownStatement, Unrecord, FinishRollback, Return, Stop
  <1>2. \A q \in Runners : q # r => At(q, "idle")
    <2>1. CASE MayStart(r)
      BY <2>1 DEF MayStart
    <2>2. CASE ~MayStart(r)
      <3>1. ~At(r, "idle")
        BY <2>2 DEF RunStep, StartRun, ReadApplied, ReadBatch, SkipApplied, InLoop,
           StartUp, UpStatement, UpFails, Record, RecordFails, FinishRun,
           RollbackStep, StartRollback, FindBatch, ListRows, SkipOrphan, StartDown,
           DownStatement, Unrecord, FinishRollback, At, Stop
      <3> QED BY <3>1 DEF OneAtATime
    <2> QED BY <2>1, <2>2
  <1> QED BY <1>1, <1>2 DEF OneAtATime, At

\* So the invariant is about that runner, the log and the schema.
LEMMA AloneKeeps ==
    ASSUME Exclusive, TInv, DInv, NEW r \in Runners, RunStep(r) \/ RollbackStep(r),
           RowsUnique', Knows(r)', Halfway(r)',
           \A s \in Statements : s[1] \in HasDown /\ ~AtWork(r, s[1])' => Agree(s)'
    PROVE  DInv'
  <1>1. \A q \in Runners : q # r => At(q, "idle") /\ loc'[q] = loc[q]
    BY Alone DEF DInv
  <1>2. OneAtATime'
    BY Alone DEF DInv
  <1>3. ASSUME NEW q \in Runners, q # r
        PROVE  Knows(q)' /\ Halfway(q)'
    BY <1>1, <1>3 DEF DInv, Knows, Halfway, Undoing, At
  <1> QED BY <1>2, <1>3 DEF DInv

\* Statements of a migration that the runner is not at agree with the log.
LEMMA Quiet ==
    ASSUME Exclusive, TInv, DInv, NEW r \in Runners, RunStep(r) \/ RollbackStep(r),
           NEW s \in Statements, s[1] \in HasDown, ~AtWork(r, s[1])
    PROVE  Agree(s)
  <1>1. \A q \in Runners : ~AtWork(q, s[1])
    BY Alone DEF DInv, AtWork, Undoing, At
  <1> QED BY <1>1 DEF DInv

\* The migration that run() is applying is not in the log.
LEMMA NotYet ==
    ASSUME TInv, NEW r \in Runners, Knows(r), At(r, "up") \/ At(r, "next"),
           loc[r].pos <= Len(loc[r].rel), Current(r) \notin loc[r].seen
    PROVE  Current(r) \notin Recorded
  <1>1. loc[r].pos \in DOMAIN loc[r].rel
    BY FieldsTyped
  <1> QED BY <1>1, FieldsTyped DEF Knows, At, Current

\* A step between the statements changes neither the log nor the schema.
LEMMA BetweenKeeps ==
    ASSUME Exclusive, TInv, DInv, NEW r \in Runners, RunStep(r) \/ RollbackStep(r),
           UNCHANGED <<log, done>>,
           loc[r].pc \notin {"up", "down"}, loc'[r].pc \notin {"up", "down"},
           Knows(r)'
    PROVE  DInv'
  <1>1. RowsUnique' /\ Halfway(r)'
    BY DEF DInv, RowsUnique, Halfway, Undoing, At
  <1>2. ASSUME NEW s \in Statements, s[1] \in HasDown
        PROVE  Agree(s)'
    <2>1. Agree(s)
      BY <1>2, Quiet DEF AtWork, Undoing, At
    <2> QED BY <2>1 DEF Agree, Recorded
  <1> QED BY <1>1, <1>2, AloneKeeps

LEMMA ReturnKnows ==
    ASSUME TInv, NEW r \in Runners, Return(r)
    PROVE  loc'[r].pc = "idle" /\ Knows(r)'
  <1>1. loc'[r] = Idle
    BY DEF TInv, TypeOK, Return
  <1> QED BY <1>1 DEF Idle, Knows, At

LEMMA DRunControl ==
    ASSUME Exclusive, NoTwice, TInv, DInv, NEW r \in Runners,
           StartRun(r) \/ ReadApplied(r) \/ ReadBatch(r) \/ SkipApplied(r) \/ FinishRun(r)
    PROVE  DInv'
  <1>0. /\ loc \in [Runners -> Locals] /\ loc[r] \in Locals
        /\ loc[r].pos \in Nat /\ loc[r].pos >= 1
        /\ Len(loc[r].rel) \in Nat
        /\ Knows(r) /\ RunStep(r)
    BY FieldsTyped DEF TInv, TypeOK, DInv, RunStep
  <1>1. CASE StartRun(r)
    <2> PICK list \in Releases :
          loc' = [loc EXCEPT ![r].pc = "applied", ![r].rel = list]
      BY <1>1 DEF StartRun
    <2>1. loc'[r].pc = "applied" /\ loc'[r].rel = list /\ loc[r].pc = "idle"
      BY <1>0, <1>1 DEF StartRun, MayStart, At, Locals
    <2>2. Knows(r)'
      BY <2>1 DEF Knows, At, NoTwice
    <2> QED BY <1>0, <1>1, <2>1, <2>2, BetweenKeeps DEF StartRun
  <1>2. CASE ReadApplied(r)
    <2>1. /\ loc'[r].pc = "batch" /\ loc'[r].rel = loc[r].rel
          /\ loc'[r].seen = Recorded /\ loc[r].pc = "applied"
      BY <1>0, <1>2 DEF ReadApplied, At, Locals
    <2>2. Knows(r)'
      BY <1>0, <1>2, <2>1 DEF Knows, At, ReadApplied, Recorded
    <2> QED BY <1>0, <1>2, <2>1, <2>2, BetweenKeeps DEF ReadApplied
  <1>3. CASE ReadBatch(r)
    <2> PICK b \in Batches :
          loc' = [loc EXCEPT ![r].pc = "next", ![r].batch = b + 1]
      BY <1>3 DEF ReadBatch
    <2> PICK n \in Nat : n = b + 1
      BY ReadsTyped DEF TInv
    <2>1. /\ loc'[r].pc = "next" /\ loc'[r].pos = loc[r].pos /\ loc[r].pc = "batch"
          /\ loc'[r].seen = loc[r].seen /\ loc'[r].rel = loc[r].rel
      BY <1>0, <1>3 DEF ReadBatch, Locals, At
    <2>2. Knows(r)'
      <3>1. Recorded' = Recorded
        BY <1>3 DEF ReadBatch, Recorded
      <3> QED BY <1>0, <2>1, <3>1 DEF Knows, At
    <2> QED BY <1>0, <1>3, <2>1, <2>2, BetweenKeeps DEF ReadBatch
  <1>4. CASE SkipApplied(r)
    <2>1. /\ loc'[r].pc = "next" /\ loc'[r].pos = loc[r].pos + 1 /\ loc[r].pc = "next"
          /\ loc'[r].seen = loc[r].seen /\ loc'[r].rel = loc[r].rel
      BY <1>0, <1>4 DEF SkipApplied, InLoop, At, Locals
    <2>2. Knows(r)'
      BY <1>0, <1>4, <2>1, FieldsTyped DEF Knows, At, SkipApplied, Recorded
    <2> QED BY <1>0, <1>4, <2>1, <2>2, BetweenKeeps DEF SkipApplied
  <1>5. CASE FinishRun(r)
    <2>1. loc[r].pc = "next" /\ Return(r) /\ UNCHANGED <<log, done>>
      BY <1>5 DEF FinishRun, At
    <2> QED BY <1>0, <2>1, ReturnKnows, BetweenKeeps
  <1> QED BY <1>1, <1>2, <1>3, <1>4, <1>5

LEMMA DRollbackControl ==
    ASSUME Exclusive, NoTwice, TInv, DInv, NEW r \in Runners,
           \/ StartRollback(r) \/ FindBatch(r) \/ ListRows(r)
           \/ SkipOrphan(r) \/ FinishRollback(r)
    PROVE  DInv'
  <1>0. /\ loc \in [Runners -> Locals] /\ loc[r] \in Locals
        /\ Knows(r) /\ RollbackStep(r)
    BY FieldsTyped DEF TInv, TypeOK, DInv, RollbackStep
  <1>1. CASE StartRollback(r)
    <2> PICK list \in Releases :
          loc' = [loc EXCEPT ![r].pc = "last_batch", ![r].rel = list]
      BY <1>1 DEF StartRollback
    <2>1. loc'[r].pc = "last_batch" /\ loc'[r].rel = list /\ loc[r].pc = "idle"
      BY <1>0, <1>1 DEF StartRollback, MayStart, At, Locals
    <2>2. Knows(r)'
      BY <2>1 DEF Knows, At, NoTwice
    <2> QED BY <1>0, <1>1, <2>1, <2>2, BetweenKeeps DEF StartRollback
  <1>2. CASE FindBatch(r)
    <2> PICK b \in Batches :
            IF b = 0 THEN Return(r)
            ELSE loc' = [loc EXCEPT ![r].pc = "last_rows", ![r].batch = b]
      BY <1>2 DEF FindBatch
    <2>1. loc[r].pc = "last_batch" /\ UNCHANGED <<log, done>>
      BY <1>2 DEF FindBatch, At
    <2>2. CASE Return(r)
      BY <1>0, <2>1, <2>2, ReturnKnows, BetweenKeeps
    <2>3. CASE loc' = [loc EXCEPT ![r].pc = "last_rows", ![r].batch = b]
      <3>1. loc'[r].pc = "last_rows" /\ loc'[r].rel = loc[r].rel
        BY <1>0, <2>3 DEF Locals
      <3>2. Knows(r)'
        BY <1>0, <3>1 DEF Knows, At
      <3> QED BY <1>0, <2>1, <3>1, <3>2, BetweenKeeps
    <2> QED BY <2>2, <2>3
  <1>3. CASE ListRows(r)
    <2>1. /\ loc'[r].pc = "next_row" /\ loc'[r].rel = loc[r].rel
          /\ loc'[r].rows \subseteq log /\ loc[r].pc = "last_rows"
      BY <1>0, <1>3 DEF ListRows, At, Locals
    <2>2. Knows(r)'
      BY <1>0, <1>3, <2>1 DEF Knows, At, ListRows
    <2> QED BY <1>0, <1>3, <2>1, <2>2, BetweenKeeps DEF ListRows
  <1>4. CASE SkipOrphan(r)
    <2>1. /\ loc'[r].pc = "next_row" /\ loc'[r].rel = loc[r].rel
          /\ loc'[r].rows \subseteq loc[r].rows /\ loc[r].pc = "next_row"
      BY <1>0, <1>4 DEF SkipOrphan, At, Locals
    <2>2. Knows(r)'
      BY <1>0, <1>4, <2>1 DEF Knows, At, SkipOrphan
    <2> QED BY <1>0, <1>4, <2>1, <2>2, BetweenKeeps DEF SkipOrphan
  <1>5. CASE FinishRollback(r)
    <2>1. loc[r].pc = "next_row" /\ Return(r) /\ UNCHANGED <<log, done>>
      BY <1>5 DEF FinishRollback, At
    <2> QED BY <1>0, <2>1, ReturnKnows, BetweenKeeps
  <1> QED BY <1>1, <1>2, <1>3, <1>4, <1>5

LEMMA DStartUp ==
    ASSUME Exclusive, TInv, DInv, NEW r \in Runners, StartUp(r)
    PROVE  DInv'
  <1>0. /\ loc \in [Runners -> Locals] /\ loc[r] \in Locals
        /\ loc[r].pos \in Nat /\ Knows(r) /\ RunStep(r)
    BY FieldsTyped DEF TInv, TypeOK, DInv, RunStep
  <1>1. /\ loc'[r].pc = "up" /\ loc'[r].pos = loc[r].pos /\ loc'[r].stmt = 1
        /\ loc'[r].seen = loc[r].seen /\ loc'[r].rel = loc[r].rel
        /\ loc[r].pc = "next" /\ UNCHANGED <<log, done>>
    BY <1>0 DEF StartUp, InLoop, At, Locals
  <1>2. Current(r)' = Current(r)
    BY <1>1 DEF Current
  <1>3. Knows(r)'
    BY <1>0, <1>1, <1>2 DEF Knows, At, StartUp, Recorded
  <1>4. ASSUME NEW s \in Statements, s[1] \in HasDown PROVE Agree(s)' /\ Agree(s)
    <2>1. Agree(s)
      BY <1>0, <1>1, <1>4, Quiet DEF AtWork, Undoing, At
    <2> QED BY <1>1, <2>1 DEF Agree, Recorded
  <1>5. Halfway(r)'
    <2>1. Current(r) \notin Recorded
      BY <1>0, NotYet DEF StartUp, InLoop
    <2> SUFFICES ASSUME NEW s \in Statements, s[1] \in HasDown, Current(r) = s[1]
                 PROVE  done[s] = (IF s[2] < 1 THEN 1 ELSE 0)
      BY <1>1, <1>2 DEF Halfway, Undoing, At
    <2>2. s[2] \in Nat /\ s[2] >= 1
      BY RunnerAssumption DEF Statements
    <2> QED BY <1>4, <2>1, <2>2 DEF Agree
  <1>6. RowsUnique'
    BY <1>1 DEF DInv, RowsUnique
  <1> QED BY <1>0, <1>3, <1>4, <1>5, <1>6, AloneKeeps

LEMMA DUpStatement ==
    ASSUME Exclusive, TInv, DInv, NEW r \in Runners, UpStatement(r)
    PROVE  DInv'
  <1>0. /\ loc \in [Runners -> Locals] /\ loc[r] \in Locals
        /\ loc[r].pos \in Nat /\ loc[r].stmt \in Nat /\ loc[r].stmt >= 1
        /\ Knows(r) /\ Halfway(r) /\ RunStep(r)
    BY FieldsTyped DEF TInv, TypeOK, DInv, RunStep, UpStatement, InBounds
  <1>1. /\ loc'[r].pc = "up" /\ loc'[r].pos = loc[r].pos
        /\ loc'[r].stmt = loc[r].stmt + 1
        /\ loc'[r].seen = loc[r].seen /\ loc'[r].rel = loc[r].rel
        /\ loc[r].pc = "up" /\ UNCHANGED log
    BY <1>0 DEF UpStatement, At, Locals
  <1>2. Current(r)' = Current(r)
    BY <1>1 DEF Current
  <1>3. Knows(r)'
    BY <1>0, <1>1, <1>2 DEF Knows, At, Recorded
  <1> DEFINE t == <<Current(r), loc[r].stmt>>
  <1>4. done' = [done EXCEPT ![t] = IF done[t] = 2 THEN 2 ELSE done[t] + 1]
    BY DEF UpStatement
  <1>5. done \in [Statements -> 0 .. 2]
    BY DEF TInv, TypeOK
  <1>6. ASSUME NEW s \in Statements, s[1] \in HasDown, s[1] # Current(r)
        PROVE  Agree(s)'
    <2>1. Agree(s)
      BY <1>0, <1>1, <1>6, Quiet DEF AtWork, Undoing, At
    <2>2. s # t
      BY <1>6
    <2> HIDE DEF t
    <2>3. done'[s] = done[s]
      BY <1>4, <1>5, <2>2
    <2> QED BY <1>1, <2>1, <2>3 DEF Agree, Recorded
  <1>7. Halfway(r)'
    <2> SUFFICES ASSUME NEW s \in Statements, s[1] \in HasDown, Current(r) = s[1]
                 PROVE  done'[s] = (IF s[2] < loc[r].stmt + 1 THEN 1 ELSE 0)
      BY <1>1, <1>2 DEF Halfway, Undoing, At
    <2>1. s[2] \in Nat /\ s = <<s[1], s[2]>>
      BY RunnerAssumption DEF Statements
    <2>2. done[s] = (IF s[2] < loc[r].stmt THEN 1 ELSE 0)
      BY <1>0, <1>1 DEF Halfway, At
    <2>3. CASE s = t
      <3>1. s[2] = loc[r].stmt
        BY <2>3
      <3> HIDE DEF t
      <3> QED BY <1>0, <1>4, <1>5, <2>2, <2>3, <3>1
    <2>4. CASE s # t
      <3>1. s[2] # loc[r].stmt
        BY <2>1, <2>4
      <3> HIDE DEF t
      <3>2. done'[s] = done[s]
        BY <1>4, <1>5, <2>4
      <3> QED BY <1>0, <2>1, <2>2, <3>1, <3>2
    <2> QED BY <2>3, <2>4
  <1>8. RowsUnique'
    BY <1>1 DEF DInv, RowsUnique
  <1> HIDE DEF t
  <1>9. ASSUME NEW s \in Statements, s[1] \in HasDown, ~AtWork(r, s[1])'
        PROVE  Agree(s)'
    BY <1>1, <1>2, <1>6, <1>9 DEF AtWork, At
  <1> QED BY <1>0, <1>3, <1>7, <1>8, <1>9, AloneKeeps

\* Neither up() nor the INSERT can find its work done already, for a
\* migration that can be undone.
LEMMA DUpFails ==
    ASSUME Exclusive, TInv, DInv, NEW r \in Runners, UpFails(r)
    PROVE  DInv'
  <1>0. /\ loc[r].pos \in 1 .. Len(loc[r].rel) /\ loc[r].stmt \in Nat /\ loc[r].stmt >= 1
        /\ Knows(r) /\ Halfway(r) /\ RunStep(r) /\ loc[r].pc = "up"
    BY FieldsTyped DEF TInv, DInv, RunStep, UpFails, InBounds, At
  <1>1. /\ Return(r) /\ UNCHANGED <<log, done>>
    BY DEF UpFails
  <1>2. Current(r) \in Migrations
    BY <1>0, CurrentIsMigration DEF TInv
  <1>3. Current(r) \notin HasDown
    <2> DEFINE t == <<Current(r), loc[r].stmt>>
    <2>1. t \in Statements /\ done[t] > 0 /\ t[1] = Current(r) /\ t[2] = loc[r].stmt
      BY <1>0, <1>2, RunnerAssumption DEF Statements, UpFails, Exists
    <2> HIDE DEF t
    <2> SUFFICES ASSUME Current(r) \in HasDown PROVE FALSE
      OBVIOUS
    <2>2. done[t] = (IF t[2] < loc[r].stmt THEN 1 ELSE 0)
      BY <1>0, <2>1 DEF Halfway, At
    <2> QED BY <1>0, <2>1, <2>2
  <1>4. loc'[r].pc = "idle" /\ Knows(r)'
    BY <1>1, ReturnKnows
  <1>5. RowsUnique' /\ Halfway(r)'
    BY <1>1, <1>4 DEF DInv, RowsUnique, Halfway, Undoing, At
  <1>6. ASSUME NEW s \in Statements, s[1] \in HasDown PROVE Agree(s)'
    <2>1. Agree(s)
      BY <1>0, <1>3, <1>6, Quiet DEF AtWork, Undoing, At
    <2> QED BY <1>1, <2>1 DEF Agree, Recorded
  <1> QED BY <1>0, <1>4, <1>5, <1>6, AloneKeeps

LEMMA DRecordFails ==
    ASSUME TInv, DInv, NEW r \in Runners, RecordFails(r)
    PROVE  FALSE
  <1>1. Knows(r) /\ loc[r].pos <= Len(loc[r].rel) /\ Current(r) \notin loc[r].seen
    BY DEF TInv, InBounds, DInv, RecordFails, Knows
  <1> QED BY <1>1, NotYet DEF RecordFails

LEMMA DRecord ==
    ASSUME Exclusive, TInv, DInv, NEW r \in Runners, Record(r)
    PROVE  DInv'
  <1>0. /\ loc \in [Runners -> Locals] /\ loc[r] \in Locals
        /\ loc[r].pos \in Nat /\ loc[r].pos >= 1 /\ loc[r].pos <= Len(loc[r].rel)
        /\ loc[r].stmt \in Nat /\ loc[r].rel \in Seq(Migrations)
        /\ Knows(r) /\ Halfway(r) /\ RunStep(r) /\ loc[r].pc = "up"
    BY FieldsTyped DEF TInv, TypeOK, DInv, RunStep, Record, InBounds, At
  <1>1. /\ loc'[r].pc = "next" /\ loc'[r].pos = loc[r].pos + 1
        /\ loc'[r].seen = loc[r].seen /\ loc'[r].rel = loc[r].rel
        /\ done' = done
    BY <1>0 DEF Record, Inserted, Locals
  <1>2. PICK top \in Ids :
          /\ Greatest(top, Ids)
          /\ log' = log \cup {[id |-> top + 1, name |-> Current(r),
                                batch |-> loc[r].batch]}
    BY DEF Record, Inserted
  <1> DEFINE new == [id |-> top + 1, name |-> Current(r), batch |-> loc[r].batch]
  <1>3. new.id = top + 1 /\ new.name = Current(r) /\ log' = log \cup {new}
    BY <1>2
  <1> HIDE DEF new
  <1>4. Recorded' = Recorded \cup {Current(r)}
    BY <1>3 DEF Recorded
  <1>5. RowsUnique'
    <2>1. ASSUME NEW a \in log PROVE a.id # new.id /\ a.name # new.name
      <3>1. a.id \in Ids /\ Ids \subseteq Nat
        BY ReadsTyped DEF TInv, Ids
      <3>2. a.id <= top
        BY <1>2, <3>1 DEF Greatest
      <3>3. a.name # Current(r)
        BY DEF Record, Recorded
      <3> QED BY <1>3, <3>1, <3>2, <3>3
    <2> QED BY <1>3, <2>1 DEF DInv, RowsUnique
  <1>6. Knows(r)'
    BY <1>0, <1>1, <1>4 DEF Knows, At, Current
  <1>7. Halfway(r)'
    BY <1>1 DEF Halfway, Undoing, At
  <1>8. ASSUME NEW s \in Statements, s[1] \in HasDown PROVE Agree(s)'
    <2>1. CASE s[1] = Current(r)
      <3>1. s[2] \in 1 .. Steps[s[1]] /\ Steps[s[1]] \in Nat
        BY RunnerAssumption DEF Statements
      <3>2. done[s] = (IF s[2] < loc[r].stmt THEN 1 ELSE 0)
        BY <1>0, <1>8, <2>1 DEF Halfway, At
      <3>3. s[2] < loc[r].stmt
        BY <1>0, <2>1, <3>1 DEF Record
      <3> QED BY <1>1, <1>4, <2>1, <3>2, <3>3 DEF Agree
    <2>2. CASE s[1] # Current(r)
      <3>1. Agree(s)
        BY <1>0, <1>8, <2>2, Quiet DEF AtWork, Undoing, At
      <3> QED BY <1>1, <1>4, <2>2, <3>1 DEF Agree
    <2> QED BY <2>1, <2>2
  <1> QED BY <1>0, <1>5, <1>6, <1>7, <1>8, AloneKeeps

LEMMA DStartDown ==
    ASSUME Exclusive, TInv, DInv, NEW r \in Runners, StartDown(r)
    PROVE  DInv'
  <1>0. /\ loc \in [Runners -> Locals] /\ loc[r] \in Locals
        /\ Knows(r) /\ RollbackStep(r) /\ loc[r].pc = "next_row"
    BY FieldsTyped DEF TInv, TypeOK, DInv, RollbackStep, StartDown, At
  <1>1. PICK row \in loc[r].rows :
          /\ NextRow(loc[r].rows, row)
          /\ loc' = [loc EXCEPT ![r].pc = "down",
                       ![r].stmt = IF row.name \in HasDown THEN Steps[row.name] ELSE 0]
    BY DEF StartDown
  <1>2. /\ loc'[r].pc = "down" /\ loc'[r].rel = loc[r].rel /\ loc'[r].rows = loc[r].rows
        /\ loc'[r].stmt = (IF row.name \in HasDown THEN Steps[row.name] ELSE 0)
    BY <1>0, <1>1 DEF Locals
  <1>3. UNCHANGED <<log, done>>
    BY DEF StartDown
  <1>4. Knows(r)'
    BY <1>0, <1>2, <1>3 DEF Knows, At
  <1>5. ASSUME NEW s \in Statements, s[1] \in HasDown PROVE Agree(s)' /\ Agree(s)
    <2>1. Agree(s)
      BY <1>0, <1>5, Quiet DEF AtWork, Undoing, At
    <2> QED BY <1>3, <2>1 DEF Agree, Recorded
  <1>6. Halfway(r)'
    <2> SUFFICES ASSUME NEW s \in Statements, s[1] \in HasDown,
                        NEW other \in loc[r].rows, NextRow(loc[r].rows, other),
                        other.name = s[1]
                 PROVE  done[s] = (IF s[2] <= loc'[r].stmt THEN 1 ELSE 0)
      BY <1>2, <1>3 DEF Halfway, Undoing, At
    <2>1. row \in log /\ other \in log
      BY <1>0 DEF Knows
    <2>2. other.id = row.id
      <3>1. row.id \in Nat /\ other.id \in Nat /\ row.id <= other.id /\ other.id <= row.id
        BY <1>1, <2>1 DEF NextRow, TInv, TypeOK, Rows
      <3> QED BY <3>1
    <2>3. other = row
      BY <2>1, <2>2 DEF DInv, RowsUnique
    <2>4. s[1] \in Recorded /\ s[2] \in 1 .. Steps[s[1]]
      BY <2>1, RunnerAssumption DEF Recorded, Statements
    <2> QED BY <1>2, <1>5, <2>3, <2>4, RunnerAssumption DEF Agree
  <1>7. RowsUnique'
    BY <1>3 DEF DInv, RowsUnique
  <1> QED BY <1>0, <1>4, <1>5, <1>6, <1>7, AloneKeeps

\* The row that rollback() is at is the only one of its id.
LEMMA TheRow ==
    ASSUME TInv, DInv, NEW r \in Runners, At(r, "down"),
           NEW a \in loc[r].rows, NextRow(loc[r].rows, a),
           NEW b \in loc[r].rows, NextRow(loc[r].rows, b)
    PROVE  a = b /\ a \in log
  <1>1. a \in log /\ b \in log
    BY DEF DInv, Knows, At
  <1>2. a.id \in Nat /\ b.id \in Nat /\ a.id <= b.id /\ b.id <= a.id
    BY <1>1 DEF NextRow, TInv, TypeOK, Rows
  <1> QED BY <1>1, <1>2 DEF DInv, RowsUnique

LEMMA DDownStatement ==
    ASSUME Exclusive, TInv, DInv, NEW r \in Runners, DownStatement(r)
    PROVE  DInv'
  <1>0. /\ loc \in [Runners -> Locals] /\ loc[r] \in Locals
        /\ loc[r].stmt \in Nat /\ loc[r].stmt > 0
        /\ Knows(r) /\ Halfway(r) /\ RollbackStep(r) /\ loc[r].pc = "down"
    BY FieldsTyped DEF TInv, TypeOK, DInv, RollbackStep, DownStatement, At
  <1>1. PICK row \in loc[r].rows :
          /\ NextRow(loc[r].rows, row)
          /\ done' = [done EXCEPT ![<<row.name, loc[r].stmt>>] = 0]
    BY DEF DownStatement
  <1>2. /\ loc'[r].pc = "down" /\ loc'[r].rel = loc[r].rel /\ loc'[r].rows = loc[r].rows
        /\ loc'[r].stmt = loc[r].stmt - 1 /\ UNCHANGED log
    BY <1>0 DEF DownStatement, Locals
  <1>3. \A m : Undoing(r, m) => m = row.name
    BY <1>0, <1>1, TheRow DEF Undoing, At
  <1>4. Knows(r)'
    BY <1>0, <1>2 DEF Knows, At
  <1> DEFINE t == <<row.name, loc[r].stmt>>
  <1>5. done' = [done EXCEPT ![t] = 0] /\ done \in [Statements -> 0 .. 2]
    BY <1>1 DEF TInv, TypeOK
  <1>6. ASSUME NEW s \in Statements, s[1] \in HasDown, s[1] # row.name
        PROVE  Agree(s)'
    <2>1. Agree(s)
      BY <1>0, <1>3, <1>6, Quiet DEF AtWork, At
    <2>2. s # t
      BY <1>6
    <2> HIDE DEF t
    <2>3. done'[s] = done[s]
      BY <1>5, <2>2
    <2> QED BY <1>2, <2>1, <2>3 DEF Agree, Recorded
  <1>7. Undoing(r, row.name)
    BY <1>0, <1>1 DEF Undoing, At
  <1>8. Halfway(r)'
    <2> SUFFICES ASSUME NEW s \in Statements, s[1] \in HasDown, s[1] = row.name
                 PROVE  done'[s] = (IF s[2] <= loc[r].stmt - 1 THEN 1 ELSE 0)
      <3>1. \A m : Undoing(r, m)' => Undoing(r, m)
        BY <1>0, <1>2 DEF Undoing, At
      <3> QED BY <1>2, <1>3, <3>1 DEF Halfway, At
    <2>1. s[2] \in Nat /\ s = <<s[1], s[2]>>
      BY RunnerAssumption DEF Statements
    <2>2. done[s] = (IF s[2] <= loc[r].stmt THEN 1 ELSE 0)
      BY <1>0, <1>7 DEF Halfway
    <2>3. CASE s = t
      <3>1. s[2] = loc[r].stmt
        BY <2>3
      <3> HIDE DEF t
      <3> QED BY <1>0, <1>5, <2>3, <3>1
    <2>4. CASE s # t
      <3>1. s[2] # loc[r].stmt
        BY <2>1, <2>4
      <3> HIDE DEF t
      <3>2. done'[s] = done[s]
        BY <1>5, <2>4
      <3> QED BY <1>0, <2>1, <2>2, <3>1, <3>2
    <2> QED BY <2>3, <2>4
  <1>9. ASSUME NEW s \in Statements, s[1] \in HasDown, ~AtWork(r, s[1])'
        PROVE  Agree(s)'
    <2>1. Undoing(r, row.name)'
      BY <1>0, <1>1, <1>2 DEF Undoing, At
    <2>2. s[1] # row.name
      BY <1>9, <2>1 DEF AtWork
    <2> QED BY <1>6, <1>9, <2>2
  <1>10. RowsUnique'
    BY <1>2 DEF DInv, RowsUnique
  <1> QED BY <1>0, <1>4, <1>8, <1>9, <1>10, AloneKeeps

LEMMA DUnrecord ==
    ASSUME Exclusive, TInv, DInv, NEW r \in Runners, Unrecord(r)
    PROVE  DInv'
  <1>0. /\ loc \in [Runners -> Locals] /\ loc[r] \in Locals /\ loc[r].stmt = 0
        /\ Knows(r) /\ Halfway(r) /\ RollbackStep(r) /\ loc[r].pc = "down"
    BY FieldsTyped DEF TInv, TypeOK, DInv, RollbackStep, Unrecord, At
  <1>1. PICK row \in loc[r].rows :
          /\ NextRow(loc[r].rows, row)
          /\ log' = {other \in log : other.name # row.name}
          /\ loc' = [loc EXCEPT ![r].pc = "next_row", ![r].rows = @ \ {row}]
    BY DEF Unrecord
  <1>2. /\ loc'[r].pc = "next_row" /\ loc'[r].rel = loc[r].rel
        /\ loc'[r].rows = loc[r].rows \ {row} /\ done' = done
    BY <1>0, <1>1 DEF Unrecord, Locals
  <1>3. Undoing(r, row.name) /\ \A m : Undoing(r, m) => m = row.name
    BY <1>0, <1>1, TheRow DEF Undoing, At
  <1>4. Knows(r)'
    <2>1. loc[r].rows \subseteq log
      BY <1>0 DEF Knows
    <2>2. loc'[r].rows \subseteq log'
      BY <1>1, <1>2, <2>1 DEF DInv, RowsUnique
    <2> QED BY <1>0, <1>2, <2>2 DEF Knows, At
  <1>5. RowsUnique' /\ Halfway(r)'
    BY <1>1, <1>2 DEF DInv, RowsUnique, Halfway, Undoing, At
  <1>6. Recorded' = Recorded \ {row.name}
    BY <1>1 DEF Recorded
  <1>7. ASSUME NEW s \in Statements, s[1] \in HasDown PROVE Agree(s)'
    <2>1. CASE s[1] = row.name
      <3>1. s[2] \in 1 .. Steps[s[1]] /\ Steps[s[1]] \in Nat
        BY RunnerAssumption DEF Statements
      <3>2. done[s] = (IF s[2] <= 0 THEN 1 ELSE 0)
        BY <1>0, <1>3, <1>7, <2>1 DEF Halfway
      <3> QED BY <1>2, <1>6, <2>1, <3>1, <3>2 DEF Agree
    <2>2. CASE s[1] # row.name
      <3>1. Agree(s)
        BY <1>0, <1>3, <1>7, <2>2, Quiet DEF AtWork, At
      <3> QED BY <1>2, <1>6, <2>2, <3>1 DEF Agree
    <2> QED BY <2>1, <2>2
  <1> QED BY <1>0, <1>4, <1>5, <1>7, AloneKeeps

LEMMA DInvInit == ASSUME Init PROVE DInv
  BY DEF Init, DInv, OneAtATime, RowsUnique, Knows, Halfway, Undoing, Agree,
     Recorded, Idle, At

LEMMA DInvStep ==
    ASSUME Exclusive, NoTwice, "stop" \notin Faults, TInv, DInv, [Next]_vars
    PROVE  DInv'
  <1>1. CASE UNCHANGED vars
    BY <1>1 DEF vars, DInv, OneAtATime, RowsUnique, Knows, Halfway, AtWork,
       Undoing, Agree, Recorded, At, Current
  <1>2. ASSUME NEW r \in Runners, RunStep(r) PROVE DInv'
    BY <1>2, DRunControl, DStartUp, DUpStatement, DUpFails, DRecord, DRecordFails
    DEF RunStep
  <1>3. ASSUME NEW r \in Runners, RollbackStep(r) PROVE DInv'
    BY <1>3, DRollbackControl, DStartDown, DDownStatement, DUnrecord
    DEF RollbackStep
  <1> QED BY <1>1, <1>2, <1>3 DEF Next, Stop

\* With one runner at a time, no failure and releases that list no migration
\* twice, log and schema agree between runs, for the migrations that can be
\* undone, after any sequence of runs, rollbacks and releases.
THEOREM LogAgrees ==
    ASSUME Exclusive, NoTwice, "stop" \notin Faults
    PROVE  Spec => []LogMatchesSchema
  <1>1. Init => TInv /\ DInv
    BY TypedInit, DInvInit
  <1>2. TInv /\ DInv /\ [Next]_vars => TInv' /\ DInv'
    BY TypedStep, DInvStep
  <1>3. TInv /\ DInv => LogMatchesSchema
    BY DEF DInv, LogMatchesSchema, AtWork, Undoing, Agree, At
  <1> QED BY <1>1, <1>2, <1>3, PTL DEF Spec

-----------------------------------------------------------------------------
(* One runner at a time, failures included: the newest is undone first     *)

\* later rows are of later batches
BatchesGrow == \A a, b \in log : a.id <= b.id => a.batch <= b.batch

\* No batch of the log is later than the one a runner works on, and what is
\* left of that batch is on the list of rollback() or is not registered.
Ordered(r) ==
    /\ loc[r].pc \in {"next", "up", "last_rows", "next_row", "down"} =>
          \A row \in log : row.batch <= loc[r].batch
    /\ loc[r].pc \in {"next_row", "down"} =>
          /\ loc[r].rows \subseteq log
          /\ \A row \in loc[r].rows : row.batch = loc[r].batch
          /\ \A row \in log : row.batch = loc[r].batch =>
                row \in loc[r].rows \/ row.name \notin Registered(r)

OInv == OneAtATime /\ RowsUnique /\ BatchesGrow /\ \A r \in Runners : Ordered(r)

LEMMA OrderKept ==
    ASSUME Exclusive, TInv, OInv, NEW r \in Runners,
           RunStep(r) \/ RollbackStep(r) \/ Stop(r),
           RowsUnique', BatchesGrow', Ordered(r)'
    PROVE  OInv'
  <1>1. /\ \A q \in Runners : q # r => At(q, "idle") /\ loc'[q] = loc[q]
        /\ OneAtATime'
    BY Alone DEF OInv
  <1> QED BY <1>1 DEF OInv, Ordered, At

\* a step that leaves the log alone
LEMMA OrderKeptByReads ==
    ASSUME Exclusive, TInv, OInv, NEW r \in Runners,
           RunStep(r) \/ RollbackStep(r) \/ Stop(r),
           UNCHANGED log, Ordered(r)'
    PROVE  OInv'
  BY OrderKept DEF OInv, RowsUnique, BatchesGrow

LEMMA OReturns ==
    ASSUME Exclusive, TInv, OInv, NEW r \in Runners, Return(r), UNCHANGED log,
           RunStep(r) \/ RollbackStep(r) \/ Stop(r)
    PROVE  OInv'
  <1>1. loc'[r].pc = "idle"
    BY ReturnKnows
  <1> QED BY <1>1, OrderKeptByReads DEF Ordered

LEMMA ORun ==
    ASSUME Exclusive, TInv, OInv, NEW r \in Runners, RunStep(r)
    PROVE  OInv'
  <1>0. /\ loc \in [Runners -> Locals] /\ loc[r] \in Locals
        /\ loc[r].pos \in Nat /\ loc[r].batch \in Nat
        /\ Ordered(r) /\ log \subseteq Rows
    BY FieldsTyped DEF TInv, TypeOK, OInv
  <1>1. CASE StartRun(r)
    <2>1. loc'[r].pc = "applied"
      BY <1>0, <1>1 DEF StartRun, Locals
    <2> QED BY <1>1, <2>1, OrderKeptByReads DEF StartRun, Ordered
  <1>2. CASE ReadApplied(r)
    <2>1. loc'[r].pc = "batch"
      BY <1>0, <1>2 DEF ReadApplied, Locals
    <2> QED BY <1>2, <2>1, OrderKeptByReads DEF ReadApplied, Ordered
  <1>3. CASE ReadBatch(r)
    <2> PICK b \in Batches :
          /\ Greatest(b, Batches)
          /\ loc' = [loc EXCEPT ![r].pc = "next", ![r].batch = b + 1]
      BY <1>3 DEF ReadBatch
    <2> PICK n \in Nat : n = b + 1
      BY ReadsTyped DEF TInv
    <2>1. loc'[r].pc = "next" /\ loc'[r].batch = n
      BY <1>0 DEF Locals
    <2>2. ASSUME NEW row \in log PROVE row.batch <= n
      <3>1. row.batch \in Batches /\ b \in Nat /\ row.batch \in Nat
        BY <1>0, ReadsTyped DEF TInv, Batches
      <3> QED BY <3>1 DEF Greatest
    <2>3. log' = log
      BY <1>3 DEF ReadBatch
    <2> QED BY <2>1, <2>2, <2>3, OrderKeptByReads DEF Ordered
  <1>4. CASE SkipApplied(r) \/ StartUp(r) \/ UpStatement(r)
    <2>1. /\ loc'[r].pc \in {"next", "up"} /\ loc[r].pc \in {"next", "up"}
          /\ loc'[r].batch = loc[r].batch /\ log' = log
      BY <1>0, <1>4 DEF SkipApplied, StartUp, InLoop, UpStatement, At, Locals
    <2> QED BY <1>0, <2>1, OrderKeptByReads DEF Ordered
  <1>5. CASE UpFails(r) \/ RecordFails(r) \/ FinishRun(r)
    BY <1>5, OReturns DEF UpFails, RecordFails, FinishRun
  <1>6. CASE Record(r)
    <2>1. PICK top \in Ids :
            /\ Greatest(top, Ids)
            /\ log' = log \cup {[id |-> top + 1, name |-> Current(r),
                                  batch |-> loc[r].batch]}
      BY <1>6 DEF Record, Inserted
    <2> DEFINE new == [id |-> top + 1, name |-> Current(r), batch |-> loc[r].batch]
    <2>2. /\ new.id = top + 1 /\ new.name = Current(r) /\ new.batch = loc[r].batch
          /\ log' = log \cup {new}
      BY <2>1
    <2> HIDE DEF new
    <2>3. /\ loc'[r].pc = "next" /\ loc'[r].batch = loc[r].batch /\ loc[r].pc = "up"
      BY <1>0, <1>6 DEF Record, Inserted, At, Locals
    <2>4. ASSUME NEW a \in log
          PROVE  /\ a.id \in Nat /\ new.id \in Nat /\ a.id < new.id
                 /\ a.name # new.name /\ a.batch <= new.batch
      <3>1. a.id \in Ids /\ Ids \subseteq Nat
        BY ReadsTyped DEF TInv, Ids
      <3>2. a.id <= top
        BY <2>1, <3>1 DEF Greatest
      <3>3. a.name # Current(r)
        BY <1>6 DEF Record, Recorded
      <3>4. a.batch <= loc[r].batch
        BY <1>0, <2>3 DEF Ordered
      <3>5. a.id \in Nat /\ top \in Nat /\ new.id = top + 1
        BY <2>2, <3>1
      <3> QED BY <2>2, <3>2, <3>3, <3>4, <3>5
    <2>5. RowsUnique'
      BY <2>2, <2>4 DEF OInv, RowsUnique
    <2>6. BatchesGrow'
      BY <1>0, <2>2, <2>4 DEF OInv, BatchesGrow
    <2>7. Ordered(r)'
      BY <1>0, <2>2, <2>3, <2>4 DEF Ordered
    <2> QED BY <2>5, <2>6, <2>7, OrderKept
  <1> QED BY <1>1, <1>2, <1>3, <1>4, <1>5, <1>6 DEF RunStep

LEMMA ORollback ==
    ASSUME Exclusive, TInv, OInv, NEW r \in Runners, RollbackStep(r)
    PROVE  OInv'
  <1>0. /\ loc \in [Runners -> Locals] /\ loc[r] \in Locals
        /\ Ordered(r) /\ log \subseteq Rows
    BY FieldsTyped DEF TInv, TypeOK, OInv
  <1>1. CASE StartRollback(r)
    <2>1. loc'[r].pc = "last_batch"
      BY <1>0, <1>1 DEF StartRollback, Locals
    <2> QED BY <1>1, <2>1, OrderKeptByReads DEF StartRollback, Ordered
  <1>2. CASE FindBatch(r)
    <2>1. PICK b \in Batches :
            /\ Greatest(b, Batches)
            /\ IF b = 0 THEN Return(r)
               ELSE loc' = [loc EXCEPT ![r].pc = "last_rows", ![r].batch = b]
      BY <1>2 DEF FindBatch
    <2>2. log' = log
      BY <1>2 DEF FindBatch
    <2>3. CASE Return(r)
      BY <2>2, <2>3, OReturns
    <2>4. CASE loc' = [loc EXCEPT ![r].pc = "last_rows", ![r].batch = b]
      <3>1. loc'[r].pc = "last_rows" /\ loc'[r].batch = b
        BY <1>0, <2>4 DEF Locals
      <3>2. \A row \in log : row.batch <= b
        BY <2>1 DEF Greatest, Batches
      <3> QED BY <2>2, <3>1, <3>2, OrderKeptByReads DEF Ordered
    <2> QED BY <2>1, <2>3, <2>4
  <1>3. CASE ListRows(r)
    <2>1. /\ loc'[r].pc = "next_row" /\ loc'[r].batch = loc[r].batch
          /\ loc'[r].rows = {row \in log : row.batch = loc[r].batch}
          /\ loc[r].pc = "last_rows" /\ log' = log
      BY <1>0, <1>3 DEF ListRows, At, Locals
    <2> QED BY <1>0, <2>1, OrderKeptByReads DEF Ordered
  <1>4. CASE SkipOrphan(r)
    <2> PICK row \in loc[r].rows :
          /\ row.name \notin Registered(r)
          /\ loc' = [loc EXCEPT ![r].rows = @ \ {row}]
      BY <1>4 DEF SkipOrphan
    <2>1. /\ loc'[r].pc = "next_row" /\ loc'[r].batch = loc[r].batch
          /\ loc'[r].rel = loc[r].rel /\ loc'[r].rows = loc[r].rows \ {row}
          /\ loc[r].pc = "next_row" /\ log' = log
      BY <1>0, <1>4 DEF SkipOrphan, At, Locals
    <2>2. Registered(r)' = Registered(r)
      BY <2>1 DEF Registered
    <2> QED BY <1>0, <2>1, <2>2, OrderKeptByReads DEF Ordered
  <1>5. CASE StartDown(r) \/ DownStatement(r)
    <2>1. /\ loc'[r].pc = "down" /\ loc'[r].batch = loc[r].batch
          /\ loc'[r].rel = loc[r].rel /\ loc'[r].rows = loc[r].rows
          /\ loc[r].pc \in {"next_row", "down"} /\ log' = log
      BY <1>0, <1>5 DEF StartDown, DownStatement, At, Locals
    <2>2. Registered(r)' = Registered(r)
      BY <2>1 DEF Registered
    <2> QED BY <1>0, <2>1, <2>2, OrderKeptByReads DEF Ordered
  <1>6. CASE Unrecord(r)
    <2> PICK row \in loc[r].rows :
          /\ log' = {other \in log : other.name # row.name}
          /\ loc' = [loc EXCEPT ![r].pc = "next_row", ![r].rows = @ \ {row}]
      BY <1>6 DEF Unrecord
    <2>1. /\ loc'[r].pc = "next_row" /\ loc'[r].batch = loc[r].batch
          /\ loc'[r].rel = loc[r].rel /\ loc'[r].rows = loc[r].rows \ {row}
          /\ loc[r].pc = "down"
      BY <1>0, <1>6 DEF Unrecord, At, Locals
    <2>2. Registered(r)' = Registered(r)
      BY <2>1 DEF Registered
    <2>3. RowsUnique' /\ BatchesGrow'
      BY DEF OInv, RowsUnique, BatchesGrow
    <2>4. Ordered(r)'
      BY <1>0, <2>1, <2>2 DEF OInv, RowsUnique, Ordered
    <2> QED BY <2>3, <2>4, OrderKept
  <1>7. CASE FinishRollback(r)
    BY <1>7, OReturns DEF FinishRollback
  <1> QED BY <1>1, <1>2, <1>3, <1>4, <1>5, <1>6, <1>7 DEF RollbackStep

LEMMA OInvStep ==
    ASSUME Exclusive, TInv, OInv, [Next]_vars
    PROVE  OInv'
  <1>1. CASE UNCHANGED vars
    BY <1>1 DEF vars, OInv, OneAtATime, RowsUnique, BatchesGrow, Ordered,
       Registered, At
  <1>2. ASSUME NEW r \in Runners, Stop(r) PROVE OInv'
    BY <1>2, OReturns DEF Stop
  <1> QED BY <1>1, <1>2, ORun, ORollback DEF Next

\* Only Unrecord takes a row out of the log, and only one.
LEMMA OneRowGoes ==
    ASSUME TInv, OInv, [Next]_vars, NEW gone \in log \ log'
    PROVE  \E r \in Runners :
              /\ At(r, "down") /\ gone \in loc[r].rows /\ NextRow(loc[r].rows, gone)
              /\ log' \subseteq log
  <1>1. PICK r \in Runners : Unrecord(r)
    BY DEF Next, vars, RunStep, StartRun, ReadApplied, ReadBatch, SkipApplied,
       StartUp, UpStatement, UpFails, Record, Inserted, RecordFails, FinishRun,
       RollbackStep, StartRollback, FindBatch, ListRows, SkipOrphan, StartDown,
       DownStatement, FinishRollback, Stop
  <1>2. PICK row \in loc[r].rows :
          /\ NextRow(loc[r].rows, row)
          /\ log' = {other \in log : other.name # row.name}
    BY <1>1 DEF Unrecord
  <1>3. At(r, "down") /\ row \in log
    BY <1>1 DEF Unrecord, OInv, Ordered, At
  <1>4. gone = row
    BY <1>2, <1>3 DEF OInv, RowsUnique
  <1> QED BY <1>2, <1>3, <1>4

\* With one runner at a time, which may stop anywhere, a rollback deletes a row
\* only when every later one belongs to a migration it does not know.
THEOREM UndoOrder ==
    ASSUME Exclusive
    PROVE  Spec => NewestUndoneFirst
  <1>1. Init => TInv /\ OInv
    BY TypedInit DEF Init, OInv, OneAtATime, RowsUnique, BatchesGrow, Ordered, Idle, At
  <1>2. TInv /\ OInv /\ [Next]_vars => TInv' /\ OInv'
    BY TypedStep, OInvStep
  <1>3. ASSUME TInv, OInv, [Next]_vars, NEW gone \in log \ log', NEW row \in log',
               row.id > gone.id
        PROVE  \E r \in Runners : At(r, "down") /\ row.name \notin Registered(r)
    <2>1. PICK r \in Runners :
              /\ At(r, "down") /\ gone \in loc[r].rows /\ NextRow(loc[r].rows, gone)
              /\ log' \subseteq log
      BY <1>3, OneRowGoes
    <2>2. /\ row \in log /\ gone \in log
          /\ row.id \in Nat /\ gone.id \in Nat
          /\ row.batch \in Nat /\ gone.batch \in Nat
      BY <1>3, <2>1 DEF TInv, TypeOK, Rows
    <2>3. gone.batch <= row.batch
      BY <1>3, <2>2 DEF OInv, BatchesGrow
    <2>4. row.batch <= loc[r].batch /\ gone.batch = loc[r].batch
      BY <1>3, <2>1, <2>2 DEF OInv, Ordered, At
    <2>5. row.batch = loc[r].batch
      BY <2>2, <2>3, <2>4
    <2>6. row \notin loc[r].rows
      BY <1>3, <2>1, <2>2 DEF NextRow
    <2> QED BY <1>3, <2>1, <2>2, <2>5, <2>6 DEF OInv, Ordered, At
  <1>4. TInv /\ OInv /\ [Next]_vars =>
          [\A gone \in log \ log', row \in log' :
              row.id > gone.id =>
                  \E r \in Runners : At(r, "down") /\ row.name \notin Registered(r)]_vars
    BY <1>3
  <1> QED BY <1>1, <1>2, <1>4, PTL DEF Spec, NewestUndoneFirst

=============================================================================
