--------------------------- MODULE SessionsProofs ---------------------------
(***************************************************************************)
(* Proofs about Sessions for any clients, pools, connections and bounds:   *)
(* transactions with savepoints are atomic, a statement that is retried    *)
(* takes effect once, and what advisory locks are good for.                *)
(***************************************************************************)
EXTENDS Sessions, FiniteSetTheorems, TLAPS

Labels == {"start", "open", "asked", "commit", "sleep", "blocked", "locked", "done"}
Answers == {"none", "ok", "error", "undone", "true", "false", "panic"}
TxState == [failed : BOOLEAN, pending : SUBSET Marks, saves : Seq(Savepoints)]
Said == [n : 0 .. MaxStatements, acked : SUBSET Marks, troubled : BOOLEAN]

\* TypeOK without the values of the backoff, which are powers of two, and
\* without the marks of the retry loops, which are counted
TInv ==
  /\ job \in [Clients -> Calls]
  /\ pc \in [Clients -> Labels]
  /\ at \in [Clients -> Conns \cup {NoConn}]
  /\ tx \in [Clients -> TxState]
  /\ said \in [Clients -> Said]
  /\ answer \in [Clients -> Answers]
  /\ lock \in [conn : Conns \cup {NoConn}, depth : Nat]
  /\ closes \in Nat

\* which call can be where, and that no call returns twice
Flow ==
  \A c \in Clients :
     /\ pc[c] = "open" => InTransaction(c)
     /\ InTransaction(c) => pc[c] \in {"start", "open", "done"}
     /\ job[c] = "exec" => pc[c] \in {"start", "sleep", "done"}
     /\ pc[c] = "blocked" => at[c] \in Conns /\ PoolOf[at[c]] = PoolOf[c]
     /\ pc[c] # "done" => answer[c] = "none"

LEMMA NewTxType == NewTx \in TxState
BY DEF NewTx, TxState, Savepoints

LEMMA TInit == Init => TInv
<1> SUFFICES ASSUME Init PROVE TInv
  OBVIOUS
<1>1. job \in [Clients -> Calls]
  BY SessionsAssumption DEF Init
<1>2. Nothing \in Said /\ NoLock \in [conn : Conns \cup {NoConn}, depth : Nat]
  BY SessionsAssumption DEF Nothing, Said, NoLock
<1>3. QED
  BY <1>1, <1>2, NewTxType DEF Init, TInv, Labels, Answers

LEMMA ReturnTypes ==
  ASSUME TInv, NEW c \in Clients, NEW a \in Answers, Return(c, a)
  PROVE  /\ pc' \in [Clients -> Labels] /\ at' \in [Clients -> Conns \cup {NoConn}]
         /\ answer' \in [Clients -> Answers]
BY DEF TInv, Return, Goto, Occupy, Labels

LEMMA MarkType ==
  ASSUME TInv, NEW c \in Clients
  PROVE  Mark(c) \in Marks /\ said[c].n \in 0 .. MaxStatements
BY DEF TInv, Mark, Marks, Said

LEMMA ExecutesTypes ==
  ASSUME TInv, NEW c \in Clients, Executes(c)
  PROVE  tx' \in [Clients -> TxState] /\ said' \in [Clients -> Said]
<1>1. MaxStatements \in Nat /\ said[c] \in Said /\ tx[c] \in TxState
  BY SessionsAssumption DEF TInv
<1>2. said[c].n + 1 \in 0 .. MaxStatements
  BY <1>1 DEF Executes, Said
<1>3. CASE /\ tx' = [tx EXCEPT ![c].pending = @ \cup {Mark(c)}]
           /\ said' = [said EXCEPT ![c].n = @ + 1, ![c].acked = @ \cup {Mark(c)}]
  <2>1. [tx[c] EXCEPT !.pending = @ \cup {Mark(c)}] \in TxState
    BY <1>1, MarkType DEF TxState
  <2>2. [said[c] EXCEPT !.n = @ + 1, !.acked = @ \cup {Mark(c)}] \in Said
    BY <1>1, <1>2, MarkType DEF Said
  <2>3. QED
    BY <1>3, <2>1, <2>2 DEF TInv
<1>4. CASE /\ tx' = [tx EXCEPT ![c].failed = TRUE]
           /\ said' = [said EXCEPT ![c].n = @ + 1, ![c].troubled = TRUE]
  <2>1. [tx[c] EXCEPT !.failed = TRUE] \in TxState
    BY <1>1 DEF TxState
  <2>2. [said[c] EXCEPT !.n = @ + 1, !.troubled = TRUE] \in Said
    BY <1>1, <1>2 DEF Said
  <2>3. QED
    BY <1>4, <2>1, <2>2 DEF TInv
<1>5. QED
  BY <1>3, <1>4 DEF Executes

LEMMA ReadsTypes ==
  ASSUME TInv, NEW c \in Clients, Reads(c) \/ NoRowReturned(c)
  PROVE  tx' \in [Clients -> TxState] /\ said' \in [Clients -> Said]
<1>1. said[c] \in Said /\ tx[c] \in TxState
  BY DEF TInv
<1>2. [tx[c] EXCEPT !.failed = TRUE] \in TxState
  BY <1>1 DEF TxState
<1>3. [said[c] EXCEPT !.troubled = TRUE] \in Said
  BY <1>1 DEF Said
<1>4. QED
  BY <1>2, <1>3 DEF TInv, Reads, NoRowReturned

-----------------------------------------------------------------------------
(* What one step of a client does.                                         *)

\* a transaction sets a savepoint
Saves(c) ==
  /\ \E name \in Names :
        tx' = [tx EXCEPT ![c].saves =
                 Append(@, [name |-> name, pending |-> tx[c].pending, n |-> said[c].n])]
  /\ UNCHANGED <<others, pc, at, said, answer, db, lock>>

\* what a statement of an open transaction can do, apart from ending it
Works(c) ==
  \/ Executes(c) \/ Reads(c) \/ NoRowReturned(c) \/ UNCHANGED vars \/ Saves(c)
  \/ \E i \in 1 .. Len(tx[c].saves) : RolledBackTo(c, i) \/ Released(c, i)

Ends(c) == Commits(c) \/ RollsBack(c)

LEMMA TransactionIs ==
  ASSUME NEW c \in Clients, Transaction(c)
  PROVE  \/ pc[c] = "start" /\ InTransaction(c) /\ Begun(c)
         \/ pc[c] = "open" /\ InTransaction(c) /\ Works(c)
         \/ pc[c] = "open" /\ Ends(c)
<1>1. CASE TxBegin(c) \/ CtxBegin(c)
  BY <1>1 DEF TxBegin, CtxBegin, InTransaction
<1>2. CASE \/ TxFetch(c) \/ TxExecute(c) \/ TxInsertReturning(c) \/ TxBulkInsert(c)
           \/ TxUpdateOrDelete(c) \/ CtxFetch(c) \/ CtxCreate(c)
           \/ CtxCreateReturning(c) \/ CtxUpdateOrDelete(c)
  BY <1>2 DEF TxFetch, TxExecute, TxInsertReturning, TxBulkInsert, TxUpdateOrDelete,
       CtxFetch, CtxCreate, CtxCreateReturning, CtxUpdateOrDelete, InTx,
       InTransaction, Works
<1>3. CASE TxCommit(c) \/ TxRollback(c) \/ CtxCommit(c) \/ CtxRollback(c) \/ Drop(c)
  BY <1>3 DEF TxCommit, TxRollback, CtxCommit, CtxRollback, Drop, InTx, Ends, RollsBack
<1>4. ASSUME NEW name \in Names,
             CtxSavepoint(c, name) \/ CtxRollbackTo(c, name) \/ CtxRelease(c, name)
      PROVE  pc[c] = "open" /\ InTransaction(c) /\ Works(c)
  <2>1. \A i \in Latest(c, name) : i \in 1 .. Len(tx[c].saves)
    BY DEF Latest
  <2>2. CASE CtxSavepoint(c, name)
    BY <2>2 DEF CtxSavepoint, InTx, InTransaction, Works, Saves
  <2>3. CASE CtxRollbackTo(c, name)
    BY <2>1, <2>3 DEF CtxRollbackTo, InTx, InTransaction, Works
  <2>4. CASE CtxRelease(c, name)
    BY <2>1, <2>4 DEF CtxRelease, InTx, InTransaction, Works
  <2>5. QED
    BY <1>4, <2>2, <2>3, <2>4
<1>5. QED
  BY <1>1, <1>2, <1>3, <1>4 DEF Transaction

-----------------------------------------------------------------------------
(* Types.                                                                  *)

LEMMA SavesTypes ==
  ASSUME TInv, NEW c \in Clients, Saves(c)
  PROVE  tx' \in [Clients -> TxState]
<1>1. PICK name \in Names :
        tx' = [tx EXCEPT ![c].saves =
                 Append(@, [name |-> name, pending |-> tx[c].pending, n |-> said[c].n])]
  BY DEF Saves
<1>2. tx[c] \in TxState /\ said[c] \in Said
  BY DEF TInv
<1>3. [name |-> name, pending |-> tx[c].pending, n |-> said[c].n] \in Savepoints
  BY <1>2, SessionsAssumption DEF TxState, Said, Savepoints
<1>4. Append(tx[c].saves, [name |-> name, pending |-> tx[c].pending, n |-> said[c].n])
        \in Seq(Savepoints)
  BY <1>2, <1>3 DEF TxState
<1>5. QED
  BY <1>1, <1>2, <1>4 DEF TInv, TxState

LEMMA BackTypes ==
  ASSUME TInv, NEW c \in Clients, NEW i \in 1 .. Len(tx[c].saves),
         RolledBackTo(c, i) \/ Released(c, i)
  PROVE  tx' \in [Clients -> TxState] /\ said' \in [Clients -> Said]
<1>1. tx[c] \in TxState /\ said[c] \in Said /\ tx[c].saves \in Seq(Savepoints)
  BY DEF TInv, TxState
<1>2. tx[c].saves[i] \in Savepoints /\ Len(tx[c].saves) \in Nat
  BY <1>1
<1>3. /\ SubSeq(tx[c].saves, 1, i) \in Seq(Savepoints)
      /\ SubSeq(tx[c].saves, 1, i - 1) \in Seq(Savepoints)
  BY <1>1, <1>2
<1>4. CASE RolledBackTo(c, i)
  <2>1. [failed |-> FALSE, pending |-> tx[c].saves[i].pending,
         saves |-> SubSeq(tx[c].saves, 1, i)] \in TxState
    BY <1>2, <1>3 DEF TxState, Savepoints
  <2>2. [said[c] EXCEPT !.troubled = FALSE,
                        !.acked = {m \in @ : m[2] <= tx[c].saves[i].n}] \in Said
    BY <1>1 DEF Said
  <2>3. QED
    BY <1>4, <2>1, <2>2 DEF TInv, RolledBackTo
<1>5. CASE Released(c, i)
  <2>1. [tx[c] EXCEPT !.saves = SubSeq(@, 1, i - 1)] \in TxState
    BY <1>1, <1>3 DEF TxState
  <2>2. QED
    BY <1>5, <2>1 DEF TInv, Released
<1>6. QED
  BY <1>4, <1>5

LEMMA WorksTypes ==
  ASSUME TInv, NEW c \in Clients, Works(c)
  PROVE  tx' \in [Clients -> TxState] /\ said' \in [Clients -> Said]
<1>1. CASE Saves(c)
  BY <1>1, SavesTypes DEF Saves, TInv
<1>2. CASE UNCHANGED vars
  BY <1>2 DEF vars, TInv
<1>3. QED
  BY <1>1, <1>2, ExecutesTypes, ReadsTypes, BackTypes DEF Works

-----------------------------------------------------------------------------
(* The position of a client: where its call is and what it answered.       *)

\* a step of c leaves the other clients where they are
Moves(c) ==
  /\ pc[c] # "done"
  /\ job' = job /\ closes' = closes
  /\ pc' \in [Clients -> Labels] /\ at' \in [Clients -> Conns \cup {NoConn}]
  /\ answer' \in [Clients -> Answers]
  /\ \A d \in Clients \ {c} : pc'[d] = pc[d] /\ at'[d] = at[d] /\ answer'[d] = answer[d]
  /\ pc'[c] # "done" => answer'[c] = answer[c]
  /\ pc'[c] = "blocked" =>
        \/ at'[c] \in Conns /\ PoolOf[at'[c]] = PoolOf[c]
        \/ pc[c] = "blocked" /\ at'[c] = at[c]

LEMMA FreeIs ==
  ASSUME NEW c \in Clients, NEW k \in Free(c)
  PROVE  k \in Conns /\ PoolOf[k] = PoolOf[c]
BY DEF Free

LEMMA GotoMoves ==
  ASSUME TInv, NEW c \in Clients, NEW l \in Labels \ {"done", "blocked"},
         NEW k \in Conns \cup {NoConn}, pc[c] # "done", job' = job, closes' = closes,
         Goto(c, l), Occupy(c, k), UNCHANGED answer
  PROVE  Moves(c) /\ pc'[c] = l /\ at'[c] = k
BY DEF TInv, Goto, Occupy, Moves

LEMMA ReturnMoves ==
  ASSUME TInv, NEW c \in Clients, NEW a \in Answers, pc[c] # "done", job' = job,
         closes' = closes, Return(c, a)
  PROVE  Moves(c) /\ pc'[c] = "done" /\ at'[c] = NoConn /\ answer'[c] = a
BY ReturnTypes DEF TInv, Goto, Occupy, Moves, Return

LEMMA StayMoves ==
  ASSUME TInv, NEW c \in Clients, pc[c] # "done", job' = job, closes' = closes,
         UNCHANGED <<pc, at, answer>>
  PROVE  Moves(c) /\ pc'[c] = pc[c] /\ at'[c] = at[c]
BY DEF TInv, Moves

LEMMA WaitMoves ==
  ASSUME TInv, NEW c \in Clients, NEW k \in Free(c), pc[c] # "done", job' = job,
         closes' = closes, Waits(c, k)
  PROVE  Moves(c) /\ pc'[c] = "blocked"
BY FreeIs DEF TInv, Goto, Occupy, Moves, Waits, Labels

\* transactions
LEMMA BegunMoves ==
  ASSUME TInv, NEW c \in Clients, pc[c] = "start", Begun(c)
  PROVE  /\ Moves(c) /\ db' = db /\ lock' = lock
         /\ \/ pc'[c] = "open" /\ tx' = [tx EXCEPT ![c] = NewTx] /\ UNCHANGED said
            \/ pc'[c] = "done" /\ answer'[c] = "error" /\ UNCHANGED <<tx, said>>
<1>1. PICK k \in Free(c) :
         \/ /\ Goto(c, "open") /\ Occupy(c, k)
            /\ tx' = [tx EXCEPT ![c] = NewTx]
            /\ UNCHANGED <<others, said, answer, db, lock>>
         \/ Return(c, "error") /\ UNCHANGED <<others, tx, said, db, lock>>
  BY DEF Begun
<1>2. k \in Conns \cup {NoConn}
  BY FreeIs
<1>3. job' = job /\ closes' = closes /\ db' = db /\ lock' = lock
  BY <1>1 DEF others
<1>4. "open" \in Labels \ {"done", "blocked"} /\ "error" \in Answers
  BY DEF Labels, Answers
<1>5. QED
  BY <1>1, <1>2, <1>3, <1>4, GotoMoves, ReturnMoves

LEMMA WorksMoves ==
  ASSUME TInv, NEW c \in Clients, pc[c] = "open", Works(c)
  PROVE  Moves(c) /\ UNCHANGED <<pc, at, answer, db, lock>>
<1>1. UNCHANGED <<pc, at, answer, db, lock>> /\ job' = job /\ closes' = closes
  <2>1. CASE Executes(c) \/ Reads(c) \/ NoRowReturned(c) \/ Saves(c)
    BY <2>1 DEF Executes, Reads, NoRowReturned, Saves, others
  <2>2. CASE UNCHANGED vars
    BY <2>2 DEF vars
  <2>3. ASSUME NEW i \in 1 .. Len(tx[c].saves), RolledBackTo(c, i) \/ Released(c, i)
        PROVE  UNCHANGED <<pc, at, answer, db, lock>> /\ job' = job /\ closes' = closes
    BY <2>3 DEF RolledBackTo, Released, others
  <2>4. QED
    BY <2>1, <2>2, <2>3 DEF Works
<1>2. QED
  BY <1>1, StayMoves

LEMMA EndsMoves ==
  ASSUME TInv, NEW c \in Clients, pc[c] = "open", Ends(c)
  PROVE  Moves(c) /\ pc'[c] = "done" /\ UNCHANGED <<tx, said, lock>>
<1>1. \E a \in Answers : Return(c, a)
  BY DEF Ends, Commits, RollsBack, Answers
<1>2. UNCHANGED <<tx, said, lock>> /\ job' = job /\ closes' = closes
  BY DEF Ends, Commits, RollsBack, others
<1>3. QED
  BY <1>1, <1>2, ReturnMoves

\* the retry loops
Grows(c) == db \subseteq db' /\ \A m \in db' \ db : m[1] = c

\* what the retry loops leave alone
Loops(c) ==
  /\ Moves(c) /\ UNCHANGED <<tx, said, lock>> /\ Grows(c)
  /\ pc[c] # "locked" /\ pc'[c] \notin {"open", "blocked", "locked"}
  /\ ~InTransaction(c)
  /\ job[c] = "exec" => pc'[c] \in {"start", "sleep", "done"}

LEMMA LoopsOn ==
  ASSUME TInv, NEW c \in Clients, NEW outcome, NEW n,
         pc[c] \notin {"done", "locked"}, ~InTransaction(c), NEW l \in {"commit", "done"},
         job[c] = "exec" => l = "done",
         \/ /\ Turned(c, outcome, n, Goto(c, "commit") /\ UNCHANGED <<at, answer>>)
            /\ l = "commit"
         \/ Turned(c, outcome, n, Return(c, "ok")) /\ l = "done"
  PROVE  Loops(c)
<1>1. job' = job /\ closes' = closes /\ UNCHANGED <<tx, said, lock>>
  BY DEF Turned
<1>2. Grows(c)
  <2>1. db' = db \cup (IF outcome.wrote
                       THEN {<<c, Cardinality(Written(c)) + 1>>} ELSE {})
    BY DEF Turned
  <2>2. <<c, Cardinality(Written(c)) + 1>>[1] = c
    OBVIOUS
  <2>3. QED
    BY <2>1, <2>2 DEF Grows
<1>3. \/ \E a \in Answers : Return(c, a)
      \/ Goto(c, "sleep") /\ UNCHANGED <<at, answer>>
      \/ Goto(c, "commit") /\ UNCHANGED <<at, answer>> /\ l = "commit"
  <2>1. CASE Turned(c, outcome, n, Goto(c, "commit") /\ UNCHANGED <<at, answer>>)
             /\ l = "commit"
    BY <2>1 DEF Turned, Answers
  <2>2. CASE Turned(c, outcome, n, Return(c, "ok")) /\ l = "done"
    BY <2>2 DEF Turned, Answers
  <2>3. QED
    BY <2>1, <2>2
<1>4. \/ Moves(c) /\ pc'[c] = "done"
      \/ Moves(c) /\ pc'[c] = "sleep"
      \/ Moves(c) /\ pc'[c] = "commit" /\ l = "commit"
  <2>1. CASE \E a \in Answers : Return(c, a)
    BY <1>1, <2>1, ReturnMoves
  <2>2. CASE Goto(c, "sleep") /\ UNCHANGED <<at, answer>>
    BY <1>1, <2>2 DEF TInv, Goto, Moves, Labels
  <2>3. CASE Goto(c, "commit") /\ UNCHANGED <<at, answer>> /\ l = "commit"
    BY <1>1, <2>3 DEF TInv, Goto, Moves, Labels
  <2>4. QED
    BY <1>3, <2>1, <2>2, <2>3
<1>5. QED
  BY <1>1, <1>2, <1>4 DEF Loops

LEMMA RetryingLoops ==
  ASSUME TInv, Flow, NEW c \in Clients, Retrying(c)
  PROVE  Loops(c)
<1>1. CASE RetryBegin(c)
  <2>1. PICK k \in Free(c) : \/ Goto(c, "asked") /\ Occupy(c, k) /\ UNCHANGED answer
                             \/ Return(c, "error")
    BY <1>1 DEF RetryBegin
  <2>2. /\ job' = job /\ closes' = closes /\ UNCHANGED <<tx, said, lock, db>>
        /\ pc[c] = "start" /\ job[c] = "retry"
    BY <1>1 DEF RetryBegin
  <2>3. k \in Conns \cup {NoConn} /\ "asked" \in Labels \ {"done", "blocked"}
        /\ "error" \in Answers
    BY FreeIs DEF Labels, Answers
  <2>4. Moves(c) /\ pc'[c] \in {"asked", "done"}
    BY <2>1, <2>2, <2>3, GotoMoves, ReturnMoves
  <2>5. QED
    BY <2>2, <2>4 DEF Loops, Grows, InTransaction
<1>2. CASE RetryClosure(c)
  <2>1. PICK outcome \in SeveralStatements :
          Turned(c, outcome, attempt[c], Goto(c, "commit") /\ UNCHANGED <<at, answer>>)
    BY <1>2 DEF RetryClosure
  <2>2. pc[c] = "asked" /\ ~InTransaction(c) /\ job[c] # "exec"
    BY <1>2 DEF RetryClosure, Flow
  <2>3. QED
    BY <2>1, <2>2, LoopsOn
<1>3. CASE RetryCommit(c)
  <2>1. /\ job' = job /\ closes' = closes /\ UNCHANGED <<tx, said, lock, db>>
        /\ pc[c] = "commit" /\ ~InTransaction(c)
    BY <1>3 DEF RetryCommit, Flow, others
  <2>2. \E a \in Answers : Return(c, a)
    BY <1>3 DEF RetryCommit, Answers
  <2>3. QED
    BY <2>1, <2>2, ReturnMoves DEF Loops, Grows
<1>4. CASE ExecAttempt(c)
  <2>1. PICK outcome \in SeveralStatements \cup OneStatement :
          Turned(c, outcome, attempt[c] + 1, Return(c, "ok"))
    BY <1>4 DEF ExecAttempt
  <2>2. pc[c] = "start" /\ ~InTransaction(c)
    BY <1>4 DEF ExecAttempt, InTransaction
  <2>3. QED
    BY <2>1, <2>2, LoopsOn
<1>5. CASE Wake(c)
  <2>1. /\ job' = job /\ closes' = closes /\ UNCHANGED <<tx, said, lock, db>>
        /\ pc[c] = "sleep" /\ ~InTransaction(c)
    BY <1>5 DEF Wake, Flow, others
  <2>2. Goto(c, "start") /\ Occupy(c, NoConn) /\ UNCHANGED answer
    BY <1>5 DEF Wake
  <2>3. "start" \in Labels \ {"done", "blocked"}
    BY DEF Labels
  <2>4. QED
    BY <2>1, <2>2, <2>3, GotoMoves DEF Loops, Grows
<1>6. QED
  BY <1>1, <1>2, <1>3, <1>4, <1>5 DEF Retrying

-----------------------------------------------------------------------------
(* Advisory locks: a caller gets the lock, gives it back, or neither.      *)

Gets(c) ==
  /\ pc[c] # "locked" /\ pc'[c] = "locked"
  /\ \E k \in Conns : PoolOf[k] = PoolOf[c] /\ CanLock(k) /\ Deeper(k)

GivesBack(c) ==
  /\ pc[c] = "locked" /\ pc'[c] = "done"
  /\ \E k \in Conns : PoolOf[k] = PoolOf[c] /\ ReleasedBy(k)

\* a caller that has the lock and fails to release it is told so
Neither(c) ==
  /\ pc'[c] # "locked" /\ lock' = lock
  /\ pc[c] = "locked" => answer'[c] = "error"

\* what the calls of LockService leave alone
Serves(c) ==
  /\ Moves(c) /\ UNCHANGED <<tx, said, db>>
  /\ pc'[c] # "open" /\ ~InTransaction(c) /\ job[c] # "exec"
  /\ Gets(c) \/ GivesBack(c) \/ Neither(c)

LEMMA HasMoves ==
  ASSUME TInv, NEW c \in Clients, pc[c] # "done", job' = job, closes' = closes, Has(c)
  PROVE  Moves(c) /\ pc'[c] = "locked"
BY GotoMoves DEF Has, Labels

LEMMA TriesServes ==
  ASSUME TInv, NEW c \in Clients, pc[c] = "start", ~InTransaction(c), job[c] # "exec",
         Keep,
         \/ Tries(c, Return(c, "false"))
         \/ Tries(c, UNCHANGED <<pc, at, answer>>)
  PROVE  Serves(c)
<1>1. job' = job /\ closes' = closes /\ UNCHANGED <<tx, said, db>>
  BY DEF Keep, others
<1>2. PICK k \in Free(c) :
         \/ CanLock(k) /\ Deeper(k) /\ Has(c)
         \/ Return(c, "false") /\ UNCHANGED lock
         \/ UNCHANGED <<pc, at, answer>> /\ UNCHANGED lock
  BY DEF Tries
<1>3. k \in Conns /\ PoolOf[k] = PoolOf[c]
  BY FreeIs
<1>4. CASE CanLock(k) /\ Deeper(k) /\ Has(c)
  BY <1>1, <1>3, <1>4, HasMoves DEF Serves, Gets
<1>5. CASE Return(c, "false") /\ UNCHANGED lock
  BY <1>1, <1>5, ReturnMoves DEF Serves, Neither, Answers
<1>6. CASE UNCHANGED <<pc, at, answer>> /\ UNCHANGED lock
  BY <1>1, <1>6, StayMoves DEF Serves, Neither
<1>7. QED
  BY <1>2, <1>4, <1>5, <1>6

LEMMA LockingServes ==
  ASSUME TInv, Flow, NEW c \in Clients, Locking(c) \/ LockStatementFails(c)
  PROVE  Serves(c)
<1>1. CASE Acquire(c)
  <2>1. PICK k \in Free(c) : \/ CanLock(k) /\ Deeper(k) /\ Has(c)
                             \/ ~CanLock(k) /\ Waits(c, k)
    BY <1>1 DEF Acquire
  <2>2. /\ job' = job /\ closes' = closes /\ UNCHANGED <<tx, said, db>>
        /\ pc[c] = "start" /\ ~InTransaction(c) /\ job[c] # "exec"
        /\ k \in Conns /\ PoolOf[k] = PoolOf[c]
    BY <1>1, FreeIs DEF Acquire, Keep, others, InTransaction
  <2>3. CASE CanLock(k) /\ Deeper(k) /\ Has(c)
    BY <2>2, <2>3, HasMoves DEF Serves, Gets
  <2>4. CASE Waits(c, k)
    BY <2>2, <2>4, WaitMoves DEF Serves, Neither, Waits
  <2>5. QED
    BY <2>1, <2>3, <2>4
<1>2. CASE AcquireXact(c) \/ TryAcquireXact(c)
  <2>1. PICK k \in Free(c) : \/ \E a \in {"true", "false"} : Return(c, a) /\ UNCHANGED lock
                             \/ Waits(c, k)
    BY <1>2 DEF AcquireXact, TryAcquireXact
  <2>2. /\ job' = job /\ closes' = closes /\ UNCHANGED <<tx, said, db>>
        /\ pc[c] = "start" /\ ~InTransaction(c) /\ job[c] # "exec"
    BY <1>2 DEF AcquireXact, TryAcquireXact, Keep, others, InTransaction
  <2>3. CASE Waits(c, k)
    BY <2>2, <2>3, WaitMoves DEF Serves, Neither, Waits
  <2>4. CASE \E a \in {"true", "false"} : Return(c, a) /\ UNCHANGED lock
    BY <2>2, <2>4, ReturnMoves DEF Serves, Neither, Answers
  <2>5. QED
    BY <2>1, <2>3, <2>4
<1>3. CASE Unblocked(c)
  <2>1. /\ job' = job /\ closes' = closes /\ UNCHANGED <<tx, said, db>>
        /\ pc[c] = "blocked" /\ ~InTransaction(c) /\ job[c] # "exec"
        /\ at[c] \in Conns /\ PoolOf[at[c]] = PoolOf[c] /\ CanLock(at[c])
    BY <1>3 DEF Unblocked, Keep, others, Flow
  <2>2. \/ Deeper(at[c]) /\ Has(c)
        \/ Return(c, "true") /\ UNCHANGED lock
    BY <1>3 DEF Unblocked
  <2>3. CASE Deeper(at[c]) /\ Has(c)
    BY <2>1, <2>3, HasMoves DEF Serves, Gets
  <2>4. CASE Return(c, "true") /\ UNCHANGED lock
    BY <2>1, <2>4, ReturnMoves DEF Serves, Neither, Answers
  <2>5. QED
    BY <2>2, <2>3, <2>4
<1>4. CASE TryAcquire(c)
  BY <1>4, TriesServes DEF TryAcquire, InTransaction
<1>5. CASE AcquireTimeout(c)
  <2>1. \/ Tries(c, Return(c, "false"))
        \/ Tries(c, UNCHANGED <<pc, at, answer>>)
    BY <1>5 DEF AcquireTimeout, Tries
  <2>2. QED
    BY <1>5, <2>1, TriesServes DEF AcquireTimeout, InTransaction
<1>6. CASE DeadlinePasses(c)
  <2>1. /\ job' = job /\ closes' = closes /\ UNCHANGED <<tx, said, db, pc, at, answer, lock>>
        /\ pc[c] = "start" /\ ~InTransaction(c) /\ job[c] # "exec"
    BY <1>6 DEF DeadlinePasses, InTransaction
  <2>2. QED
    BY <2>1, StayMoves DEF Serves, Neither
<1>7. CASE Release(c)
  <2>1. PICK k \in Free(c) : ReleasedBy(k)
    BY <1>7 DEF Release
  <2>2. /\ job' = job /\ closes' = closes /\ UNCHANGED <<tx, said, db>>
        /\ pc[c] = "locked" /\ ~InTransaction(c) /\ job[c] # "exec"
        /\ k \in Conns /\ PoolOf[k] = PoolOf[c]
    BY <1>7, FreeIs DEF Release, Keep, others, Flow
  <2>3. QED
    BY <1>7, <2>1, <2>2, ReturnMoves DEF Serves, GivesBack, Release, Answers
<1>8. CASE LockStatementFails(c)
  <2>1. /\ job' = job /\ closes' = closes /\ UNCHANGED <<tx, said, db, lock>>
        /\ pc[c] # "done" /\ ~InTransaction(c) /\ job[c] # "exec"
    BY <1>8 DEF LockStatementFails, Keep, others, Flow, InTransaction
  <2>2. QED
    BY <1>8, <2>1, ReturnMoves DEF Serves, Neither, LockStatementFails, Answers
<1>9. QED
  BY <1>1, <1>2, <1>3, <1>4, <1>5, <1>6, <1>7, <1>8 DEF Locking

-----------------------------------------------------------------------------
(* Every step of a client is of one of these kinds.                        *)

GivesUp(c) ==
  /\ Moves(c) /\ UNCHANGED <<tx, said, db>> /\ Neither(c)
  /\ pc'[c] = "done" /\ answer'[c] = "error"

StepOf(c) ==
  \/ pc[c] = "start" /\ InTransaction(c) /\ Begun(c)
  \/ pc[c] = "open" /\ InTransaction(c) /\ Works(c)
  \/ pc[c] = "open" /\ InTransaction(c) /\ Ends(c)
  \/ Loops(c)
  \/ Serves(c)
  \/ GivesUp(c)

LEMMA ClientSteps ==
  ASSUME TInv, Flow, NEW c \in Clients, ClientStep(c) \/ LockStatementFails(c)
  PROVE  StepOf(c)
<1>1. CASE Transaction(c)
  BY <1>1, TransactionIs DEF StepOf, Flow
<1>2. CASE Retrying(c)
  BY <1>2, RetryingLoops DEF StepOf
<1>3. CASE Locking(c) \/ LockStatementFails(c)
  BY <1>3, LockingServes DEF StepOf
<1>4. CASE PoolTimesOut(c)
  <2>1. /\ job' = job /\ closes' = closes /\ UNCHANGED <<tx, said, db, lock>>
        /\ pc[c] # "done" /\ Return(c, "error") /\ "error" \in Answers
    BY <1>4 DEF PoolTimesOut, NeedsConnection, others, Answers
  <2>2. QED
    BY <2>1, ReturnMoves DEF StepOf, GivesUp, Neither
<1>5. QED
  BY <1>1, <1>2, <1>3, <1>4 DEF ClientStep

LEMMA StepMoves ==
  ASSUME TInv, NEW c \in Clients, StepOf(c)
  PROVE  Moves(c)
BY BegunMoves, WorksMoves, EndsMoves DEF StepOf, Loops, Serves, GivesUp

LEMMA StepTypes ==
  ASSUME TInv, Flow, NEW c \in Clients, StepOf(c)
  PROVE  TInv' /\ Flow'
<1>1. Moves(c)
  BY StepMoves
<1>2. /\ job' \in [Clients -> Calls] /\ closes' \in Nat
      /\ pc' \in [Clients -> Labels] /\ at' \in [Clients -> Conns \cup {NoConn}]
      /\ answer' \in [Clients -> Answers]
  BY <1>1 DEF Moves, TInv
<1>3. tx' \in [Clients -> TxState] /\ said' \in [Clients -> Said]
  <2>1. tx \in [Clients -> TxState] /\ said \in [Clients -> Said]
    BY DEF TInv
  <2>2. CASE pc[c] = "start" /\ Begun(c)
    BY <2>1, <2>2, BegunMoves, NewTxType
  <2>3. CASE Works(c)
    BY <2>3, WorksTypes
  <2>4. CASE pc[c] = "open" /\ Ends(c)
    BY <2>1, <2>4, EndsMoves
  <2>5. CASE Loops(c) \/ Serves(c) \/ GivesUp(c)
    BY <2>1, <2>5 DEF Loops, Serves, GivesUp
  <2>6. QED
    BY <2>2, <2>3, <2>4, <2>5 DEF StepOf
<1>4. lock' \in [conn : Conns \cup {NoConn}, depth : Nat]
  <2>1. lock \in [conn : Conns \cup {NoConn}, depth : Nat]
    BY DEF TInv
  <2>2. CASE lock' = lock
    BY <2>1, <2>2
  <2>3. CASE Gets(c)
    BY <2>1, <2>3 DEF Gets, Deeper
  <2>4. CASE GivesBack(c)
    BY <2>1, <2>4 DEF GivesBack, ReleasedBy, NoLock
  <2>5. QED
    BY <2>2, <2>3, <2>4, BegunMoves, WorksMoves, EndsMoves
       DEF StepOf, Loops, Serves, GivesUp, Neither
<1>5. Flow'
  <2>1. /\ pc'[c] = "open" => InTransaction(c)
        /\ InTransaction(c) => pc'[c] \in {"start", "open", "done"}
        /\ job[c] = "exec" => pc'[c] \in {"start", "sleep", "done"}
    <3>1. CASE pc[c] = "start" /\ InTransaction(c) /\ Begun(c)
      BY <3>1, BegunMoves DEF InTransaction
    <3>2. CASE pc[c] = "open" /\ InTransaction(c) /\ Works(c)
      BY <3>2, WorksMoves DEF InTransaction
    <3>3. CASE pc[c] = "open" /\ InTransaction(c) /\ Ends(c)
      BY <3>3, EndsMoves DEF InTransaction
    <3>4. CASE Loops(c) \/ Serves(c) \/ GivesUp(c)
      BY <3>4 DEF Loops, Serves, GivesUp
    <3>5. QED
      BY <3>1, <3>2, <3>3, <3>4 DEF StepOf
  <2>2. pc'[c] = "blocked" => at'[c] \in Conns /\ PoolOf[at'[c]] = PoolOf[c]
    BY <1>1 DEF Moves, Flow
  <2>3. pc'[c] # "done" => answer'[c] = "none"
    BY <1>1 DEF Moves, Flow
  <2>4. \A d \in Clients \ {c} : pc'[d] = pc[d] /\ at'[d] = at[d] /\ answer'[d] = answer[d]
    BY <1>1 DEF Moves
  <2>5. job' = job
    BY <1>1 DEF Moves
  <2>6. QED
    BY <2>1, <2>2, <2>3, <2>4, <2>5 DEF Flow, InTransaction
<1>6. QED
  BY <1>2, <1>3, <1>4, <1>5 DEF TInv

LEMMA CloseTypes ==
  ASSUME TInv, Flow, NEW k \in Conns, Close(k)
  PROVE  TInv' /\ Flow'
<1>1. UNCHANGED <<job, pc, at, tx, said, answer, db>> /\ closes' = closes + 1
      /\ lock' \in {lock, NoLock}
  BY DEF Close
<1>2. QED
  BY <1>1 DEF TInv, Flow, NoLock, InTransaction

LEMMA StayTypes ==
  ASSUME TInv, Flow, UNCHANGED vars
  PROVE  TInv' /\ Flow'
BY DEF TInv, Flow, vars, InTransaction

LEMMA NextIs ==
  ASSUME TInv, Flow, [Next]_vars
  PROVE  \/ \E c \in Clients : StepOf(c)
         \/ \E k \in Conns : Close(k)
         \/ UNCHANGED vars
BY ClientSteps DEF Next

LEMMA FlowInit == Init => Flow
BY DEF Init, Flow

-----------------------------------------------------------------------------
(* Transactions.  While one is open the server knows of it what its        *)
(* statements were answered, savepoint by savepoint.                       *)

Open(c) ==
  /\ tx[c].pending = said[c].acked
  /\ tx[c].failed => said[c].troubled
  /\ \A i \in 1 .. Len(tx[c].saves) :
        /\ tx[c].saves[i].n <= said[c].n
        /\ tx[c].saves[i].pending = {m \in said[c].acked : m[2] <= tx[c].saves[i].n}
  /\ \A i, j \in 1 .. Len(tx[c].saves) :
        i <= j => tx[c].saves[i].n <= tx[c].saves[j].n

Counts(c) == said[c].acked \subseteq {c} \X (1 .. said[c].n)

TxInv(c) ==
  /\ Counts(c)
  /\ pc[c] = "start" => said[c] = Nothing
  /\ pc[c] = "open" => Open(c)
  /\ pc[c] # "done" => Written(c) = {}
  /\ pc[c] = "done" /\ answer[c] = "ok" /\ ~said[c].troubled
       => Written(c) = said[c].acked

Transactions == \A c \in Clients : InTransaction(c) => TxInv(c)

LEMMA SavesIs ==
  ASSUME TInv, NEW c \in Clients
  PROVE  /\ tx[c].saves \in Seq(Savepoints) /\ Len(tx[c].saves) \in Nat
         /\ \A i \in 1 .. Len(tx[c].saves) :
               tx[c].saves[i].n \in Nat /\ tx[c].saves[i] \in Savepoints
         /\ said[c].n \in Nat /\ said[c].acked \subseteq Marks
<1>1. tx[c] \in TxState /\ said[c] \in Said
  BY DEF TInv
<1>2. tx[c].saves \in Seq(Savepoints) /\ said[c].n \in Nat
      /\ said[c].acked \subseteq Marks
  BY <1>1, SessionsAssumption DEF TxState, Said
<1>3. \A i \in 1 .. Len(tx[c].saves) : tx[c].saves[i] \in Savepoints
  BY <1>2
<1>4. QED
  BY <1>2, <1>3 DEF Savepoints

LEMMA ExecutesOpen ==
  ASSUME TInv, NEW c \in Clients, Counts(c), Open(c), Executes(c)
  PROVE  Counts(c)' /\ Open(c)'
<1>1. /\ tx[c] \in TxState /\ said[c] \in Said /\ said[c].n \in Nat
      /\ tx \in [Clients -> TxState] /\ said \in [Clients -> Said]
  BY SavesIs DEF TInv
<1>2. CASE /\ tx' = [tx EXCEPT ![c].pending = @ \cup {Mark(c)}]
           /\ said' = [said EXCEPT ![c].n = @ + 1, ![c].acked = @ \cup {Mark(c)}]
  <2>1. /\ tx'[c].pending = tx[c].pending \cup {Mark(c)}
        /\ tx'[c].failed = tx[c].failed /\ tx'[c].saves = tx[c].saves
    BY <1>1, <1>2 DEF TxState
  <2>2. /\ said'[c].n = said[c].n + 1 /\ said'[c].troubled = said[c].troubled
        /\ said'[c].acked = said[c].acked \cup {Mark(c)}
    BY <1>1, <1>2 DEF Said
  <2>3. Mark(c) \in {c} \X (1 .. said[c].n + 1) /\ Mark(c)[2] = said[c].n + 1
    BY <1>1 DEF Mark
  <2>4. Counts(c)'
    <3>1. said[c].acked \subseteq {c} \X (1 .. said[c].n + 1)
      BY <1>1 DEF Counts
    <3>2. QED
      BY <3>1, <2>2, <2>3 DEF Counts
  <2>5. \A i \in 1 .. Len(tx[c].saves) :
          {m \in said[c].acked \cup {Mark(c)} : m[2] <= tx[c].saves[i].n}
            = {m \in said[c].acked : m[2] <= tx[c].saves[i].n}
    BY <2>3, <1>1, SavesIs DEF Open
  <2>6. QED
    BY <2>1, <2>2, <2>4, <2>5, <1>1, SavesIs DEF Open
<1>3. CASE /\ tx' = [tx EXCEPT ![c].failed = TRUE]
           /\ said' = [said EXCEPT ![c].n = @ + 1, ![c].troubled = TRUE]
  <2>1. /\ tx'[c].pending = tx[c].pending /\ tx'[c].saves = tx[c].saves
    BY <1>1, <1>3 DEF TxState
  <2>2. /\ said'[c].n = said[c].n + 1 /\ said'[c].troubled = TRUE
        /\ said'[c].acked = said[c].acked
    BY <1>1, <1>3 DEF Said
  <2>3. Counts(c)'
    <3>1. said[c].acked \subseteq {c} \X (1 .. said[c].n + 1)
      BY <1>1 DEF Counts
    <3>2. QED
      BY <3>1, <2>2 DEF Counts
  <2>4. QED
    BY <2>1, <2>2, <2>3, <1>1, SavesIs DEF Open
<1>4. QED
  BY <1>2, <1>3 DEF Executes

LEMMA ReadsOpen ==
  ASSUME TInv, NEW c \in Clients, Counts(c), Open(c), Reads(c) \/ NoRowReturned(c)
  PROVE  Counts(c)' /\ Open(c)'
<1>1. /\ tx[c] \in TxState /\ said[c] \in Said
      /\ tx \in [Clients -> TxState] /\ said \in [Clients -> Said]
  BY DEF TInv
<1>2. /\ tx'[c].pending = tx[c].pending /\ tx'[c].saves = tx[c].saves
  BY <1>1 DEF TxState, Reads, NoRowReturned
<1>3. /\ said'[c].n = said[c].n /\ said'[c].troubled = TRUE
      /\ said'[c].acked = said[c].acked
  BY <1>1 DEF Said, Reads, NoRowReturned
<1>4. QED
  BY <1>2, <1>3 DEF Open, Counts

LEMMA SavesOpen ==
  ASSUME TInv, NEW c \in Clients, Counts(c), Open(c), Saves(c)
  PROVE  Counts(c)' /\ Open(c)'
<1>1. PICK name \in Names :
        tx' = [tx EXCEPT ![c].saves =
                 Append(@, [name |-> name, pending |-> tx[c].pending, n |-> said[c].n])]
  BY DEF Saves
<1> DEFINE s == [name |-> name, pending |-> tx[c].pending, n |-> said[c].n]
<1>2. /\ tx[c] \in TxState /\ tx \in [Clients -> TxState]
  BY DEF TInv
<1>3. /\ tx'[c].pending = tx[c].pending /\ tx'[c].failed = tx[c].failed
      /\ tx'[c].saves = Append(tx[c].saves, s)
  BY <1>1, <1>2 DEF TxState
<1>4. said' = said
  BY DEF Saves
<1>5. s \in Savepoints
  <2>1. said[c] \in Said
    BY DEF TInv
  <2>2. QED
    BY <2>1, <1>2, SessionsAssumption DEF TxState, Said, Savepoints
<1>6. s.n = said[c].n /\ s.pending = said[c].acked
  BY DEF Open
<1> HIDE DEF s
<1>7. /\ Len(tx'[c].saves) = Len(tx[c].saves) + 1
      /\ tx'[c].saves[Len(tx[c].saves) + 1] = s
      /\ \A i \in 1 .. Len(tx[c].saves) : tx'[c].saves[i] = tx[c].saves[i]
  BY <1>3, <1>5, SavesIs
<1>8. said[c].acked = {m \in said[c].acked : m[2] <= said[c].n}
  BY SavesIs DEF Counts
<1>9. \A i \in 1 .. Len(tx'[c].saves) :
         i \in 1 .. Len(tx[c].saves) \/ i = Len(tx[c].saves) + 1
  BY <1>7, SavesIs
<1>10. QED
  BY <1>3, <1>4, <1>6, <1>7, <1>8, <1>9, SavesIs DEF Open, Counts

LEMMA RolledBackOpen ==
  ASSUME TInv, NEW c \in Clients, Counts(c), Open(c), NEW i \in 1 .. Len(tx[c].saves),
         RolledBackTo(c, i)
  PROVE  Counts(c)' /\ Open(c)'
<1>1. /\ tx[c] \in TxState /\ said[c] \in Said
      /\ tx \in [Clients -> TxState] /\ said \in [Clients -> Said]
  BY DEF TInv
<1>2. /\ tx'[c].failed = FALSE /\ tx'[c].pending = tx[c].saves[i].pending
      /\ tx'[c].saves = SubSeq(tx[c].saves, 1, i)
  BY <1>1 DEF RolledBackTo
<1>3. /\ said'[c].n = said[c].n
      /\ said'[c].acked = {m \in said[c].acked : m[2] <= tx[c].saves[i].n}
  BY <1>1 DEF Said, RolledBackTo
<1>4. /\ Len(tx'[c].saves) = i /\ i \in Nat
      /\ \A j \in 1 .. i : tx'[c].saves[j] = tx[c].saves[j] /\ j \in 1 .. Len(tx[c].saves)
  BY <1>2, SavesIs
<1>5. \A j \in 1 .. i : tx[c].saves[j].n <= tx[c].saves[i].n
  BY <1>4 DEF Open
<1>6. \A m \in said[c].acked : m[2] \in Nat
  BY SavesIs DEF Marks
<1>7. \A j \in 1 .. i :
        {m \in said[c].acked : m[2] <= tx[c].saves[j].n}
          = {m \in {l \in said[c].acked : l[2] <= tx[c].saves[i].n} : m[2] <= tx[c].saves[j].n}
  BY <1>4, <1>5, <1>6, SavesIs
<1>8. QED
  BY <1>2, <1>3, <1>4, <1>7 DEF Open, Counts

LEMMA ReleasedOpen ==
  ASSUME TInv, NEW c \in Clients, Counts(c), Open(c), NEW i \in 1 .. Len(tx[c].saves),
         Released(c, i)
  PROVE  Counts(c)' /\ Open(c)'
<1>1. tx[c] \in TxState /\ tx \in [Clients -> TxState]
  BY DEF TInv
<1>2. /\ tx'[c].failed = tx[c].failed /\ tx'[c].pending = tx[c].pending
      /\ tx'[c].saves = SubSeq(tx[c].saves, 1, i - 1) /\ said' = said
  BY <1>1 DEF Released, TxState
<1>3. /\ Len(tx'[c].saves) = i - 1 /\ i \in Nat
      /\ \A j \in 1 .. i - 1 : tx'[c].saves[j] = tx[c].saves[j] /\ j \in 1 .. Len(tx[c].saves)
  BY <1>2, SavesIs
<1>4. QED
  BY <1>2, <1>3 DEF Open, Counts

LEMMA WorksOpen ==
  ASSUME TInv, NEW c \in Clients, Counts(c), Open(c), Works(c)
  PROVE  Counts(c)' /\ Open(c)'
<1>1. CASE UNCHANGED vars
  BY <1>1 DEF vars, Counts, Open
<1>2. QED
  BY <1>1, ExecutesOpen, ReadsOpen, SavesOpen, RolledBackOpen, ReleasedOpen DEF Works

LEMMA OthersKeepTheirs ==
  ASSUME TInv, Flow, NEW c \in Clients, StepOf(c), NEW d \in Clients \ {c}
  PROVE  tx'[d] = tx[d] /\ said'[d] = said[d]
<1>1. tx \in [Clients -> TxState] /\ said \in [Clients -> Said]
  BY DEF TInv
<1>2. CASE Works(c)
  <2>1. CASE Executes(c) \/ Reads(c) \/ NoRowReturned(c) \/ UNCHANGED vars \/ Saves(c)
    BY <1>1, <2>1 DEF Executes, Reads, NoRowReturned, vars, Saves
  <2>2. ASSUME NEW i \in 1 .. Len(tx[c].saves), RolledBackTo(c, i) \/ Released(c, i)
        PROVE  tx'[d] = tx[d] /\ said'[d] = said[d]
    BY <1>1, <2>2 DEF RolledBackTo, Released
  <2>3. QED
    BY <1>2, <2>1, <2>2 DEF Works
<1>3. CASE pc[c] = "start" /\ Begun(c)
  BY <1>1, <1>3, BegunMoves
<1>4. CASE pc[c] = "open" /\ Ends(c)
  BY <1>4, EndsMoves
<1>5. CASE Loops(c) \/ Serves(c) \/ GivesUp(c)
  BY <1>5 DEF Loops, Serves, GivesUp
<1>6. QED
  BY <1>2, <1>3, <1>4, <1>5 DEF StepOf

\* how a transaction can end
LEMMA EndsIs ==
  ASSUME TInv, Transactions, NEW c \in Clients, pc[c] = "open", InTransaction(c), Ends(c)
  PROVE  /\ db' = db \/ db' = db \cup said[c].acked
         /\ answer'[c] = "ok" /\ ~said[c].troubled => db' = db \cup said[c].acked
<1>1. Open(c)
  BY DEF Transactions, TxInv
<1>2. answer \in [Clients -> Answers]
  BY DEF TInv
<1>3. CASE Commits(c)
  BY <1>1, <1>2, <1>3 DEF Commits, Return, Open
<1>4. CASE RollsBack(c)
  BY <1>2, <1>4 DEF RollsBack, Return
<1>5. QED
  BY <1>3, <1>4 DEF Ends

LEMMA DbGrows ==
  ASSUME TInv, Flow, Transactions, NEW c \in Clients, StepOf(c)
  PROVE  Grows(c)
<1>1. CASE pc[c] = "open" /\ InTransaction(c) /\ Ends(c)
  <2>1. \A m \in said[c].acked : m[1] = c
    BY <1>1 DEF Transactions, TxInv, Counts
  <2>2. QED
    BY <1>1, <2>1, EndsIs DEF Grows
<1>2. CASE (pc[c] = "start" /\ Begun(c)) \/ (pc[c] = "open" /\ Works(c))
  BY <1>2, BegunMoves, WorksMoves DEF Grows
<1>3. CASE Loops(c) \/ Serves(c) \/ GivesUp(c)
  BY <1>3 DEF Loops, Serves, GivesUp, Grows
<1>4. QED
  BY <1>1, <1>2, <1>3 DEF StepOf

LEMMA OthersWroteTheirs ==
  ASSUME TInv, Flow, Transactions, NEW c \in Clients, StepOf(c), NEW d \in Clients \ {c}
  PROVE  Written(d)' = Written(d)
BY DbGrows DEF Grows, Written

LEMMA TxStep ==
  ASSUME TInv, Flow, Transactions, NEW c \in Clients, StepOf(c), InTransaction(c)
  PROVE  TxInv(c)'
<1>1. TxInv(c)
  BY DEF Transactions
<1>2. CASE pc[c] = "start" /\ Begun(c)
  <2>1. /\ db' = db /\ said' = said /\ Written(c)' = Written(c)
        /\ Counts(c)' /\ Written(c) = {} /\ said[c] = Nothing
    BY <1>1, <1>2, BegunMoves DEF Written, TxInv, Counts
  <2>2. CASE pc'[c] = "open" /\ tx' = [tx EXCEPT ![c] = NewTx]
    <3>1. tx'[c] = NewTx
      BY <2>2 DEF TInv
    <3>2. Open(c)'
      BY <2>1, <3>1 DEF Open, NewTx, Nothing
    <3>3. QED
      BY <2>1, <2>2, <3>2 DEF TxInv
  <2>3. CASE pc'[c] = "done" /\ answer'[c] = "error"
    BY <2>1, <2>3 DEF TxInv
  <2>4. QED
    BY <1>2, <2>2, <2>3, BegunMoves
<1>3. CASE pc[c] = "open" /\ Works(c)
  <2>1. UNCHANGED <<pc, answer, db>> /\ Written(c)' = Written(c)
    BY <1>3, WorksMoves DEF Written
  <2>2. QED
    BY <1>1, <1>3, <2>1, WorksOpen DEF TxInv
<1>4. CASE pc[c] = "open" /\ Ends(c)
  <2>1. pc'[c] = "done" /\ said' = said /\ Counts(c)' /\ Written(c) = {}
    BY <1>1, <1>4, EndsMoves DEF TxInv, Counts
  <2>2. \A m \in said[c].acked : m[1] = c
    BY <1>1 DEF TxInv, Counts
  <2>3. db' = db \cup said[c].acked => Written(c)' = said[c].acked
    BY <2>1, <2>2 DEF Written
  <2>4. QED
    BY <1>4, <2>1, <2>3, EndsIs DEF TxInv
<1>5. CASE GivesUp(c)
  <2>1. /\ pc'[c] = "done" /\ answer'[c] = "error" /\ said' = said
        /\ Counts(c)'
    BY <1>1, <1>5 DEF GivesUp, TxInv, Counts
  <2>2. QED
    BY <2>1 DEF TxInv
<1>6. CASE Loops(c) \/ Serves(c)
  BY <1>6 DEF Loops, Serves
<1>7. QED
  BY <1>2, <1>3, <1>4, <1>5, <1>6 DEF StepOf

LEMMA TransactionsStep ==
  ASSUME TInv, Flow, Transactions, [Next]_vars
  PROVE  Transactions'
<1>1. ASSUME NEW c \in Clients, StepOf(c)
      PROVE  Transactions'
  <2>1. Moves(c)
    BY <1>1, StepMoves
  <2>2. ASSUME NEW d \in Clients \ {c}, InTransaction(d)
        PROVE  TxInv(d)'
    <3>1. TxInv(d)
      BY <2>2 DEF Transactions
    <3>2. /\ tx'[d] = tx[d] /\ said'[d] = said[d] /\ Written(d)' = Written(d)
          /\ pc'[d] = pc[d] /\ answer'[d] = answer[d]
      BY <1>1, <2>1, OthersKeepTheirs, OthersWroteTheirs DEF Moves
    <3>3. QED
      BY <3>1, <3>2 DEF TxInv, Counts, Open
  <2>3. InTransaction(c) => TxInv(c)'
    BY <1>1, TxStep
  <2>4. QED
    BY <2>1, <2>2, <2>3 DEF Transactions, InTransaction, Moves
<1>2. ASSUME NEW k \in Conns, Close(k)
      PROVE  Transactions'
  BY <1>2 DEF Close, Transactions, InTransaction, TxInv, Counts, Open, Written
<1>3. CASE UNCHANGED vars
  BY <1>3 DEF vars, Transactions, InTransaction, TxInv, Counts, Open, Written
<1>4. QED
  BY <1>1, <1>2, <1>3, NextIs

LEMMA TransactionsInit == Init => Transactions
<1> SUFFICES ASSUME Init, NEW c \in Clients PROVE TxInv(c)
  BY DEF Transactions
<1>1. said[c] = Nothing /\ pc[c] = "start" /\ db = {} /\ said[c].acked = {}
  BY DEF Init, Nothing
<1>2. QED
  BY <1>1 DEF TxInv, Counts, Written

\* what holds in every state
LEMMA Always == Spec => [](TInv /\ Flow /\ Transactions)
<1>1. Init => TInv /\ Flow /\ Transactions
  BY TInit, FlowInit, TransactionsInit
<1>2. TInv /\ Flow /\ Transactions /\ [Next]_vars => (TInv /\ Flow /\ Transactions)'
  BY TransactionsStep, NextIs, StepTypes, CloseTypes, StayTypes
<1>3. QED
  BY <1>1, <1>2, PTL DEF Spec

\* For any number of clients, pools, savepoints and statements: what a
\* transaction (transaction.rs, tx.rs) acknowledged and did not undo is exactly
\* what is in the database once its commit has answered Ok without trouble.
THEOREM CommittedIsDurable == Spec => []OkIsDurable
<1>1. TInv /\ Flow /\ Transactions => OkIsDurable
  BY DEF Flow, Transactions, TxInv, OkIsDurable
<1>2. QED
  BY <1>1, Always, PTL

-----------------------------------------------------------------------------
(* Transactions implement AtomicTx.                                        *)

Store == {m \in db : InTransaction(m[1])}
Work == [c \in Clients |-> IF InTransaction(c) THEN said[c].acked ELSE {}]
Over == {c \in Clients : InTransaction(c) /\ pc[c] = "done"}

AtomicStep == Atomic!Next \/ UNCHANGED <<Store, Work, Over>>

LEMMA StaysOpen ==
  ASSUME NEW c \in Clients, job' = job, pc' = pc, db' = db
  PROVE  UNCHANGED <<Store, Over>>
BY DEF Store, Over, InTransaction

LEMMA WorkOf ==
  ASSUME TInv, Flow, NEW c \in Clients, StepOf(c), InTransaction(c)
  PROVE  Work' = [Work EXCEPT ![c] = said'[c].acked]
<1>1. \A d \in Clients \ {c} : said'[d] = said[d]
  BY OthersKeepTheirs
<1>2. job' = job
  BY StepMoves DEF Moves
<1>3. QED
  BY <1>1, <1>2 DEF Work, InTransaction

LEMMA DoOrUndo ==
  ASSUME TInv, Flow, Transactions, NEW c \in Clients, pc[c] = "open", InTransaction(c),
         Works(c)
  PROVE  AtomicStep
<1>1. StepOf(c)
  BY DEF StepOf
<1>2. UNCHANGED <<Store, Over>>
  BY WorksMoves, StaysOpen DEF Moves
<1>3. Work' = [Work EXCEPT ![c] = said'[c].acked] /\ Work[c] = said[c].acked
  BY <1>1, WorkOf DEF Work
<1>4. c \notin Over
  BY DEF Over
<1>5. said[c] \in Said /\ said \in [Clients -> Said]
      /\ Counts(c) /\ Open(c) /\ MaxStatements \in Nat
  BY SessionsAssumption DEF TInv, Transactions, TxInv
<1>6. CASE said'[c].acked = said[c].acked
  <2>1. Work' = Work
    BY <1>3, <1>6 DEF Work
  <2>2. QED
    BY <1>2, <2>1 DEF AtomicStep
<1>7. CASE Executes(c) /\ said'[c].acked # said[c].acked
  <2>1. said'[c].acked = said[c].acked \cup {Mark(c)} /\ said[c].n < MaxStatements
    BY <1>5, <1>7 DEF Executes, Said
  <2>2. Mark(c) \in {c} \X (1 .. MaxStatements)
    BY <1>5, <2>1 DEF Mark, Said
  <2>3. Mark(c) \notin said[c].acked
    BY <1>5 DEF Mark, Counts, Said
  <2>4. Work' = [Work EXCEPT ![c] = @ \cup {Mark(c)}]
    BY <1>3, <2>1
  <2>5. Atomic!Do(c)
    BY <1>2, <1>3, <1>4, <2>2, <2>3, <2>4 DEF Atomic!Do, Atomic!Writes, Store, Work, Over
  <2>6. QED
    BY <2>5 DEF AtomicStep, Atomic!Next
<1>8. ASSUME NEW i \in 1 .. Len(tx[c].saves), RolledBackTo(c, i)
      PROVE  AtomicStep
  <2>1. said'[c].acked = {m \in said[c].acked : m[2] <= tx[c].saves[i].n}
    BY <1>5, <1>8 DEF RolledBackTo, Said
  <2>2. tx[c].saves[i].n \in 0 .. MaxStatements
    BY <1>5, SavesIs DEF Open, Said
  <2>3. Work' = [Work EXCEPT ![c] = {w \in @ : w[2] <= tx[c].saves[i].n}]
    BY <1>3, <2>1
  <2>4. Atomic!Undo(c)
    BY <1>2, <1>4, <2>2, <2>3 DEF Atomic!Undo, Store, Work, Over
  <2>5. QED
    BY <2>4 DEF AtomicStep, Atomic!Next
<1>9. CASE Reads(c) \/ NoRowReturned(c) \/ UNCHANGED vars \/ Saves(c)
  BY <1>5, <1>6, <1>9 DEF Reads, NoRowReturned, vars, Saves, Said
<1>10. ASSUME NEW i \in 1 .. Len(tx[c].saves), Released(c, i)
       PROVE  AtomicStep
  BY <1>6, <1>10 DEF Released
<1>11. QED
  BY <1>6, <1>7, <1>8, <1>9, <1>10 DEF Works

LEMMA CommitOrAbort ==
  ASSUME TInv, Flow, Transactions, NEW c \in Clients, StepOf(c), InTransaction(c),
         pc[c] # "done", pc'[c] = "done", said' = said,
         db' = db \/ db' = db \cup said[c].acked
  PROVE  AtomicStep
<1>1. job' = job /\ \A d \in Clients \ {c} : pc'[d] = pc[d]
  BY StepMoves DEF Moves
<1>2. Over' = Over \cup {c} /\ c \notin Over
  BY <1>1 DEF Over, InTransaction
<1>3. Work' = Work /\ Work[c] = said[c].acked
  BY <1>1 DEF Work, InTransaction
<1>4. CASE db' = db
  <2>1. Store' = Store
    BY <1>1, <1>4 DEF Store, InTransaction
  <2>2. Atomic!Abort(c)
    BY <1>2, <1>3, <2>1 DEF Atomic!Abort, Store, Work, Over
  <2>3. QED
    BY <2>2 DEF AtomicStep, Atomic!Next
<1>5. CASE db' = db \cup said[c].acked
  <2>1. \A m \in said[c].acked : m[1] = c
    BY DEF Transactions, TxInv, Counts
  <2>2. Store' = Store \cup said[c].acked
    BY <1>1, <1>5, <2>1 DEF Store, InTransaction
  <2>3. Atomic!Commit(c)
    BY <1>2, <1>3, <2>2 DEF Atomic!Commit, Store, Work, Over
  <2>4. QED
    BY <2>3 DEF AtomicStep, Atomic!Next
<1>6. QED
  BY <1>4, <1>5

\* a step of a client that makes no transaction
LEMMA NotSeen ==
  ASSUME TInv, Flow, Transactions, NEW c \in Clients, StepOf(c), ~InTransaction(c)
  PROVE  UNCHANGED <<Store, Work, Over>>
<1>1. job' = job /\ \A d \in Clients \ {c} : pc'[d] = pc[d]
  BY StepMoves DEF Moves
<1>2. Store' = Store
  BY <1>1, DbGrows DEF Grows, Store, InTransaction
<1>3. Over' = Over
  BY <1>1 DEF Over, InTransaction
<1>4. Work' = Work
  BY <1>1, OthersKeepTheirs DEF Work, InTransaction
<1>5. QED
  BY <1>2, <1>3, <1>4

LEMMA AtomicSteps ==
  ASSUME TInv, Flow, Transactions, [Next]_vars
  PROVE  AtomicStep
<1>1. ASSUME NEW c \in Clients, StepOf(c)
      PROVE  AtomicStep
  <2>1. CASE ~InTransaction(c)
    BY <1>1, <2>1, NotSeen DEF AtomicStep
  <2>2. CASE InTransaction(c) /\ pc[c] = "start" /\ Begun(c)
    <3>1. said' = said /\ db' = db
      BY <2>2, BegunMoves
    <3>2. CASE pc'[c] = "done"
      BY <1>1, <2>2, <3>1, <3>2, CommitOrAbort
    <3>3. CASE pc'[c] = "open"
      <4>1. job' = job /\ \A d \in Clients \ {c} : pc'[d] = pc[d]
        BY <1>1, StepMoves DEF Moves
      <4>2. Store' = Store /\ Work' = Work
        BY <3>1, <4>1 DEF Store, Work, InTransaction
      <4>3. Over' = Over
        BY <2>2, <3>3, <4>1 DEF Over, InTransaction
      <4>4. QED
        BY <4>2, <4>3 DEF AtomicStep
    <3>4. QED
      BY <2>2, <3>2, <3>3, BegunMoves
  <2>3. CASE InTransaction(c) /\ pc[c] = "open" /\ Works(c)
    BY <2>3, DoOrUndo
  <2>4. CASE InTransaction(c) /\ pc[c] = "open" /\ Ends(c)
    BY <1>1, <2>4, EndsMoves, EndsIs, CommitOrAbort
  <2>5. CASE InTransaction(c) /\ GivesUp(c)
    <3>1. pc[c] # "done" /\ pc'[c] = "done" /\ said' = said /\ db' = db
      BY <2>5 DEF GivesUp, Moves
    <3>2. QED
      BY <1>1, <2>5, <3>1, CommitOrAbort
  <2>6. CASE Loops(c) \/ Serves(c)
    BY <2>1, <2>6 DEF Loops, Serves
  <2>7. QED
    BY <1>1, <2>1, <2>2, <2>3, <2>4, <2>5, <2>6 DEF StepOf
<1>2. ASSUME NEW k \in Conns, Close(k)
      PROVE  AtomicStep
  BY <1>2 DEF Close, AtomicStep, Store, Work, Over, InTransaction
<1>3. CASE UNCHANGED vars
  BY <1>3 DEF vars, AtomicStep, Store, Work, Over, InTransaction
<1>4. QED
  BY <1>1, <1>2, <1>3, NextIs

\* Tx and TxCtx (transaction.rs, tx.rs) implement atomic transactions for any
\* number of clients, savepoints and statements: the database takes what a
\* transaction did and did not undo in one step, or nothing of it.
THEOREM TransactionsAreAtomic == Spec => CommitsAtOnce
<1>1. Init => Atomic!Init
  <2> SUFFICES ASSUME Init PROVE Atomic!Init
    OBVIOUS
  <2>1. db = {} /\ \A c \in Clients : said[c].acked = {} /\ pc[c] = "start"
    BY DEF Init, Nothing
  <2>2. QED
    BY <2>1 DEF Atomic!Init
<1>2. TInv /\ Flow /\ Transactions /\ [Next]_vars
        => [Atomic!Next]_<<Store, Work, Over>>
  BY AtomicSteps DEF AtomicStep
<1>3. QED
  BY <1>1, <1>2, Always, PTL DEF Spec, CommitsAtOnce, Atomic!Spec, Store, Work, Over

-----------------------------------------------------------------------------
(* A statement that is retried.                                            *)

ExecInv(c) ==
  /\ Written(c) \subseteq {<<c, 1>>}
  /\ pc[c] # "done" => Written(c) = {}
  /\ answer[c] = "ok" => Written(c) # {}

Execs == \A c \in Clients : job[c] = "exec" => ExecInv(c)

LEMMA ExecStepsAre ==
  ASSUME Flow, NEW c \in Clients, job[c] = "exec", ClientStep(c) \/ LockStatementFails(c)
  PROVE  ExecAttempt(c) \/ Wake(c) \/ PoolTimesOut(c)
<1>1. pc[c] \in {"start", "sleep", "done"} /\ ~InTransaction(c)
  BY DEF Flow, InTransaction
<1>2. ~Transaction(c)
  BY <1>1, TransactionIs
<1>3. ~Locking(c)
  BY <1>1 DEF Locking, Acquire, AcquireXact, TryAcquireXact, Unblocked, TryAcquire,
       AcquireTimeout, DeadlinePasses, Release
<1>4. ~LockStatementFails(c)
  BY <1>1 DEF LockStatementFails
<1>5. Retrying(c) => ExecAttempt(c) \/ Wake(c)
  BY <1>1 DEF Retrying, RetryBegin, RetryClosure, RetryCommit
<1>6. QED
  BY <1>2, <1>3, <1>4, <1>5 DEF ClientStep

LEMMA ExecAttempts ==
  ASSUME TInv, Flow, NEW c \in Clients, job[c] = "exec", ExecInv(c), ExecAttempt(c)
  PROVE  ExecInv(c)'
<1>1. PICK outcome \in OneStatement : Turned(c, outcome, attempt[c] + 1, Return(c, "ok"))
  BY DEF ExecAttempt
<1>2. Written(c) = {} /\ pc[c] = "start" /\ answer[c] = "none"
  BY DEF ExecAttempt, ExecInv, Flow
<1>3. Cardinality(Written(c)) + 1 = 1
  BY <1>2, FS_EmptySet
<1>4. db' = db \cup (IF outcome.wrote THEN {<<c, 1>>} ELSE {})
  BY <1>1, <1>3 DEF Turned
<1>5. Written(c)' = IF outcome.wrote THEN {<<c, 1>>} ELSE {}
  <2>1. <<c, 1>>[1] = c
    OBVIOUS
  <2>2. QED
    BY <1>2, <1>4, <2>1 DEF Written
<1>6. pc \in [Clients -> Labels] /\ answer \in [Clients -> Answers]
  BY DEF TInv
<1>7. CASE outcome.result = "ok"
  <2>1. outcome.wrote = TRUE
    BY <1>7 DEF OneStatement
  <2>2. pc'[c] = "done"
    BY <1>1, <1>6, <1>7 DEF Turned, Return, Goto, IsRetryable
  <2>3. QED
    BY <1>5, <2>1, <2>2 DEF ExecInv
<1>8. CASE outcome.result = "serialization"
  <2>1. outcome.wrote = FALSE
    BY <1>8 DEF OneStatement
  <2>2. answer'[c] # "ok"
    BY <1>1, <1>2, <1>6, <1>8 DEF Turned, Return, Goto
  <2>3. QED
    BY <1>5, <2>1, <2>2 DEF ExecInv
<1>9. CASE outcome.result \notin {"ok", "serialization"}
  <2>1. pc'[c] = "done" /\ answer'[c] = "error"
    BY <1>1, <1>6, <1>9 DEF Turned, Return, Goto, IsRetryable
  <2>2. QED
    BY <1>5, <2>1 DEF ExecInv
<1>10. QED
  BY <1>7, <1>8, <1>9

LEMMA ExecsStep ==
  ASSUME TInv, Flow, Transactions, Execs, [Next]_vars
  PROVE  Execs'
<1>1. ASSUME NEW c \in Clients, ClientStep(c) \/ LockStatementFails(c)
      PROVE  Execs'
  <2>1. StepOf(c) /\ Moves(c)
    BY <1>1, ClientSteps, StepMoves
  <2>2. ASSUME NEW d \in Clients \ {c}, job[d] = "exec"
        PROVE  ExecInv(d)'
    <3>1. Written(d)' = Written(d) /\ pc'[d] = pc[d] /\ answer'[d] = answer[d] /\ ExecInv(d)
      BY <2>1, <2>2, OthersWroteTheirs DEF Moves, Execs
    <3>2. QED
      BY <3>1 DEF ExecInv
  <2>3. ASSUME job[c] = "exec"
        PROVE  ExecInv(c)'
    <3>1. ExecInv(c)
      BY <2>3 DEF Execs
    <3>2. CASE ExecAttempt(c)
      BY <2>3, <3>1, <3>2, ExecAttempts
    <3>3. CASE Wake(c)
      <4>1. pc[c] # "done" /\ answer' = answer /\ db' = db
        BY <3>3 DEF Wake
      <4>2. answer[c] = "none" /\ Written(c)' = Written(c)
        BY <4>1 DEF Flow, Written
      <4>3. QED
        BY <3>1, <4>1, <4>2 DEF ExecInv
    <3>4. CASE PoolTimesOut(c)
      <4>1. pc'[c] = "done" /\ answer'[c] = "error" /\ db' = db
        BY <3>4 DEF PoolTimesOut, Return, Goto, TInv
      <4>2. QED
        BY <3>1, <4>1 DEF ExecInv, Written
    <3>5. QED
      BY <1>1, <2>3, <3>2, <3>3, <3>4, ExecStepsAre
  <2>4. QED
    BY <2>1, <2>2, <2>3 DEF Execs, Moves
<1>2. ASSUME NEW k \in Conns, Close(k)
      PROVE  Execs'
  BY <1>2 DEF Close, Execs, ExecInv, Written
<1>3. CASE UNCHANGED vars
  BY <1>3 DEF vars, Execs, ExecInv, Written
<1>4. QED
  BY <1>1, <1>2, <1>3 DEF Next

LEMMA ExecsInit == Init => Execs
BY DEF Init, Execs, ExecInv, Written

\* For any number of attempts and clients: execute_with_retry (executor.rs) of
\* one statement writes once when it answers Ok, and never twice.
THEOREM RetriedOnce == Spec => []ExecOnce
<1>1. TInv /\ Flow /\ Transactions /\ Execs /\ [Next]_vars => Execs'
  BY ExecsStep
<1>2. Execs => ExecOnce
  <2> SUFFICES ASSUME Execs, NEW c \in Clients, job[c] = "exec"
               PROVE  /\ Cardinality(Written(c)) <= 1
                      /\ answer[c] = "ok" => Written(c) # {}
                      /\ pc[c] \in {"start", "sleep"} => Written(c) = {}
    BY DEF ExecOnce
  <2>1. ExecInv(c)
    BY DEF Execs
  <2>2. Written(c) = {} \/ Written(c) = {<<c, 1>>}
    BY <2>1 DEF ExecInv
  <2>3. Cardinality({}) = 0 /\ Cardinality({<<c, 1>>}) = 1
    BY FS_EmptySet, FS_Singleton
  <2>4. QED
    BY <2>1, <2>2, <2>3 DEF ExecInv
<1>3. QED
  BY <1>1, <1>2, ExecsInit, Always, PTL DEF Spec

-----------------------------------------------------------------------------
(* Advisory locks.  The server counts how often a session has the lock;    *)
(* its depth is compared with the number of callers that believe they      *)
(* have it.                                                                *)

Holding == {c \in Clients : Holds(c)}
Alone(k) == \A j \in Conns : PoolOf[j] = PoolOf[k] => j = k
NoError(k) == \A c \in Clients : PoolOf[c] = PoolOf[k] => answer[c] # "error"

LockShape == lock.depth = 0 <=> lock.conn = NoConn

\* while no connection is closed nobody has the lock without the server
Excludes ==
  closes = 0 =>
     /\ \A c \in Holding : PoolOf[c] = PoolOf[lock.conn]
     /\ Cardinality(Holding) <= lock.depth

\* the only connection of a pool never has the lock oftener than its callers
Matches ==
  \A k \in Conns :
     lock.conn = k /\ Alone(k) /\ NoError(k)
       => lock.depth <= Cardinality(Holders(PoolOf[k]))

LockInv == LockShape /\ Excludes /\ Matches

LockStep(c) == Moves(c) /\ (Gets(c) \/ GivesBack(c) \/ Neither(c))

LEMMA StepLocks ==
  ASSUME TInv, Flow, NEW c \in Clients, StepOf(c)
  PROVE  LockStep(c)
<1>1. CASE (pc[c] = "start" /\ Begun(c)) \/ (pc[c] = "open" /\ (Works(c) \/ Ends(c)))
  BY <1>1, BegunMoves, WorksMoves, EndsMoves DEF LockStep, Neither
<1>2. CASE Loops(c) \/ Serves(c) \/ GivesUp(c)
  BY <1>2 DEF Loops, Serves, GivesUp, LockStep, Neither
<1>3. QED
  BY <1>1, <1>2 DEF StepOf

LEMMA HoldersFinite ==
  /\ IsFiniteSet(Holding) /\ Cardinality(Holding) \in Nat
  /\ \A p : IsFiniteSet(Holders(p)) /\ Cardinality(Holders(p)) \in Nat
<1>1. IsFiniteSet(Clients)
  BY SessionsAssumption
<1>2. Holding \in SUBSET Clients /\ \A p : Holders(p) \in SUBSET Clients
  BY DEF Holding, Holders
<1>3. IsFiniteSet(Holding) /\ \A p : IsFiniteSet(Holders(p))
  BY <1>1, <1>2, FS_Subset
<1>4. QED
  BY <1>3, FS_CardinalityType

\* the callers that have the lock after a step
LEMMA HoldersAfter ==
  ASSUME TInv, Flow, NEW c \in Clients, Moves(c)
  PROVE  /\ Holding' = IF pc'[c] = "locked" THEN Holding \cup {c} ELSE Holding \ {c}
         /\ \A p : Holders(p)' = IF pc'[c] = "locked" /\ PoolOf[c] = p
                                 THEN Holders(p) \cup {c} ELSE Holders(p) \ {c}
BY DEF Moves, Holding, Holders, Holds

LEMMA GetsIs ==
  ASSUME TInv, Flow, LockInv, NEW c \in Clients, Moves(c), Gets(c)
  PROVE  LockInv'
<1>1. PICK k \in Conns : PoolOf[k] = PoolOf[c] /\ CanLock(k) /\ Deeper(k)
  BY DEF Gets
<1>2. /\ lock'.conn = k /\ lock'.depth = lock.depth + 1 /\ lock.depth \in Nat
      /\ k # NoConn /\ closes' = closes /\ lock.conn \in Conns \cup {NoConn}
  BY <1>1, SessionsAssumption DEF Deeper, TInv, Moves
<1>3. LockShape'
  BY <1>2 DEF LockShape
<1>4. pc'[c] = "locked" /\ c \notin Holding /\ \A p : c \notin Holders(p)
  BY DEF Gets, Holding, Holders, Holds
<1>5. Holding' = Holding \cup {c} /\ Cardinality(Holding') = Cardinality(Holding) + 1
  BY <1>4, HoldersAfter, HoldersFinite, FS_AddElement
<1>6. /\ Holders(PoolOf[k])' = Holders(PoolOf[k]) \cup {c}
      /\ Cardinality(Holders(PoolOf[k])') = Cardinality(Holders(PoolOf[k])) + 1
  BY <1>1, <1>4, HoldersAfter, HoldersFinite, FS_AddElement
<1>7. Excludes'
  <2> SUFFICES ASSUME closes = 0
               PROVE  /\ \A d \in Holding' : PoolOf[d] = PoolOf[k]
                      /\ Cardinality(Holding') <= lock.depth + 1
    BY <1>2 DEF Excludes
  <2>1. Cardinality(Holding) <= lock.depth /\ Cardinality(Holding) \in Nat
    BY HoldersFinite DEF LockInv, Excludes
  <2>2. CASE lock.depth = 0
    <3>1. Cardinality(Holding) = 0
      BY <2>1, <2>2
    <3>2. Holding = {}
      BY <3>1, HoldersFinite, FS_EmptySet
    <3>3. QED
      BY <1>1, <1>2, <1>5, <2>1, <3>2
  <2>3. CASE lock.conn = k
    BY <1>1, <1>2, <1>5, <2>1, <2>3 DEF LockInv, Excludes
  <2>4. QED
    BY <1>1, <2>2, <2>3 DEF CanLock
<1>8. Matches'
  <2> SUFFICES ASSUME Alone(k), NoError(k)'
               PROVE  lock.depth + 1 <= Cardinality(Holders(PoolOf[k])')
    BY <1>2 DEF Matches, Alone
  <2>1. NoError(k)
    <3>1. answer[c] = "none"
      BY DEF Moves, Flow
    <3>2. QED
      BY <3>1 DEF NoError, Moves
  <2>2. Cardinality(Holders(PoolOf[k])) \in Nat
    BY HoldersFinite
  <2>3. lock.depth <= Cardinality(Holders(PoolOf[k]))
    BY <1>1, <1>2, <2>1, <2>2 DEF CanLock, LockInv, Matches
  <2>4. QED
    BY <1>2, <1>6, <2>2, <2>3
<1>9. QED
  BY <1>3, <1>7, <1>8 DEF LockInv

LEMMA GivesBackIs ==
  ASSUME TInv, Flow, LockInv, NEW c \in Clients, Moves(c), GivesBack(c)
  PROVE  LockInv'
<1>1. PICK k \in Conns : PoolOf[k] = PoolOf[c] /\ ReleasedBy(k)
  BY DEF GivesBack
<1>2. /\ lock.depth \in Nat /\ closes' = closes /\ k # NoConn
      /\ lock.conn \in Conns \cup {NoConn} /\ NoConn \notin Conns
  BY <1>1, SessionsAssumption DEF TInv, Moves
<1>3. c \in Holding /\ pc'[c] # "locked" /\ c \in Holders(PoolOf[c])
  BY DEF GivesBack, Holding, Holders, Holds
<1>4. Holding' = Holding \ {c} /\ Cardinality(Holding') = Cardinality(Holding) - 1
  BY <1>3, HoldersAfter, HoldersFinite, FS_RemoveElement
<1>5. /\ \A p : p # PoolOf[c] => Holders(p)' = Holders(p)
      /\ Holders(PoolOf[c])' = Holders(PoolOf[c]) \ {c}
      /\ Cardinality(Holders(PoolOf[c])') = Cardinality(Holders(PoolOf[c])) - 1
  <2>1. \A p : p # PoolOf[c] => c \notin Holders(p)
    BY DEF Holders
  <2>2. \A p : Holders(p)' = Holders(p) \ {c}
    BY <1>3, HoldersAfter
  <2>3. \A p : p # PoolOf[c] => Holders(p)' = Holders(p)
    BY <2>1, <2>2
  <2>4. IsFiniteSet(Holders(PoolOf[c]))
    BY HoldersFinite
  <2>5. Cardinality(Holders(PoolOf[c]) \ {c}) = Cardinality(Holders(PoolOf[c])) - 1
    BY <1>3, <2>4, FS_RemoveElement
  <2>6. QED
    BY <2>2, <2>3, <2>5
<1>6. \A j \in Conns : NoError(j)' => NoError(j)
  <2>1. answer[c] = "none"
    BY DEF Moves, Flow
  <2>2. QED
    BY <2>1 DEF NoError, Moves
<1>7. Cardinality(Holding) \in Nat /\ \A p : Cardinality(Holders(p)) \in Nat
  BY HoldersFinite
<1>8. CASE lock.conn # k
  <2>1. lock' = lock
    BY <1>1, <1>8 DEF ReleasedBy
  <2>2. Excludes'
    BY <1>2, <1>4, <1>7, <2>1 DEF LockInv, Excludes
  <2>3. ASSUME NEW j \in Conns, lock.conn = j, Alone(j), NoError(j)'
        PROVE  lock.depth <= Cardinality(Holders(PoolOf[j])')
    <3>1. PoolOf[j] # PoolOf[c]
      BY <1>1, <1>8, <2>3 DEF Alone
    <3>2. QED
      BY <1>5, <1>6, <2>3, <3>1 DEF LockInv, Matches
  <2>4. QED
    BY <2>1, <2>2, <2>3 DEF LockInv, LockShape, Matches, Alone
<1>9. CASE lock.conn = k /\ lock.depth > 1
  <2>1. lock'.conn = k /\ lock'.depth = lock.depth - 1
    BY <1>1, <1>9 DEF ReleasedBy, TInv
  <2>2. Excludes'
    BY <1>2, <1>4, <1>7, <1>9, <2>1 DEF LockInv, Excludes
  <2>3. Matches'
    <3> SUFFICES ASSUME Alone(k), NoError(k)'
                 PROVE  lock.depth - 1 <= Cardinality(Holders(PoolOf[k])')
      BY <2>1 DEF Matches, Alone
    <3>1. lock.depth <= Cardinality(Holders(PoolOf[k]))
      BY <1>6, <1>9 DEF LockInv, Matches
    <3>2. QED
      BY <1>1, <1>2, <1>5, <1>7, <3>1
  <2>4. LockShape'
    BY <1>2, <1>9, <2>1 DEF LockShape
  <2>5. QED
    BY <2>2, <2>3, <2>4 DEF LockInv
<1>10. CASE lock.conn = k /\ ~(lock.depth > 1)
  <2>1. lock' = NoLock /\ lock.depth <= 1
    BY <1>1, <1>2, <1>10 DEF ReleasedBy
  <2>2. lock'.conn = NoConn /\ lock'.depth = 0
    BY <2>1 DEF NoLock
  <2>3. closes = 0 => Holding' = {}
    <3>1. SUFFICES ASSUME closes = 0 PROVE Holding' = {}
      OBVIOUS
    <3>2. Cardinality(Holding) <= 1
      BY <1>2, <1>7, <2>1, <3>1 DEF LockInv, Excludes
    <3>3. IsFiniteSet(Holding') /\ Cardinality(Holding') \in Nat
      BY <1>4, HoldersFinite, FS_RemoveElement, FS_CardinalityType
    <3>4. Cardinality(Holding') = 0
      BY <1>4, <1>7, <3>2, <3>3
    <3>5. QED
      BY <3>3, <3>4, FS_EmptySet
  <2>4. Excludes'
    BY <1>2, <2>2, <2>3, FS_EmptySet DEF Excludes
  <2>5. QED
    BY <1>2, <2>2, <2>4 DEF LockInv, LockShape, Matches
<1>11. QED
  BY <1>8, <1>9, <1>10

LEMMA NeitherIs ==
  ASSUME TInv, Flow, LockInv, NEW c \in Clients, Moves(c), Neither(c)
  PROVE  LockInv'
<1>1. lock' = lock /\ pc'[c] # "locked" /\ closes' = closes /\ lock.depth \in Nat
  BY DEF Neither, Moves, TInv
<1>2. Holding' = Holding \ {c} /\ \A p : Holders(p)' = Holders(p) \ {c}
  BY <1>1, HoldersAfter
<1>3. Cardinality(Holding') <= Cardinality(Holding) /\ Cardinality(Holding') \in Nat
      /\ Cardinality(Holding) \in Nat
  <2>1. IsFiniteSet(Holding) /\ Cardinality(Holding) \in Nat
    BY HoldersFinite
  <2>2. Holding' \in SUBSET Holding
    BY <1>2
  <2>3. IsFiniteSet(Holding') /\ Cardinality(Holding') <= Cardinality(Holding)
    BY <2>1, <2>2, FS_Subset
  <2>4. QED
    BY <2>1, <2>3, FS_CardinalityType
<1>4. Excludes'
  BY <1>1, <1>2, <1>3 DEF LockInv, Excludes
<1>5. ASSUME NEW k \in Conns, lock.conn = k, Alone(k), NoError(k)'
      PROVE  lock.depth <= Cardinality(Holders(PoolOf[k])')
  <2>1. c \notin Holders(PoolOf[k])
    BY <1>5 DEF Neither, Holders, Holds, NoError
  <2>2. Holders(PoolOf[k])' = Holders(PoolOf[k])
    BY <1>2, <2>1
  <2>3. NoError(k)
    <3>1. answer[c] = "none"
      BY DEF Moves, Flow
    <3>2. QED
      BY <1>5, <3>1 DEF NoError, Moves
  <2>4. QED
    BY <1>5, <2>2, <2>3 DEF LockInv, Matches
<1>6. QED
  BY <1>1, <1>4, <1>5 DEF LockInv, LockShape, Matches, Alone

LEMMA CloseIs ==
  ASSUME TInv, Flow, LockInv, NEW k \in Conns, Close(k)
  PROVE  LockInv'
<1>1. UNCHANGED <<pc, answer>> /\ closes' = closes + 1 /\ lock' \in {lock, NoLock}
      /\ closes \in Nat
  BY DEF Close, TInv
<1>2. Excludes'
  BY <1>1 DEF Excludes
<1>3. CASE lock' = lock
  BY <1>1, <1>2, <1>3 DEF LockInv, LockShape, Matches, Alone, NoError, Holders, Holds
<1>4. CASE lock' = NoLock
  BY <1>2, <1>4, SessionsAssumption DEF LockInv, LockShape, Matches, NoLock
<1>5. QED
  BY <1>1, <1>3, <1>4

LEMMA LockInvStep ==
  ASSUME TInv, Flow, LockInv, [Next]_vars
  PROVE  LockInv'
<1>1. ASSUME NEW c \in Clients, StepOf(c)
      PROVE  LockInv'
  BY <1>1, StepLocks, GetsIs, GivesBackIs, NeitherIs DEF LockStep
<1>2. CASE UNCHANGED vars
  BY <1>2 DEF vars, LockInv, LockShape, Excludes, Matches, Alone, NoError, Holding,
     Holders, Holds
<1>3. QED
  BY <1>1, <1>2, NextIs, CloseIs

LEMMA LockInvInit == Init => LockInv
<1> SUFFICES ASSUME Init PROVE LockInv
  OBVIOUS
<1>1. lock.conn = NoConn /\ lock.depth = 0 /\ \A c \in Clients : pc[c] = "start"
  BY DEF Init, NoLock
<1>2. Holding = {}
  BY <1>1 DEF Holding, Holds
<1>3. QED
  BY <1>1, <1>2, FS_EmptySet, SessionsAssumption DEF LockInv, LockShape, Excludes, Matches

LEMMA LocksAlways == Spec => [](TInv /\ Flow /\ LockInv)
<1>1. Init => TInv /\ Flow /\ LockInv
  BY TInit, FlowInit, LockInvInit
<1>2. TInv /\ Flow /\ LockInv /\ [Next]_vars => (TInv /\ Flow /\ LockInv)'
  BY LockInvStep, NextIs, StepTypes, CloseTypes, StayTypes
<1>3. QED
  BY <1>1, <1>2, PTL DEF Spec

\* For any number of callers, pools and connections: as long as no connection
\* is closed, the callers that LockService (lock.rs) has told they have the lock
\* are all of one pool.
THEOREM ExcludesPools == Spec => []LockBetweenPools
<1>1. LockInv => LockBetweenPools
  BY DEF LockInv, Excludes, LockBetweenPools, Holding
<1>2. QED
  BY <1>1, LocksAlways, PTL

\* For any number of callers: the only connection of a pool has the lock only
\* while a caller of that pool has it, unless one of them was answered with an
\* error.
THEOREM LeaksNeedChoice == Spec => []LeakNeedsChoice
<1>1. TInv /\ LockInv => LeakNeedsChoice
  <2> SUFFICES ASSUME TInv, LockInv, NEW k \in Conns, lock.conn = k, Alone(k), NoError(k)
               PROVE  Holders(PoolOf[k]) # {}
    BY DEF LeakNeedsChoice, Alone, NoError
  <2>1. lock.depth # 0 /\ lock.depth \in Nat
    BY SessionsAssumption DEF LockInv, LockShape, TInv
  <2>2. lock.depth <= Cardinality(Holders(PoolOf[k]))
    BY DEF LockInv, Matches
  <2>3. Cardinality(Holders(PoolOf[k])) # 0
    BY <2>1, <2>2, HoldersFinite
  <2>4. QED
    BY <2>3, FS_EmptySet
<1>2. QED
  BY <1>1, LocksAlways, PTL

-----------------------------------------------------------------------------
(* The pauses of the retry loops.                                          *)

\* a set of n members has 2^n subsets, and a larger one no fewer
LEMMA Powers ==
  ASSUME NEW n \in Nat
  PROVE  2 ^ n \in Nat \ {0}
<1>1. IsFiniteSet(1 .. n) /\ Cardinality(1 .. n) = n
  BY FS_Interval
<1>2. 2 ^ n = Cardinality(SUBSET (1 .. n)) /\ IsFiniteSet(SUBSET (1 .. n))
  BY <1>1, FS_SUBSET
<1>3. SUBSET (1 .. n) # {}
  OBVIOUS
<1>4. QED
  BY <1>2, <1>3, FS_CardinalityType, FS_EmptySet

LEMMA PowersGrow ==
  ASSUME NEW n \in Nat, NEW m \in Nat, n <= m
  PROVE  2 ^ n <= 2 ^ m
<1>1. /\ IsFiniteSet(1 .. n) /\ Cardinality(1 .. n) = n
      /\ IsFiniteSet(1 .. m) /\ Cardinality(1 .. m) = m
  BY FS_Interval
<1>2. /\ 2 ^ n = Cardinality(SUBSET (1 .. n))
      /\ 2 ^ m = Cardinality(SUBSET (1 .. m)) /\ IsFiniteSet(SUBSET (1 .. m))
  BY <1>1, FS_SUBSET
<1>3. SUBSET (1 .. n) \in SUBSET (SUBSET (1 .. m))
  <2>1. 1 .. n \subseteq 1 .. m
    OBVIOUS
  <2>2. QED
    BY <2>1
<1>4. Cardinality(SUBSET (1 .. n)) <= Cardinality(SUBSET (1 .. m))
  BY <1>2, <1>3, FS_Subset
<1>5. QED
  BY <1>2, <1>4

\* saturating below a limit keeps the order
LEMMA CappedGrows ==
  ASSUME NEW p \in Nat, NEW q \in Nat, p <= q, NEW limit \in Nat, NEW cap \in Nat
  PROVE  LET x == IF p < limit THEN p ELSE limit - 1
             y == IF q < limit THEN q ELSE limit - 1
         IN  (IF x < cap THEN x ELSE cap) <= (IF y < cap THEN y ELSE cap)
OBVIOUS

LEMMA ProductsGrow ==
  ASSUME NEW b \in Nat, NEW p \in Nat, NEW q \in Nat, p <= q
  PROVE  b * p \in Nat /\ b * q \in Nat /\ b * p <= b * q
<1>1. PICK d \in Nat : q = p + d
  <2>1. q - p \in Nat /\ q = p + (q - p)
    OBVIOUS
  <2>2. QED
    BY <2>1
<1>2. b * p \in Nat /\ b * d \in Nat
  OBVIOUS
<1>3. b * (p + d) = b * p + b * d
  OBVIOUS
<1>4. QED
  BY <1>1, <1>2, <1>3

LEMMA DelayIs ==
  ASSUME NEW n \in 1 .. Bits
  PROVE  Delay(n) = LET product == IF BaseDelay * 2 ^ (n - 1) < 2 ^ Bits
                                   THEN BaseDelay * 2 ^ (n - 1)
                                   ELSE 2 ^ Bits - 1
                    IN  IF product < MaxDelay THEN product ELSE MaxDelay
<1>1. Bits \in Nat /\ n - 1 < Bits
  BY SessionsAssumption
<1>2. QED
  BY <1>1 DEF Delay

LEMMA DelaysGrow ==
  ASSUME NEW n \in 1 .. Bits, NEW m \in 1 .. Bits, n <= m
  PROVE  Delay(n) <= Delay(m)
<1>1. n - 1 \in Nat /\ m - 1 \in Nat /\ n - 1 <= m - 1 /\ Bits \in Nat
      /\ BaseDelay \in Nat /\ MaxDelay \in Nat
  BY SessionsAssumption
<1>2. /\ 2 ^ (n - 1) \in Nat /\ 2 ^ (m - 1) \in Nat /\ 2 ^ Bits \in Nat
      /\ 2 ^ (n - 1) <= 2 ^ (m - 1)
  BY <1>1, Powers, PowersGrow
<1>3. /\ BaseDelay * 2 ^ (n - 1) \in Nat /\ BaseDelay * 2 ^ (m - 1) \in Nat
      /\ BaseDelay * 2 ^ (n - 1) <= BaseDelay * 2 ^ (m - 1)
  BY <1>1, <1>2, ProductsGrow
<1>4. QED
  BY <1>1, <1>2, <1>3, CappedGrows, DelayIs

\* a pause is never negative nor longer than the cap, however often it is tried
LEMMA DelayType ==
  ASSUME NEW n \in Nat \ {0}
  PROVE  Delay(n) \in 0 .. MaxDelay
<1> DEFINE power == IF n - 1 < Bits THEN 2 ^ (n - 1) ELSE 0
           product == IF BaseDelay * power < 2 ^ Bits THEN BaseDelay * power
                      ELSE 2 ^ Bits - 1
<1>1. n - 1 \in Nat /\ Bits \in Nat /\ BaseDelay \in Nat /\ MaxDelay \in Nat
  BY SessionsAssumption
<1>2. power \in Nat /\ 2 ^ Bits \in Nat \ {0}
  BY <1>1, Powers
<1>3. BaseDelay * power \in Nat
  BY <1>1, <1>2, ProductsGrow
<1>4. product \in Nat
  BY <1>2, <1>3
<1>5. Delay(n) = IF product < MaxDelay THEN product ELSE MaxDelay
  BY DEF Delay
<1>6. QED
  BY <1>1, <1>4, <1>5

\* the pause of a loop is that of an attempt it has made
Paced(c) ==
  /\ pc[c] = "asked" => attempt[c] >= 1
  /\ delay[c] = 0 \/ \E n \in 1 .. attempt[c] : delay[c] = Delay(n)

Pauses ==
  /\ attempt \in [Clients -> Nat] /\ delay \in [Clients -> 0 .. MaxDelay]
  /\ \A c \in Clients : Paced(c)

\* a step that is none of the retry loops'
Quiet(c) ==
  /\ UNCHANGED <<attempt, delay>>
  /\ pc'[c] = "asked" => pc[c] = "asked"

LEMMA LockingQuiet ==
  ASSUME TInv, NEW c \in Clients, Locking(c) \/ LockStatementFails(c)
  PROVE  Quiet(c)
<1>1. UNCHANGED <<attempt, delay>>
  BY DEF Locking, Acquire, AcquireXact, TryAcquireXact, Unblocked, TryAcquire,
     AcquireTimeout, DeadlinePasses, Release, LockStatementFails, Keep, others
<1>2. \/ \E l \in {"done", "locked", "blocked"} : Goto(c, l)
      \/ pc' = pc
  BY DEF Locking, Acquire, AcquireXact, TryAcquireXact, Unblocked, TryAcquire,
     AcquireTimeout, DeadlinePasses, Release, LockStatementFails, Tries, Return, Has, Waits
<1>3. QED
  BY <1>1, <1>2 DEF Quiet, Goto, TInv

LEMMA TransactionQuiet ==
  ASSUME TInv, NEW c \in Clients, Transaction(c)
  PROVE  Quiet(c)
<1>1. CASE pc[c] = "start" /\ Begun(c)
  <2>1. UNCHANGED <<attempt, delay>>
    BY <1>1 DEF Begun, others
  <2>2. QED
    BY <1>1, <2>1, BegunMoves DEF Quiet
<1>2. CASE pc[c] = "open" /\ Works(c)
  <2>1. CASE Executes(c) \/ Reads(c) \/ NoRowReturned(c) \/ Saves(c)
    BY <1>2, <2>1, WorksMoves DEF Executes, Reads, NoRowReturned, Saves, others, Quiet
  <2>2. CASE UNCHANGED vars
    BY <2>2 DEF vars, Quiet
  <2>3. ASSUME NEW i \in 1 .. Len(tx[c].saves), RolledBackTo(c, i) \/ Released(c, i)
        PROVE  Quiet(c)
    BY <1>2, <2>3, WorksMoves DEF RolledBackTo, Released, others, Quiet
  <2>4. QED
    BY <1>2, <2>1, <2>2, <2>3 DEF Works
<1>3. CASE pc[c] = "open" /\ Ends(c)
  <2>1. UNCHANGED <<attempt, delay>>
    BY <1>3 DEF Ends, Commits, RollsBack, others
  <2>2. QED
    BY <1>3, <2>1, EndsMoves DEF Quiet
<1>4. QED
  BY <1>1, <1>2, <1>3, TransactionIs

LEMMA PausingSteps ==
  ASSUME TInv, Flow, NEW c \in Clients, ClientStep(c) \/ LockStatementFails(c)
  PROVE  RetryBegin(c) \/ RetryClosure(c) \/ ExecAttempt(c) \/ Quiet(c)
<1>1. CASE RetryCommit(c) \/ Wake(c) \/ PoolTimesOut(c)
  <2>1. UNCHANGED <<attempt, delay>>
    BY <1>1 DEF RetryCommit, Wake, PoolTimesOut, others
  <2>2. pc'[c] # "asked"
    BY <1>1 DEF RetryCommit, Wake, PoolTimesOut, Return, Goto, TInv
  <2>3. QED
    BY <2>1, <2>2 DEF Quiet
<1>2. QED
  BY <1>1, LockingQuiet, TransactionQuiet DEF ClientStep, Retrying

\* what a step does to the counter and the pause of its client
Paces(c) ==
  /\ \/ Quiet(c)
     \/ RetryBegin(c) /\ attempt' = [attempt EXCEPT ![c] = @ + 1] /\ delay' = delay
     \/ /\ \/ attempt' = attempt /\ pc[c] = "asked"
           \/ attempt' = [attempt EXCEPT ![c] = @ + 1] /\ pc'[c] # "asked"
        /\ delay' = delay \/ delay' = [delay EXCEPT ![c] = Delay(attempt'[c])]

LEMMA StepPaces ==
  ASSUME TInv, Flow, attempt \in [Clients -> Nat],
         NEW c \in Clients, ClientStep(c) \/ LockStatementFails(c)
  PROVE  Paces(c)
<1>1. CASE RetryBegin(c)
  BY <1>1 DEF Paces, RetryBegin, Counted
<1>2. CASE RetryClosure(c)
  <2>1. PICK outcome \in SeveralStatements :
          Turned(c, outcome, attempt[c], Goto(c, "commit") /\ UNCHANGED <<at, answer>>)
    BY <1>2 DEF RetryClosure
  <2>2. attempt' = attempt /\ pc[c] = "asked"
    BY <1>2 DEF RetryClosure
  <2>3. delay' = delay \/ delay' = [delay EXCEPT ![c] = Delay(attempt[c])]
    BY <2>1 DEF Turned
  <2>4. QED
    BY <2>2, <2>3 DEF Paces
<1>3. CASE ExecAttempt(c)
  <2>1. PICK outcome \in SeveralStatements \cup OneStatement :
          Turned(c, outcome, attempt[c] + 1, Return(c, "ok"))
    BY <1>3 DEF ExecAttempt
  <2>2. attempt' = [attempt EXCEPT ![c] = @ + 1] /\ attempt'[c] = attempt[c] + 1
    BY <1>3 DEF ExecAttempt, Counted
  <2>3. pc'[c] # "asked"
    BY <2>1 DEF Turned, Return, Goto, TInv
  <2>4. delay' = delay \/ delay' = [delay EXCEPT ![c] = Delay(attempt[c] + 1)]
    BY <2>1 DEF Turned
  <2>5. QED
    BY <2>2, <2>3, <2>4 DEF Paces
<1>4. CASE Quiet(c)
  BY <1>4 DEF Paces
<1>5. QED
  BY <1>1, <1>2, <1>3, <1>4, PausingSteps

\* the pause of an attempt is at least that of the attempts before it
LEMMA PauseGrows ==
  ASSUME Pauses, NEW c \in Clients, NEW n \in Nat \ {0}, attempt[c] <= n, n <= Bits
  PROVE  delay[c] <= Delay(n)
<1>1. attempt[c] \in Nat /\ Delay(n) \in 0 .. MaxDelay /\ Bits \in Nat /\ MaxDelay \in Nat
  BY DelayType, SessionsAssumption DEF Pauses
<1>2. CASE delay[c] = 0
  BY <1>1, <1>2
<1>3. ASSUME NEW m \in 1 .. attempt[c], delay[c] = Delay(m)
      PROVE  delay[c] <= Delay(n)
  <2>1. m \in 1 .. Bits /\ n \in 1 .. Bits /\ m <= n
    BY <1>1
  <2>2. QED
    BY <1>3, <2>1, DelaysGrow
<1>4. QED
  BY <1>2, <1>3 DEF Pauses, Paced

LEMMA PaceKeeps ==
  ASSUME TInv, Pauses, NEW c \in Clients, Moves(c), Paces(c)
  PROVE  /\ Pauses'
         /\ \A d \in Clients : attempt'[d] <= Bits =>
               delay[d] <= delay'[d] /\ delay'[d] <= MaxDelay
<1>1. /\ attempt \in [Clients -> Nat] /\ delay \in [Clients -> 0 .. MaxDelay]
      /\ MaxDelay \in Nat /\ Bits \in Nat
  BY SessionsAssumption DEF Pauses
<1>2. /\ attempt' \in [Clients -> Nat] /\ attempt[c] <= attempt'[c]
      /\ \A d \in Clients \ {c} : attempt'[d] = attempt[d]
      /\ pc'[c] = "asked" => attempt'[c] >= 1
      /\ delay' # delay => attempt'[c] >= 1
  <2>1. pc[c] = "asked" => attempt[c] >= 1
    BY DEF Pauses, Paced
  <2>2. CASE Quiet(c)
    BY <1>1, <2>1, <2>2 DEF Quiet
  <2>3. CASE attempt' = [attempt EXCEPT ![c] = @ + 1]
    BY <1>1, <2>3
  <2>4. CASE attempt' = attempt /\ pc[c] = "asked"
    BY <1>1, <2>1, <2>4
  <2>5. QED
    BY <2>2, <2>3, <2>4 DEF Paces
<1>3. \/ delay' = delay
      \/ delay' = [delay EXCEPT ![c] = Delay(attempt'[c])] /\ attempt'[c] \in Nat \ {0}
  BY <1>1, <1>2 DEF Paces, Quiet
<1>4. /\ delay' \in [Clients -> 0 .. MaxDelay]
      /\ \A d \in Clients \ {c} : delay'[d] = delay[d]
      /\ \/ delay'[c] = delay[c]
         \/ attempt'[c] >= 1 /\ delay'[c] = Delay(attempt'[c])
  <2>1. CASE delay' = delay
    <3>1. \A d \in Clients : delay'[d] = delay[d]
      BY <2>1
    <3>2. delay' \in [Clients -> 0 .. MaxDelay]
      BY <1>1, <2>1
    <3>3. QED
      BY <3>1, <3>2
  <2>2. CASE /\ delay' = [delay EXCEPT ![c] = Delay(attempt'[c])]
             /\ attempt'[c] \in Nat \ {0}
    <3>1. Delay(attempt'[c]) \in 0 .. MaxDelay
      BY <2>2, DelayType
    <3>2. QED
      BY <1>1, <2>2, <3>1
  <2>3. QED
    BY <1>3, <2>1, <2>2
<1>5. Paced(c)'
  <2>1. CASE delay'[c] = delay[c]
    <3>1. 1 .. attempt[c] \subseteq 1 .. attempt'[c]
      BY <1>1, <1>2
    <3>2. QED
      BY <1>2, <2>1, <3>1 DEF Pauses, Paced
  <2>2. CASE attempt'[c] >= 1 /\ delay'[c] = Delay(attempt'[c])
    <3>1. attempt'[c] \in 1 .. attempt'[c]
      BY <1>2, <2>2
    <3>2. QED
      BY <1>2, <2>2, <3>1 DEF Paced
  <2>3. QED
    BY <1>4, <2>1, <2>2
<1>6. ASSUME NEW d \in Clients \ {c}
      PROVE  Paced(d)'
  BY <1>2, <1>4 DEF Pauses, Paced, Moves
<1>7. ASSUME attempt'[c] <= Bits
      PROVE  delay[c] <= delay'[c]
  <2>1. CASE delay'[c] = delay[c]
    BY <1>1, <2>1
  <2>2. CASE attempt'[c] >= 1 /\ delay'[c] = Delay(attempt'[c])
    BY <1>2, <1>7, <2>2, PauseGrows
  <2>3. QED
    BY <1>4, <2>1, <2>2
<1>8. ASSUME NEW d \in Clients, attempt'[d] <= Bits
      PROVE  delay[d] <= delay'[d] /\ delay'[d] <= MaxDelay
  BY <1>1, <1>4, <1>7, <1>8
<1>9. QED
  BY <1>2, <1>4, <1>5, <1>6, <1>8 DEF Pauses

LEMMA PausesStep ==
  ASSUME TInv, Flow, Pauses, [Next]_vars
  PROVE  /\ Pauses'
         /\ \A c \in Clients : attempt'[c] <= Bits =>
               delay[c] <= delay'[c] /\ delay'[c] <= MaxDelay
<1>1. ASSUME NEW c \in Clients, ClientStep(c) \/ LockStatementFails(c)
      PROVE  /\ Pauses'
             /\ \A d \in Clients : attempt'[d] <= Bits =>
                   delay[d] <= delay'[d] /\ delay'[d] <= MaxDelay
  <2>1. Moves(c)
    BY <1>1, ClientSteps, StepMoves
  <2>2. Paces(c)
    BY <1>1, StepPaces DEF Pauses
  <2>3. QED
    BY <2>1, <2>2, PaceKeeps
<1>2. ASSUME UNCHANGED <<pc, attempt, delay>>
      PROVE  /\ Pauses'
             /\ \A d \in Clients : attempt'[d] <= Bits =>
                   delay[d] <= delay'[d] /\ delay'[d] <= MaxDelay
  BY <1>2, SessionsAssumption DEF Pauses, Paced
<1>3. CASE UNCHANGED vars \/ \E k \in Conns : Close(k)
  BY <1>2, <1>3 DEF vars, Close
<1>4. QED
  BY <1>1, <1>3 DEF Next

LEMMA PausesInit == Init => Pauses
BY SessionsAssumption DEF Init, Pauses, Paced

\* For any number of attempts and any base and cap of the delay: the pauses of
\* run_with_retry and execute_with_retry (executor.rs) never get shorter and
\* never exceed the cap, as long as the power of two fits into a word.
THEOREM PausesGrow == Spec => BacksOff
<1>1. TInv /\ Flow /\ Pauses /\ [Next]_vars
        => /\ Pauses'
           /\ [\A c \in Clients : attempt'[c] <= Bits =>
                  delay[c] <= delay'[c] /\ delay'[c] <= MaxDelay]_vars
  BY PausesStep
<1>2. Spec => [](TInv /\ Flow)
  BY Always, PTL
<1>3. QED
  BY <1>1, <1>2, PausesInit, PTL DEF Spec, BacksOff

=============================================================================

