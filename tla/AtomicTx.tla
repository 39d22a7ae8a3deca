------------------------------ MODULE AtomicTx ------------------------------
(* What a transaction promises: whatever its statements did and undid, the *)
(* store takes the rest in one step, or nothing of it.                     *)
EXTENDS Integers

CONSTANTS
    Txs,      \* transactions
    MaxWork   \* statements of a transaction

VARIABLES
    store,    \* committed writes
    work,     \* work[t]: what t has written and not undone
    over      \* transactions that have ended

Writes(t) == {t} \X (1 .. MaxWork)

Init ==
    /\ store = {}
    /\ work = [t \in Txs |-> {}]
    /\ over = {}

Do(t) ==
    /\ t \notin over
    /\ \E w \in Writes(t) \ work[t] : work' = [work EXCEPT ![t] = @ \cup {w}]
    /\ UNCHANGED <<store, over>>

\* only the latest writes can be undone
Undo(t) ==
    /\ t \notin over
    /\ \E n \in 0 .. MaxWork :
          work' = [work EXCEPT ![t] = {w \in @ : w[2] <= n}]
    /\ UNCHANGED <<store, over>>

Commit(t) ==
    /\ t \notin over
    /\ store' = store \cup work[t]
    /\ over' = over \cup {t}
    /\ UNCHANGED work

Abort(t) ==
    /\ t \notin over
    /\ over' = over \cup {t}
    /\ UNCHANGED <<store, work>>

Next == \E t \in Txs : Do(t) \/ Undo(t) \/ Commit(t) \/ Abort(t)

Spec == Init /\ [][Next]_<<store, work, over>>

=============================================================================
