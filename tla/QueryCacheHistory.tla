-------------------------- MODULE QueryCacheHistory --------------------------
(***************************************************************************)
(* QueryCache with two history variables that name the one race by which a *)
(* write that invalidates its table still leaves a stale entry behind: a   *)
(* sweep passes a key between the moment a loader's query took its         *)
(* snapshot and the moment the loader puts the rows.  invalidate_table     *)
(* never looks at IN_FLIGHT, so the loader cannot know.                    *)
(***************************************************************************)
EXTENDS QueryCache

VARIABLES
    raced,    \* callers whose loader's snapshot predates a sweep of the key
    tainted   \* keys whose entry was put by such a loader

histVars == <<raced, tainted>>

InitH == Init /\ raced = {} /\ tainted = {}

\* the keys a sweep visits in this step
Swept == {k \in Keys : \E w \in Writers : wpc[w] = "sweeping" /\ k \in todo[w] \ todo'[w]}

\* the loaders that hold rows of a swept key and have not put them yet
Outrun == {c \in Callers : pc[c] = "answered" /\ key[c] \in Swept}

PutBy(c, k) == key[c] = k /\ pc[c] = "answered" /\ pc'[c] = "set"

\* An outrun loader taints the entry it puts, until it is replaced or removed.
NextH ==
    /\ Next
    /\ raced' = {c \in raced \cup Outrun : pc'[c] = "answered"}
    /\ tainted' = {k \in Keys :
                     /\ cache'[k] # NoEntry
                     /\ \/ \E c \in raced : PutBy(c, k)
                        \/ k \in tainted /\ ~\E c \in Callers : PutBy(c, k)}

SpecH == InitH /\ [][NextH]_<<vars, histVars>>

\* The cache is stale only where it may be: an entry older than its table
\* either waits for the sweep of a write that has committed, or was put by a
\* loader that a sweep overtook.  No other interleaving of readers, expiry,
\* eviction, errors, cancellation and writers leaves old rows behind.
StaleExplained ==
    \A k \in Keys, t \in Tables : StaleOn(k, t) =>
        k \in tainted \/ \E w \in Writers : k \in todo[w]

=============================================================================
