-------------------------- MODULE QueryCacheProofs --------------------------
(***************************************************************************)
(* Proofs about QueryCache, for any finite set of callers and any keys,    *)
(* tables, types, cells and faults; and about QueryCacheHistory: where     *)
(* every write sweeps what it changes, the race of a sweep with a loader   *)
(* is the only source of stale entries.                                    *)
(***************************************************************************)
EXTENDS QueryCacheHistory, FiniteSetTheorems, TLAPS

-----------------------------------------------------------------------------
(* Type correctness                                                        *)

\* what the loader holds until it has published it
LoaderRows ==
    \A c \in Callers :
        /\ pc[c] = "answered" => got[c] \in RowsOf(key[c])
        /\ pc[c] = "set" => got[c] \in {Failure} \cup RowsOf(key[c])

\* an Arc clone is held exactly between joining and leaving
HoldsArc ==
    \A c \in Callers : att[c] # None <=> pc[c] \in Holding

CountedOn(x) == {c \in Callers : att[c] = x /\ pc[c] \in Counted}

\* the waiter count is exact: fetch_sub never goes below zero
WaitersExact == \A x \in Cells : waiters[x] = Cardinality(CountedOn(x))

\* The typing of the variables and what it takes to keep it: the count of a
\* cell is a natural number only because it is the number of its waiters.
TInv == TypeOK /\ LoaderRows /\ HoldsArc /\ WaitersExact

\* The program points, as sets of strings
USE DEF Counted, Initializing, Holding, AllPcs, Suspended, Returning

LEMMA CountedFinite ==
    ASSUME NEW x
    PROVE  IsFiniteSet(CountedOn(x))
  BY QueryCacheAssumption, FS_Subset DEF CountedOn

\* Steps that leave every set of counted waiters as it is keep the counts.
LEMMA CountsKept ==
    ASSUME WaitersExact, waiters' = waiters,
           \A x \in Cells : CountedOn(x)' = CountedOn(x)
    PROVE  WaitersExact'
  BY DEF WaitersExact

LEMMA TCall ==
    ASSUME TInv, NEW c \in Callers, Call(c)
    PROVE  TInv'
  <1> USE QueryCacheAssumption DEF TInv, Call, Goto, attemptVars, writerVars
  <1>1. ControlOK'
    BY DEF TypeOK, ControlOK
  <1>2. ValuesOK'
    BY DEF TypeOK, ValuesOK, FunctionOn
  <1>3. LoaderRows'
    BY DEF TypeOK, ControlOK, ValuesOK, LoaderRows, FunctionOn
  <1>4. HoldsArc'
    BY DEF TypeOK, ControlOK, HoldsArc
  <1>5. WaitersExact'
    BY CountsKept DEF TypeOK, ControlOK, CountedOn
  <1> QED BY <1>1, <1>2, <1>3, <1>4, <1>5 DEF TypeOK

LEMMA TLookupMiss ==
    ASSUME TInv, NEW c \in Callers, LookupMiss(c)
    PROVE  TInv'
  <1> USE QueryCacheAssumption DEF TInv, LookupMiss, Goto, attemptVars, writerVars
  <1>1. ControlOK'
    BY DEF TypeOK, ControlOK
  <1>2. ValuesOK'
    BY DEF TypeOK, ValuesOK
  <1>3. LoaderRows'
    BY DEF TypeOK, ControlOK, LoaderRows
  <1>4. HoldsArc'
    BY DEF TypeOK, ControlOK, HoldsArc
  <1>5. WaitersExact'
    BY CountsKept DEF TypeOK, ControlOK, CountedOn
  <1> QED BY <1>1, <1>2, <1>3, <1>4, <1>5 DEF TypeOK

LEMMA TLookupHit ==
    ASSUME TInv, NEW c \in Callers, LookupHit(c)
    PROVE  TInv'
  <1> USE QueryCacheAssumption DEF TInv, LookupHit, Goto, attemptVars, writerVars
  <1>1. ControlOK'
    BY DEF TypeOK, ControlOK
  <1>2. ValuesOK'
    <2>1. cache[key[c]] \in EntriesOf(key[c]) /\ key[c] \in Keys
      BY DEF TypeOK, ControlOK, ValuesOK, Live, NoEntry
    <2>2. IsRows(cache[key[c]].val)
      BY <2>1 DEF IsRows, EntriesOf
    <2> QED BY <2>2 DEF TypeOK, ValuesOK, FunctionOn
  <1>3. LoaderRows'
    BY DEF TypeOK, ControlOK, ValuesOK, LoaderRows, FunctionOn
  <1>4. HoldsArc'
    BY DEF TypeOK, ControlOK, HoldsArc
  <1>5. WaitersExact'
    BY CountsKept DEF TypeOK, ControlOK, CountedOn
  <1> QED BY <1>1, <1>2, <1>3, <1>4, <1>5 DEF TypeOK

LEMMA TLookupExpired ==
    ASSUME TInv, NEW c \in Callers, LookupExpired(c)
    PROVE  TInv'
  <1> USE QueryCacheAssumption DEF TInv, LookupExpired, Goto, attemptVars, writerVars
  <1>1. ControlOK'
    BY DEF TypeOK, ControlOK
  <1>2. ValuesOK'
    BY DEF TypeOK, ValuesOK
  <1>3. LoaderRows'
    BY DEF TypeOK, ControlOK, LoaderRows
  <1>4. HoldsArc'
    BY DEF TypeOK, ControlOK, HoldsArc
  <1>5. WaitersExact'
    BY CountsKept DEF TypeOK, ControlOK, CountedOn
  <1> QED BY <1>1, <1>2, <1>3, <1>4, <1>5 DEF TypeOK

LEMMA TEvictExpired ==
    ASSUME TInv, NEW c \in Callers, EvictExpired(c)
    PROVE  TInv'
  <1> USE QueryCacheAssumption DEF TInv, EvictExpired, Goto, attemptVars, writerVars
  <1>1. ControlOK'
    BY DEF TypeOK, ControlOK
  <1>2. ValuesOK'
    BY DEF TypeOK, ControlOK, ValuesOK, FunctionOn
  <1>3. LoaderRows'
    BY DEF TypeOK, ControlOK, ValuesOK, LoaderRows, FunctionOn
  <1>4. HoldsArc'
    BY DEF TypeOK, ControlOK, HoldsArc
  <1>5. WaitersExact'
    BY CountsKept DEF TypeOK, ControlOK, CountedOn
  <1> QED BY <1>1, <1>2, <1>3, <1>4, <1>5 DEF TypeOK

LEMMA TJoinExisting ==
    ASSUME TInv, NEW c \in Callers, JoinExisting(c)
    PROVE  TInv'
  <1> USE QueryCacheAssumption DEF TInv, JoinExisting, Goto, attemptVars, writerVars
  <1>1. ControlOK'
    BY DEF TypeOK, ControlOK, HoldsArc
  <1>2. ValuesOK'
    BY DEF TypeOK, ValuesOK
  <1>3. LoaderRows'
    BY DEF TypeOK, ControlOK, LoaderRows
  <1>4. HoldsArc'
    BY DEF TypeOK, ControlOK, HoldsArc
  <1>5. WaitersExact'
    BY CountsKept DEF TypeOK, ControlOK, CountedOn
  <1> QED BY <1>1, <1>2, <1>3, <1>4, <1>5 DEF TypeOK

LEMMA TReadCell ==
    ASSUME TInv, NEW c \in Callers, ReadCell(c)
    PROVE  TInv'
  <1> USE QueryCacheAssumption DEF TInv, ReadCell, Goto, attemptVars, writerVars
  <1>1. ControlOK'
    BY DEF TypeOK, ControlOK
  <1>2. ValuesOK'
    BY DEF TypeOK, ValuesOK
  <1>3. LoaderRows'
    BY DEF TypeOK, ControlOK, LoaderRows
  <1>4. HoldsArc'
    BY DEF TypeOK, ControlOK, HoldsArc
  <1>5. WaitersExact'
    BY CountsKept DEF TypeOK, ControlOK, CountedOn
  <1> QED BY <1>1, <1>2, <1>3, <1>4, <1>5 DEF TypeOK

LEMMA TStartLoader ==
    ASSUME TInv, NEW c \in Callers, StartLoader(c)
    PROVE  TInv'
  <1> USE QueryCacheAssumption DEF TInv, StartLoader, Goto, attemptVars, writerVars
  <1>1. ControlOK'
    BY DEF TypeOK, ControlOK
  <1>2. ValuesOK'
    BY DEF TypeOK, ValuesOK
  <1>3. LoaderRows'
    BY DEF TypeOK, ControlOK, LoaderRows
  <1>4. HoldsArc'
    BY DEF TypeOK, ControlOK, HoldsArc
  <1>5. WaitersExact'
    BY CountsKept DEF TypeOK, ControlOK, CountedOn
  <1> QED BY <1>1, <1>2, <1>3, <1>4, <1>5 DEF TypeOK

LEMMA TQueryReads ==
    ASSUME TInv, NEW c \in Callers, QueryReads(c)
    PROVE  TInv'
  <1> USE QueryCacheAssumption DEF TInv, QueryReads, Goto, attemptVars, writerVars
  <1>1. ControlOK'
    BY DEF TypeOK, ControlOK
  <1>2. ValuesOK'
    <2>1. key[c] \in Keys /\ TypeOf[c] \in Types /\ ReadsOf[key[c]] \subseteq Tables
      BY DEF TypeOK, ControlOK
    <2>2. got'[c] \in RowsOf(key[c])
      BY <2>1 DEF TypeOK, ControlOK, ValuesOK, FunctionOn, RowsOf
    <2>3. IsRows(got'[c])
      BY <2>1, <2>2 DEF IsRows
    <2> QED BY <2>3 DEF TypeOK, ValuesOK, FunctionOn
  <1>3. LoaderRows'
    BY DEF TypeOK, ControlOK, ValuesOK, LoaderRows, FunctionOn, RowsOf
  <1>4. HoldsArc'
    BY DEF TypeOK, ControlOK, HoldsArc
  <1>5. WaitersExact'
    BY CountsKept DEF TypeOK, ControlOK, CountedOn
  <1> QED BY <1>1, <1>2, <1>3, <1>4, <1>5 DEF TypeOK

LEMMA TQueryFails ==
    ASSUME TInv, NEW c \in Callers, QueryFails(c)
    PROVE  TInv'
  <1> USE QueryCacheAssumption DEF TInv, QueryFails, Goto, attemptVars, writerVars
  <1>1. ControlOK'
    BY DEF TypeOK, ControlOK
  <1>2. ValuesOK'
    BY DEF TypeOK, ValuesOK, FunctionOn
  <1>3. LoaderRows'
    BY DEF TypeOK, ControlOK, ValuesOK, LoaderRows, FunctionOn
  <1>4. HoldsArc'
    BY DEF TypeOK, ControlOK, HoldsArc
  <1>5. WaitersExact'
    BY CountsKept DEF TypeOK, ControlOK, CountedOn
  <1> QED BY <1>1, <1>2, <1>3, <1>4, <1>5 DEF TypeOK

LEMMA TPut ==
    ASSUME TInv, NEW c \in Callers, Put(c)
    PROVE  TInv'
  <1> USE QueryCacheAssumption DEF TInv, Put, Goto, attemptVars, writerVars
  <1>1. ControlOK'
    BY DEF TypeOK, ControlOK
  <1>2. ValuesOK'
    <2>1. got[c] \in RowsOf(key[c]) /\ key[c] \in Keys
      BY DEF TypeOK, ControlOK, LoaderRows
    <2>2. cache'[key[c]] \in EntriesOf(key[c])
      BY <2>1 DEF TypeOK, ValuesOK, FunctionOn, EntriesOf
    <2> QED BY <2>1, <2>2 DEF TypeOK, ValuesOK, FunctionOn
  <1>3. LoaderRows'
    BY DEF TypeOK, ControlOK, ValuesOK, LoaderRows, FunctionOn
  <1>4. HoldsArc'
    BY DEF TypeOK, ControlOK, HoldsArc
  <1>5. WaitersExact'
    BY CountsKept DEF TypeOK, ControlOK, CountedOn
  <1> QED BY <1>1, <1>2, <1>3, <1>4, <1>5 DEF TypeOK

LEMMA TSetCell ==
    ASSUME TInv, NEW c \in Callers, SetCell(c)
    PROVE  TInv'
  <1> USE QueryCacheAssumption DEF TInv, SetCell, Goto, attemptVars, writerVars
  <1>1. ControlOK'
    BY DEF TypeOK, ControlOK
  <1>2. ValuesOK'
    <2>1. got[c] \in {Failure} \cup RowsOf(key[c]) /\ key[c] \in Keys /\ att[c] \in Cells
      BY DEF TypeOK, ControlOK, LoaderRows, HoldsArc
    <2>2. got[c] = Failure \/ IsRows(got[c])
      BY <2>1 DEF IsRows
    <2> QED BY <2>1, <2>2 DEF TypeOK, ValuesOK, FunctionOn
  <1>3. LoaderRows'
    BY DEF TypeOK, ControlOK, ValuesOK, LoaderRows, FunctionOn
  <1>4. HoldsArc'
    BY DEF TypeOK, ControlOK, HoldsArc
  <1>5. WaitersExact'
    BY CountsKept DEF TypeOK, ControlOK, CountedOn
  <1> QED BY <1>1, <1>2, <1>3, <1>4, <1>5 DEF TypeOK

LEMMA TUnregister ==
    ASSUME TInv, NEW c \in Callers, Unregister(c)
    PROVE  TInv'
  <1> USE QueryCacheAssumption DEF TInv, Unregister, Goto, attemptVars, writerVars
  <1>1. ControlOK'
    BY DEF TypeOK, ControlOK, RemoveIfSame
  <1>2. ValuesOK'
    <2>1. att[c] \in Cells
      BY DEF TypeOK, ControlOK, HoldsArc
    <2>2. ResultFor(c) \in {Nothing, Failure, Mismatch} \/ IsRows(ResultFor(c))
      BY <2>1 DEF TypeOK, ValuesOK, ResultFor
    <2> QED BY <2>2 DEF TypeOK, ValuesOK, FunctionOn
  <1>3. LoaderRows'
    BY DEF TypeOK, ControlOK, ValuesOK, LoaderRows, FunctionOn
  <1>4. HoldsArc'
    BY DEF TypeOK, ControlOK, HoldsArc
  <1>5. WaitersExact'
    BY CountsKept DEF TypeOK, ControlOK, CountedOn
  <1> QED BY <1>1, <1>2, <1>3, <1>4, <1>5 DEF TypeOK

LEMMA TCancel ==
    ASSUME TInv, NEW c \in Callers, Cancel(c)
    PROVE  TInv'
  <1> USE QueryCacheAssumption DEF TInv, Cancel, Goto, attemptVars, writerVars
  <1>1. ControlOK'
    BY DEF TypeOK, ControlOK
  <1>2. ValuesOK'
    BY DEF TypeOK, ValuesOK, FunctionOn
  <1>3. LoaderRows'
    BY DEF TypeOK, ControlOK, ValuesOK, LoaderRows, FunctionOn
  <1>4. HoldsArc'
    BY DEF TypeOK, ControlOK, HoldsArc
  <1>5. WaitersExact'
    BY CountsKept DEF TypeOK, ControlOK, CountedOn
  <1> QED BY <1>1, <1>2, <1>3, <1>4, <1>5 DEF TypeOK

LEMMA TCheckCell ==
    ASSUME TInv, NEW c \in Callers, CheckCell(c)
    PROVE  TInv'
  <1> USE QueryCacheAssumption DEF TInv, CheckCell, Goto, attemptVars, writerVars
  <1>1. ControlOK'
    BY DEF TypeOK, ControlOK
  <1>2. ValuesOK'
    BY DEF TypeOK, ValuesOK
  <1>3. LoaderRows'
    BY DEF TypeOK, ControlOK, LoaderRows
  <1>4. HoldsArc'
    BY DEF TypeOK, ControlOK, HoldsArc
  <1>5. WaitersExact'
    BY CountsKept DEF TypeOK, ControlOK, CountedOn
  <1> QED BY <1>1, <1>2, <1>3, <1>4, <1>5 DEF TypeOK

LEMMA TRemoveOrphan ==
    ASSUME TInv, NEW c \in Callers, RemoveOrphan(c)
    PROVE  TInv'
  <1> USE QueryCacheAssumption DEF TInv, RemoveOrphan, Goto, attemptVars, writerVars
  <1>1. ControlOK'
    BY DEF TypeOK, ControlOK, RemoveIfSame
  <1>2. ValuesOK'
    BY DEF TypeOK, ValuesOK
  <1>3. LoaderRows'
    BY DEF TypeOK, ControlOK, LoaderRows
  <1>4. HoldsArc'
    BY DEF TypeOK, ControlOK, HoldsArc
  <1>5. WaitersExact'
    BY CountsKept DEF TypeOK, ControlOK, CountedOn
  <1> QED BY <1>1, <1>2, <1>3, <1>4, <1>5 DEF TypeOK

LEMMA TJoinNew ==
    ASSUME TInv, NEW c \in Callers, JoinNew(c)
    PROVE  TInv'
  <1> USE QueryCacheAssumption DEF TInv, JoinNew, Goto, writerVars
  <1> PICK x \in Cells :
        /\ FreeCell(x)
        /\ inflight' = [inflight EXCEPT ![key[c]] = x]
        /\ cell' = [cell EXCEPT ![x] = Nothing]
        /\ waiters' = [waiters EXCEPT ![x] = 0]
        /\ att' = [att EXCEPT ![c] = x]
    OBVIOUS
  <1>1. ControlOK'
    BY DEF TypeOK, ControlOK
  <1>2. ValuesOK'
    BY DEF TypeOK, ValuesOK, FunctionOn
  <1>3. LoaderRows'
    BY DEF TypeOK, ControlOK, LoaderRows
  <1>4. HoldsArc'
    BY DEF TypeOK, ControlOK, HoldsArc
  <1>5. WaitersExact'
    <2>1. \A y \in Cells : CountedOn(y)' = CountedOn(y)
      BY DEF TypeOK, ControlOK, CountedOn
    <2>2. CountedOn(x) = {}
      BY DEF CountedOn, FreeCell
    <2> QED
      BY <2>1, <2>2, FS_EmptySet DEF TypeOK, ControlOK, WaitersExact
  <1> QED BY <1>1, <1>2, <1>3, <1>4, <1>5 DEF TypeOK

LEMMA TCountIn ==
    ASSUME TInv, NEW c \in Callers, CountIn(c)
    PROVE  TInv'
  <1> USE QueryCacheAssumption DEF TInv, CountIn, Goto, writerVars
  <1>0. att[c] \in Cells
    BY DEF TypeOK, ControlOK, HoldsArc
  <1>1. ControlOK'
    BY <1>0 DEF TypeOK, ControlOK
  <1>2. ValuesOK'
    BY DEF TypeOK, ValuesOK
  <1>3. LoaderRows'
    BY DEF TypeOK, ControlOK, LoaderRows
  <1>4. HoldsArc'
    BY DEF TypeOK, ControlOK, HoldsArc
  <1>5. WaitersExact'
    <2>1. c \notin CountedOn(att[c]) /\ CountedOn(att[c])' = CountedOn(att[c]) \cup {c}
      BY DEF TypeOK, ControlOK, CountedOn
    <2>2. \A y \in Cells : y # att[c] => CountedOn(y)' = CountedOn(y)
      BY DEF TypeOK, ControlOK, CountedOn
    <2>3. Cardinality(CountedOn(att[c]) \cup {c}) = Cardinality(CountedOn(att[c])) + 1
      BY <2>1, CountedFinite, FS_AddElement
    <2> QED
      BY <1>0, <2>1, <2>2, <2>3 DEF TypeOK, ControlOK, WaitersExact
  <1> QED BY <1>1, <1>2, <1>3, <1>4, <1>5 DEF TypeOK

\* The guard is dropped by a counted caller: there is one to subtract.
LEMMA TDropGuard ==
    ASSUME TInv, NEW c \in Callers, DropGuard(c)
    PROVE  TInv'
  <1> USE QueryCacheAssumption DEF TInv, DropGuard, Goto, writerVars
  <1> PICK x \in Cells : att[c] = x
    BY DEF TypeOK, ControlOK, HoldsArc
  <1>1. /\ c \in CountedOn(x)
        /\ CountedOn(x)' = CountedOn(x) \ {c}
        /\ \A y \in Cells : y # x => CountedOn(y)' = CountedOn(y)
    BY DEF TypeOK, ControlOK, CountedOn
  <1>2. /\ Cardinality(CountedOn(x) \ {c}) = Cardinality(CountedOn(x)) - 1
        /\ Cardinality(CountedOn(x) \ {c}) \in Nat
    <2>1. IsFiniteSet(CountedOn(x)) /\ IsFiniteSet(CountedOn(x) \ {c})
      BY CountedFinite, FS_RemoveElement
    <2> QED BY <1>1, <2>1, FS_RemoveElement, FS_CardinalityType
  <1>3. WaitersExact' /\ waiters' \in [Cells -> Nat]
    BY <1>1, <1>2 DEF TypeOK, ControlOK, WaitersExact
  <1>4. ControlOK'
    BY <1>3 DEF TypeOK, ControlOK
  <1>5. ValuesOK'
    BY DEF TypeOK, ValuesOK
  <1>6. LoaderRows'
    BY DEF TypeOK, ControlOK, LoaderRows
  <1>7. HoldsArc'
    BY DEF TypeOK, ControlOK, HoldsArc
  <1> QED BY <1>3, <1>4, <1>5, <1>6, <1>7 DEF TypeOK

\* Time and writers leave every caller and every attempt alone.
LEMMA TEnvironment ==
    ASSUME TInv,
           UNCHANGED <<attemptVars, callerVars>>,
           /\ db' \in [Tables -> 0 .. MaxVersion]
           /\ FunctionOn(cache, Keys)'
           /\ \A k \in Keys : cache'[k] \in {NoEntry} \cup EntriesOf(k)
           /\ wpc' \in [Writers -> {"idle", "committed", "sweeping"}]
           /\ todo' \in [Writers -> SUBSET Keys]
    PROVE  TInv'
  <1> USE DEF TInv, attemptVars, callerVars
  <1>1. ControlOK'
    BY DEF TypeOK, ControlOK
  <1>2. ValuesOK'
    BY DEF TypeOK, ValuesOK, FunctionOn
  <1>3. LoaderRows' /\ HoldsArc'
    BY DEF LoaderRows, HoldsArc
  <1>4. WaitersExact'
    BY CountsKept DEF CountedOn
  <1> QED BY <1>1, <1>2, <1>3, <1>4 DEF TypeOK

LEMMA TExpire ==
    ASSUME TInv, NEW k \in Keys, Expire(k)
    PROVE  TInv'
  <1> USE DEF TInv, Expire, writerVars
  <1>1. cache[k] \in EntriesOf(k)
    BY DEF TypeOK, ValuesOK, Live, NoEntry
  <1>2. [cache[k] EXCEPT !.live = FALSE] \in EntriesOf(k)
    BY <1>1 DEF EntriesOf
  <1>3. \A j \in Keys : cache'[j] \in {NoEntry} \cup EntriesOf(j)
    BY <1>2 DEF TypeOK, ValuesOK, FunctionOn
  <1> QED BY <1>3, TEnvironment DEF TypeOK, ControlOK, ValuesOK, FunctionOn

LEMMA TWriter ==
    ASSUME TInv, NEW w \in Writers, WriterStep(w)
    PROVE  TInv'
  <1> USE QueryCacheAssumption DEF TInv, TypeOK, ControlOK, ValuesOK, FunctionOn
  <1>1. CASE CommitWrite(w)
    <2> PICK t \in Tables, path \in WritePaths :
          /\ db[t] < MaxVersion
          /\ db' = [db EXCEPT ![t] = @ + 1]
          /\ todo' = [todo EXCEPT ![w] = SweptBy(path, t)]
      BY <1>1 DEF CommitWrite
    <2>1. SweptBy(path, t) \subseteq Keys
      BY DEF SweptBy, AllWritePaths
    <2>2. db' \in [Tables -> 0 .. MaxVersion]
      OBVIOUS
    <2> QED BY <1>1, <2>1, <2>2, TEnvironment DEF CommitWrite
  <1>2. CASE WriteAnswered(w)
    BY <1>2, TEnvironment DEF WriteAnswered
  <1>3. CASE AnswerLost(w)
    BY <1>3, TEnvironment DEF AnswerLost
  <1>4. CASE Sweep(w)
    BY <1>4, TEnvironment DEF Sweep
  <1>5. CASE WriteReturns(w)
    BY <1>5, TEnvironment DEF WriteReturns
  <1> QED BY <1>1, <1>2, <1>3, <1>4, <1>5 DEF WriterStep

LEMMA TInit == Init => TInv
  <1> SUFFICES ASSUME Init PROVE TInv
    OBVIOUS
  <1> USE QueryCacheAssumption DEF Init
  <1>1. ControlOK
    BY DEF ControlOK
  <1>2. ValuesOK
    BY DEF ValuesOK, FunctionOn
  <1>3. LoaderRows /\ HoldsArc
    BY DEF LoaderRows, HoldsArc
  <1>4. WaitersExact
    <2>1. \A x \in Cells : CountedOn(x) = {}
      BY DEF CountedOn
    <2> QED BY <2>1, FS_EmptySet DEF WaitersExact
  <1> QED BY <1>1, <1>2, <1>3, <1>4 DEF TInv, TypeOK

LEMMA TStep == TInv /\ [Next]_vars => TInv'
  <1> SUFFICES ASSUME TInv, [Next]_vars PROVE TInv'
    OBVIOUS
  <1>1. ASSUME NEW c \in Callers, Call(c) \/ CallerStep(c) \/ Cancel(c)
        PROVE  TInv'
    BY <1>1, TCall, TLookupMiss, TLookupHit, TLookupExpired, TEvictExpired,
       TJoinExisting, TJoinNew, TCountIn, TReadCell, TStartLoader,
       TQueryReads, TQueryFails, TPut, TSetCell, TUnregister, TCancel,
       TDropGuard, TCheckCell, TRemoveOrphan DEF CallerStep
  <1>2. ASSUME NEW k \in Keys, Expire(k) PROVE TInv'
    BY <1>2, TExpire
  <1>3. ASSUME NEW w \in Writers, WriterStep(w) PROVE TInv'
    BY <1>3, TWriter
  <1>4. CASE UNCHANGED vars
    BY <1>4, TEnvironment DEF vars, attemptVars, callerVars, TInv, TypeOK,
       ControlOK, ValuesOK, FunctionOn
  <1> QED BY <1>1, <1>2, <1>3, <1>4 DEF Next

LEMMA TInvariant == Spec => []TInv
  BY TInit, TStep, PTL DEF Spec

\* Every variable keeps its type, for any number of callers, writers, keys
\* and cells and whatever faults are switched on; in particular the atomic
\* waiter count of an attempt never wraps below zero.
THEOREM TypeCorrect == Spec => []TypeOK
  <1>1. TInv => TypeOK
    BY DEF TInv
  <1> QED BY <1>1, TInvariant, PTL

-----------------------------------------------------------------------------
(* No attempt is orphaned                                                  *)

\* a cell serves one key: among its holders and in the registry
OneKeyPerCell ==
    /\ \A c, d \in Callers : att[c] # None /\ att[c] = att[d] => key[c] = key[d]
    /\ \A c \in Callers, k \in Keys :
          att[c] # None /\ inflight[k] = att[c] => k = key[c]
    /\ \A k, l \in Keys : inflight[k] # None /\ inflight[k] = inflight[l] => k = l

\* a result is read only from a resolved cell
ResultsRead == \A c \in Callers : pc[c] = "unregister" => Initialized(att[c])

\* a cell has at most one initializer, and only until it is resolved
OneInitializer ==
    /\ \A c \in Callers : Running(c) => ~Initialized(att[c])
    /\ \A c, d \in Callers : Running(c) /\ Running(d) /\ att[c] = att[d] => c = d

\* A registered attempt has a holder; one that has resolved has a holder
\* that is about to remove it.
Attended ==
    \A k \in Keys : inflight[k] # None =>
        \E c \in Callers :
            /\ att[c] = inflight[k]
            /\ Initialized(inflight[k]) => pc[c] = "unregister"

SInv == OneKeyPerCell /\ ResultsRead /\ OneInitializer /\ Attended

\* What JoinNew does: c gets a fresh cell x that nobody holds or names.
LEMMA JoinNewEffect ==
    ASSUME TInv, NEW c \in Callers, JoinNew(c)
    PROVE  \E x \in Cells :
              /\ att[c] = None /\ att'[c] = x /\ pc'[c] = "count"
              /\ \A d \in Callers : d # c =>
                    att'[d] = att[d] /\ att[d] # x /\ pc'[d] = pc[d]
              /\ cell'[x] = Nothing
              /\ \A y \in Cells : y # x => cell'[y] = cell[y]
              /\ inflight'[key[c]] = x
              /\ \A k \in Keys : k # key[c] =>
                    inflight'[k] = inflight[k] /\ inflight[k] # x
              /\ key' = key /\ got' = got
              /\ \A d \in Callers : pc[d] \in Holding => att[d] \in Cells
  <1>0. PICK x \in Cells :
          /\ FreeCell(x)
          /\ inflight' = [inflight EXCEPT ![key[c]] = x]
          /\ cell' = [cell EXCEPT ![x] = Nothing]
          /\ att' = [att EXCEPT ![c] = x]
    BY DEF JoinNew
  <1>1. /\ pc[c] = "join" /\ pc' = [pc EXCEPT ![c] = "count"]
        /\ key' = key /\ got' = got
    BY DEF JoinNew, Goto
  <1>2. /\ pc \in [Callers -> AllPcs] /\ key \in [Callers -> Keys]
        /\ att \in [Callers -> Cells \cup {None}]
        /\ inflight \in [Keys -> Cells \cup {None}]
        /\ cell = [y \in Cells |-> cell[y]]
    BY DEF TInv, TypeOK, ControlOK, ValuesOK, FunctionOn
  <1>3. /\ pc'[c] = "count"
        /\ \A d \in Callers : d # c => pc'[d] = pc[d]
    BY <1>1, <1>2
  <1>4. /\ att'[c] = x
        /\ \A d \in Callers : d # c => att'[d] = att[d] /\ att[d] # x
    BY <1>0, <1>2 DEF FreeCell
  <1>5. /\ inflight'[key[c]] = x
        /\ \A k \in Keys : k # key[c] =>
              inflight'[k] = inflight[k] /\ inflight[k] # x
    BY <1>0, <1>2 DEF FreeCell
  <1>6. /\ cell'[x] = Nothing
        /\ \A y \in Cells : y # x => cell'[y] = cell[y]
    BY <1>0, <1>2
  <1>7. att[c] = None
    BY <1>1 DEF TInv, HoldsArc, Holding, Counted
  <1>8. \A d \in Callers : pc[d] \in Holding => att[d] \in Cells
    BY <1>2 DEF TInv, HoldsArc
  <1> QED BY <1>0, <1>1, <1>3, <1>4, <1>5, <1>6, <1>7, <1>8

LEMMA SCall ==
    ASSUME TInv, SInv, NEW c \in Callers, Call(c)
    PROVE  SInv'
  <1> USE QueryCacheAssumption DEF TInv, TypeOK, ControlOK, HoldsArc, SInv, Call, Goto, attemptVars, writerVars
  <1>1. OneKeyPerCell'
    BY DEF OneKeyPerCell
  <1>2. ResultsRead'
    BY DEF ResultsRead, Initialized
  <1>3. OneInitializer'
    BY DEF OneInitializer, Running, Initialized
  <1>4. Attended'
    BY DEF Attended, Initialized
  <1> QED BY <1>1, <1>2, <1>3, <1>4

LEMMA SLookupMiss ==
    ASSUME TInv, SInv, NEW c \in Callers, LookupMiss(c)
    PROVE  SInv'
  <1> USE QueryCacheAssumption DEF TInv, TypeOK, ControlOK, HoldsArc, SInv, LookupMiss, Goto, attemptVars, writerVars
  <1>1. OneKeyPerCell'
    BY DEF OneKeyPerCell
  <1>2. ResultsRead'
    BY DEF ResultsRead, Initialized
  <1>3. OneInitializer'
    BY DEF OneInitializer, Running, Initialized
  <1>4. Attended'
    BY DEF Attended, Initialized
  <1> QED BY <1>1, <1>2, <1>3, <1>4

LEMMA SLookupHit ==
    ASSUME TInv, SInv, NEW c \in Callers, LookupHit(c)
    PROVE  SInv'
  <1> USE QueryCacheAssumption DEF TInv, TypeOK, ControlOK, HoldsArc, SInv, LookupHit, Goto, attemptVars, writerVars
  <1>1. OneKeyPerCell'
    BY DEF OneKeyPerCell
  <1>2. ResultsRead'
    BY DEF ResultsRead, Initialized
  <1>3. OneInitializer'
    BY DEF OneInitializer, Running, Initialized
  <1>4. Attended'
    BY DEF Attended, Initialized
  <1> QED BY <1>1, <1>2, <1>3, <1>4

LEMMA SLookupExpired ==
    ASSUME TInv, SInv, NEW c \in Callers, LookupExpired(c)
    PROVE  SInv'
  <1> USE QueryCacheAssumption DEF TInv, TypeOK, ControlOK, HoldsArc, SInv, LookupExpired, Goto, attemptVars, writerVars
  <1>1. OneKeyPerCell'
    BY DEF OneKeyPerCell
  <1>2. ResultsRead'
    BY DEF ResultsRead, Initialized
  <1>3. OneInitializer'
    BY DEF OneInitializer, Running, Initialized
  <1>4. Attended'
    BY DEF Attended, Initialized
  <1> QED BY <1>1, <1>2, <1>3, <1>4

LEMMA SEvictExpired ==
    ASSUME TInv, SInv, NEW c \in Callers, EvictExpired(c)
    PROVE  SInv'
  <1> USE QueryCacheAssumption DEF TInv, TypeOK, ControlOK, HoldsArc, SInv, EvictExpired, Goto, attemptVars, writerVars
  <1>1. OneKeyPerCell'
    BY DEF OneKeyPerCell
  <1>2. ResultsRead'
    BY DEF ResultsRead, Initialized
  <1>3. OneInitializer'
    BY DEF OneInitializer, Running, Initialized
  <1>4. Attended'
    BY DEF Attended, Initialized
  <1> QED BY <1>1, <1>2, <1>3, <1>4

LEMMA SJoinExisting ==
    ASSUME TInv, SInv, NEW c \in Callers, JoinExisting(c)
    PROVE  SInv'
  <1> USE QueryCacheAssumption DEF TInv, TypeOK, ControlOK, HoldsArc, SInv, JoinExisting, Goto, attemptVars, writerVars
  <1>1. OneKeyPerCell'
    BY DEF OneKeyPerCell
  <1>2. ResultsRead'
    BY DEF ResultsRead, Initialized
  <1>3. OneInitializer'
    BY DEF OneInitializer, Running, Initialized
  <1>4. Attended'
    BY DEF Attended, Initialized
  <1> QED BY <1>1, <1>2, <1>3, <1>4

LEMMA SJoinNew ==
    ASSUME TInv, SInv, NEW c \in Callers, JoinNew(c)
    PROVE  SInv'
  <1> USE QueryCacheAssumption DEF TInv, TypeOK, ControlOK, HoldsArc, SInv
  <1>0. PICK x \in Cells :
        /\ att[c] = None /\ att'[c] = x /\ pc'[c] = "count"
        /\ \A d \in Callers : d # c =>
              att'[d] = att[d] /\ att[d] # x /\ pc'[d] = pc[d]
        /\ cell'[x] = Nothing
        /\ \A y \in Cells : y # x => cell'[y] = cell[y]
        /\ inflight'[key[c]] = x
        /\ \A k \in Keys : k # key[c] =>
              inflight'[k] = inflight[k] /\ inflight[k] # x
        /\ key' = key /\ got' = got
        /\ \A d \in Callers : pc[d] \in Holding => att[d] \in Cells
    BY JoinNewEffect
  <1>1. OneKeyPerCell'
    BY <1>0 DEF OneKeyPerCell
  <1>2. ResultsRead'
    <2> SUFFICES ASSUME NEW d \in Callers, pc'[d] = "unregister"
                 PROVE  cell'[att'[d]] # Nothing
      BY DEF ResultsRead, Initialized
    <2>1. d # c /\ pc[d] = "unregister" /\ att[d] \in Cells
      BY <1>0
    <2> QED BY <1>0, <2>1 DEF ResultsRead, Initialized
  <1>3. OneInitializer'
    <2>1. \A d \in Callers : Running(d)' =>
             /\ d # c /\ Running(d) /\ att'[d] = att[d]
             /\ cell'[att[d]] = cell[att[d]]
      BY <1>0 DEF Running
    <2> QED BY <2>1 DEF OneInitializer, Initialized
  <1>4. Attended'
    <2> SUFFICES ASSUME NEW k \in Keys, inflight'[k] # None
                 PROVE  \E d \in Callers :
                          /\ att'[d] = inflight'[k]
                          /\ cell'[inflight'[k]] # Nothing => pc'[d] = "unregister"
      BY DEF Attended, Initialized
    <2>1. CASE k = key[c]
      <3>1. att'[c] = inflight'[k] /\ cell'[inflight'[k]] = Nothing
        BY <1>0, <2>1
      <3> QED BY <3>1
    <2>2. CASE k # key[c]
      <3>1. /\ inflight'[k] = inflight[k]
            /\ inflight[k] # x /\ inflight[k] \in Cells /\ inflight[k] # None
        BY <1>0, <2>2
      <3>2. PICK d \in Callers :
              /\ att[d] = inflight[k]
              /\ Initialized(inflight[k]) => pc[d] = "unregister"
        BY <3>1 DEF Attended
      <3> QED BY <1>0, <3>1, <3>2 DEF Initialized
    <2> QED BY <2>1, <2>2
  <1> QED BY <1>1, <1>2, <1>3, <1>4

LEMMA SCountIn ==
    ASSUME TInv, SInv, NEW c \in Callers, CountIn(c)
    PROVE  SInv'
  <1> USE QueryCacheAssumption DEF TInv, TypeOK, ControlOK, HoldsArc, SInv, CountIn, Goto, attemptVars, writerVars
  <1>1. OneKeyPerCell'
    BY DEF OneKeyPerCell
  <1>2. ResultsRead'
    BY DEF ResultsRead, Initialized
  <1>3. OneInitializer'
    BY DEF OneInitializer, Running, Initialized
  <1>4. Attended'
    BY DEF Attended, Initialized
  <1> QED BY <1>1, <1>2, <1>3, <1>4

LEMMA SReadCell ==
    ASSUME TInv, SInv, NEW c \in Callers, ReadCell(c)
    PROVE  SInv'
  <1> USE QueryCacheAssumption DEF TInv, TypeOK, ControlOK, HoldsArc, SInv, ReadCell, Goto, attemptVars, writerVars
  <1>1. OneKeyPerCell'
    BY DEF OneKeyPerCell
  <1>2. ResultsRead'
    BY DEF ResultsRead, Initialized
  <1>3. OneInitializer'
    BY DEF OneInitializer, Running, Initialized
  <1>4. Attended'
    BY DEF Attended, Initialized
  <1> QED BY <1>1, <1>2, <1>3, <1>4

LEMMA SStartLoader ==
    ASSUME TInv, SInv, NEW c \in Callers, StartLoader(c)
    PROVE  SInv'
  <1> USE QueryCacheAssumption DEF TInv, TypeOK, ControlOK, HoldsArc, SInv, StartLoader, Goto, attemptVars, writerVars
  <1>1. OneKeyPerCell'
    BY DEF OneKeyPerCell
  <1>2. ResultsRead'
    BY DEF ResultsRead, Initialized
  <1>3. OneInitializer'
    BY DEF OneInitializer, Running, Initialized, PermitFree
  <1>4. Attended'
    BY DEF Attended, Initialized
  <1> QED BY <1>1, <1>2, <1>3, <1>4

LEMMA SQueryReads ==
    ASSUME TInv, SInv, NEW c \in Callers, QueryReads(c)
    PROVE  SInv'
  <1> USE QueryCacheAssumption DEF TInv, TypeOK, ControlOK, HoldsArc, SInv, QueryReads, Goto, attemptVars, writerVars
  <1>1. OneKeyPerCell'
    BY DEF OneKeyPerCell
  <1>2. ResultsRead'
    BY DEF ResultsRead, Initialized
  <1>3. OneInitializer'
    BY DEF OneInitializer, Running, Initialized
  <1>4. Attended'
    BY DEF Attended, Initialized
  <1> QED BY <1>1, <1>2, <1>3, <1>4

LEMMA SQueryFails ==
    ASSUME TInv, SInv, NEW c \in Callers, QueryFails(c)
    PROVE  SInv'
  <1> USE QueryCacheAssumption DEF TInv, TypeOK, ControlOK, HoldsArc, SInv, QueryFails, Goto, attemptVars, writerVars
  <1>1. OneKeyPerCell'
    BY DEF OneKeyPerCell
  <1>2. ResultsRead'
    BY DEF ResultsRead, Initialized
  <1>3. OneInitializer'
    BY DEF OneInitializer, Running, Initialized
  <1>4. Attended'
    BY DEF Attended, Initialized
  <1> QED BY <1>1, <1>2, <1>3, <1>4

LEMMA SPut ==
    ASSUME TInv, SInv, NEW c \in Callers, Put(c)
    PROVE  SInv'
  <1> USE QueryCacheAssumption DEF TInv, TypeOK, ControlOK, HoldsArc, SInv, Put, Goto, attemptVars, writerVars
  <1>1. OneKeyPerCell'
    BY DEF OneKeyPerCell
  <1>2. ResultsRead'
    BY DEF ResultsRead, Initialized
  <1>3. OneInitializer'
    BY DEF OneInitializer, Running, Initialized
  <1>4. Attended'
    BY DEF Attended, Initialized
  <1> QED BY <1>1, <1>2, <1>3, <1>4

LEMMA SSetCell ==
    ASSUME TInv, SInv, NEW c \in Callers, SetCell(c)
    PROVE  SInv'
  <1> USE QueryCacheAssumption DEF TInv, TypeOK, ControlOK, HoldsArc, SInv, SetCell, Goto, attemptVars, writerVars
  <1>1. OneKeyPerCell'
    BY DEF OneKeyPerCell
  <1>2. ResultsRead'
    <2>1. got[c] # Nothing /\ att[c] \in Cells
      BY DEF LoaderRows, RowsOf, Failure, Nothing
    <2> QED BY <2>1 DEF ResultsRead, Initialized, ValuesOK, FunctionOn
  <1>3. OneInitializer'
    BY DEF OneInitializer, Running, Initialized
  <1>4. Attended'
    BY DEF Attended, Initialized
  <1> QED BY <1>1, <1>2, <1>3, <1>4

LEMMA SUnregister ==
    ASSUME TInv, SInv, NEW c \in Callers, Unregister(c)
    PROVE  SInv'
  <1> USE QueryCacheAssumption DEF TInv, TypeOK, ControlOK, HoldsArc, SInv, Unregister, Goto, attemptVars, writerVars, RemoveIfSame
  <1>1. OneKeyPerCell'
    BY DEF OneKeyPerCell
  <1>2. ResultsRead'
    BY DEF ResultsRead, Initialized
  <1>3. OneInitializer'
    BY DEF OneInitializer, Running, Initialized
  <1>4. Attended'
    BY DEF Attended, Initialized, OneKeyPerCell
  <1> QED BY <1>1, <1>2, <1>3, <1>4

LEMMA SCancel ==
    ASSUME TInv, SInv, NEW c \in Callers, Cancel(c)
    PROVE  SInv'
  <1> USE QueryCacheAssumption DEF TInv, TypeOK, ControlOK, HoldsArc, SInv, Cancel, Goto, attemptVars, writerVars
  <1>1. OneKeyPerCell'
    BY DEF OneKeyPerCell
  <1>2. ResultsRead'
    BY DEF ResultsRead, Initialized
  <1>3. OneInitializer'
    BY DEF OneInitializer, Running, Initialized
  <1>4. Attended'
    BY DEF Attended, Initialized
  <1> QED BY <1>1, <1>2, <1>3, <1>4

LEMMA SDropGuard ==
    ASSUME TInv, SInv, NEW c \in Callers, DropGuard(c)
    PROVE  SInv'
  <1> USE QueryCacheAssumption DEF TInv, TypeOK, ControlOK, HoldsArc, SInv, DropGuard, Goto, attemptVars, writerVars
  <1>1. OneKeyPerCell'
    BY DEF OneKeyPerCell
  <1>2. ResultsRead'
    BY DEF ResultsRead, Initialized
  <1>3. OneInitializer'
    BY DEF OneInitializer, Running, Initialized
  <1>4. Attended'
    <2> SUFFICES ASSUME NEW k \in Keys, inflight[k] # None
                 PROVE  \E d \in Callers :
                          /\ att'[d] = inflight[k]
                          /\ Initialized(inflight[k]) => pc'[d] = "unregister"
      BY DEF Attended, Initialized
    <2>1. PICK d \in Callers :
            /\ att[d] = inflight[k]
            /\ Initialized(inflight[k]) => pc[d] = "unregister"
      BY DEF Attended
    <2>2. CASE d # c
      BY <2>1, <2>2
    <2>3. CASE d = c /\ waiters[att[c]] = 1
      BY <2>1, <2>3
    <2>4. CASE d = c /\ waiters[att[c]] # 1
      <3>1. c \in CountedOn(att[c]) /\ Cardinality(CountedOn(att[c])) # 1
        BY <2>4 DEF CountedOn, WaitersExact
      <3>2. CountedOn(att[c]) # {c}
        BY <3>1, FS_Singleton
      <3>3. PICK e \in CountedOn(att[c]) : e # c
        BY <3>1, <3>2
      <3> QED BY <2>1, <2>4, <3>3 DEF CountedOn
    <2> QED BY <2>2, <2>3, <2>4
  <1> QED BY <1>1, <1>2, <1>3, <1>4

LEMMA SCheckCell ==
    ASSUME TInv, SInv, NEW c \in Callers, CheckCell(c)
    PROVE  SInv'
  <1> USE QueryCacheAssumption DEF TInv, TypeOK, ControlOK, HoldsArc, SInv, CheckCell, Goto, attemptVars, writerVars
  <1>1. OneKeyPerCell'
    BY DEF OneKeyPerCell
  <1>2. ResultsRead'
    BY DEF ResultsRead, Initialized
  <1>3. OneInitializer'
    BY DEF OneInitializer, Running, Initialized
  <1>4. Attended'
    BY DEF Attended, Initialized
  <1> QED BY <1>1, <1>2, <1>3, <1>4

LEMMA SRemoveOrphan ==
    ASSUME TInv, SInv, NEW c \in Callers, RemoveOrphan(c)
    PROVE  SInv'
  <1> USE QueryCacheAssumption DEF TInv, TypeOK, ControlOK, HoldsArc, SInv, RemoveOrphan, Goto, attemptVars, writerVars, RemoveIfSame
  <1>1. OneKeyPerCell'
    BY DEF OneKeyPerCell
  <1>2. ResultsRead'
    BY DEF ResultsRead, Initialized
  <1>3. OneInitializer'
    BY DEF OneInitializer, Running, Initialized
  <1>4. Attended'
    <2> SUFFICES ASSUME NEW k \in Keys, inflight'[k] # None
                 PROVE  \E d \in Callers :
                          /\ att'[d] = inflight'[k]
                          /\ Initialized(inflight'[k]) => pc'[d] = "unregister"
      BY DEF Attended, Initialized
    <2>1. inflight'[k] = inflight[k] /\ inflight[k] # att[c]
      BY DEF OneKeyPerCell
    <2> QED BY <2>1 DEF Attended
  <1> QED BY <1>1, <1>2, <1>3, <1>4

LEMMA SInitially == Init => SInv
  BY DEF Init, SInv, OneKeyPerCell, ResultsRead, OneInitializer, Running, Attended

LEMMA SStep == TInv /\ SInv /\ [Next]_vars => SInv'
  <1> SUFFICES ASSUME TInv, SInv, [Next]_vars PROVE SInv'
    OBVIOUS
  <1>1. ASSUME NEW c \in Callers, Call(c) \/ CallerStep(c) \/ Cancel(c)
        PROVE  SInv'
    BY <1>1, SCall, SLookupMiss, SLookupHit, SLookupExpired, SEvictExpired,
       SJoinExisting, SJoinNew, SCountIn, SReadCell, SStartLoader,
       SQueryReads, SQueryFails, SPut, SSetCell, SUnregister, SCancel,
       SDropGuard, SCheckCell, SRemoveOrphan DEF CallerStep
  <1>2. ASSUME UNCHANGED <<attemptVars, callerVars>>
        PROVE  SInv'
    BY <1>2 DEF SInv, OneKeyPerCell, ResultsRead, OneInitializer, Running,
       Attended, Initialized, attemptVars, callerVars
  <1>3. ASSUME NEW k \in Keys, Expire(k) PROVE SInv'
    BY <1>2, <1>3 DEF Expire
  <1>4. ASSUME NEW w \in Writers, WriterStep(w) PROVE SInv'
    BY <1>2, <1>4 DEF WriterStep, CommitWrite, WriteAnswered, AnswerLost,
       Sweep, WriteReturns
  <1>5. CASE UNCHANGED vars
    BY <1>2, <1>5 DEF vars, attemptVars, callerVars
  <1> QED BY <1>1, <1>3, <1>4, <1>5 DEF Next

LEMMA SInvariant == Spec => []SInv
  BY TInvariant, SInitially, SStep, PTL DEF Spec

\* However many callers share an attempt and wherever each of them is
\* cancelled, the registry never keeps an attempt that no caller holds: the
\* waiter count is exact, so the caller that takes it to zero sees it, and a
\* resolved attempt always has a caller about to remove it.
THEOREM NoOrphan == Spec => []NoOrphanedAttempt
  <1>1. SInv => NoOrphanedAttempt
    BY DEF SInv, Attended, NoOrphanedAttempt
  <1> QED BY <1>1, SInvariant, PTL

\* A failed attempt can be joined only while one of its callers has still to
\* remove it, wherever callers are cancelled.
THEOREM NoReplay == Spec => FailureForgotten
  <1>1. ASSUME TInv, SInv, NEW c \in Callers, JoinExisting(c), cell[att'[c]] = Failure
        PROVE  \E d \in Callers : att[d] = att'[c] /\ pc[d] = "unregister"
    <2>1. key[c] \in Keys /\ inflight[key[c]] # None /\ att'[c] = inflight[key[c]]
      BY <1>1 DEF TInv, TypeOK, ControlOK, JoinExisting
    <2>2. Initialized(inflight[key[c]])
      BY <1>1, <2>1 DEF Initialized, Failure, Nothing
    <2> QED BY <1>1, <2>1, <2>2 DEF SInv, Attended
  <1>2. TInv /\ SInv /\ [Next]_vars =>
          [\A c \in Callers :
              JoinExisting(c) /\ cell[att'[c]] = Failure =>
                  \E d \in Callers : att[d] = att'[c] /\ pc[d] = "unregister"]_vars
    BY <1>1
  <1> QED BY <1>2, TInvariant, SInvariant, PTL DEF Spec, FailureForgotten

-----------------------------------------------------------------------------
(* Single flight, when no caller is cancelled                              *)

\* Without cancellation the guard is only ever dropped after the attempt has
\* resolved, so an unresolved attempt is never taken out of the registry.
Undisturbed ==
    \A c \in Callers :
        /\ pc[c] \in {"drop", "check"} => Initialized(att[c])
        /\ pc[c] # "orphan"
        /\ att[c] # None /\ ~Initialized(att[c]) => inflight[key[c]] = att[c]

LEMMA UCall ==
    ASSUME TInv, SInv, Undisturbed, NEW c \in Callers, Call(c)
    PROVE  Undisturbed'
  BY QueryCacheAssumption DEF TInv, TypeOK, ControlOK, HoldsArc, SInv, Undisturbed, ResultsRead, Initialized, Call, Goto, attemptVars, writerVars

LEMMA ULookupMiss ==
    ASSUME TInv, SInv, Undisturbed, NEW c \in Callers, LookupMiss(c)
    PROVE  Undisturbed'
  BY QueryCacheAssumption DEF TInv, TypeOK, ControlOK, HoldsArc, SInv, Undisturbed, ResultsRead, Initialized, LookupMiss, Goto, attemptVars, writerVars

LEMMA ULookupHit ==
    ASSUME TInv, SInv, Undisturbed, NEW c \in Callers, LookupHit(c)
    PROVE  Undisturbed'
  BY QueryCacheAssumption DEF TInv, TypeOK, ControlOK, HoldsArc, SInv, Undisturbed, ResultsRead, Initialized, LookupHit, Goto, attemptVars, writerVars

LEMMA ULookupExpired ==
    ASSUME TInv, SInv, Undisturbed, NEW c \in Callers, LookupExpired(c)
    PROVE  Undisturbed'
  BY QueryCacheAssumption DEF TInv, TypeOK, ControlOK, HoldsArc, SInv, Undisturbed, ResultsRead, Initialized, LookupExpired, Goto, attemptVars, writerVars

LEMMA UEvictExpired ==
    ASSUME TInv, SInv, Undisturbed, NEW c \in Callers, EvictExpired(c)
    PROVE  Undisturbed'
  BY QueryCacheAssumption DEF TInv, TypeOK, ControlOK, HoldsArc, SInv, Undisturbed, ResultsRead, Initialized, EvictExpired, Goto, attemptVars, writerVars

LEMMA UJoinExisting ==
    ASSUME TInv, SInv, Undisturbed, NEW c \in Callers, JoinExisting(c)
    PROVE  Undisturbed'
  BY QueryCacheAssumption DEF TInv, TypeOK, ControlOK, HoldsArc, SInv, Undisturbed, ResultsRead, Initialized, JoinExisting, Goto, attemptVars, writerVars

LEMMA UJoinNew ==
    ASSUME TInv, SInv, Undisturbed, NEW c \in Callers, JoinNew(c)
    PROVE  Undisturbed'
  <1>1. PICK x \in Cells :
        /\ att[c] = None /\ att'[c] = x /\ pc'[c] = "count"
        /\ \A d \in Callers : d # c =>
              att'[d] = att[d] /\ att[d] # x /\ pc'[d] = pc[d]
        /\ cell'[x] = Nothing
        /\ \A y \in Cells : y # x => cell'[y] = cell[y]
        /\ inflight'[key[c]] = x
        /\ \A k \in Keys : k # key[c] =>
              inflight'[k] = inflight[k] /\ inflight[k] # x
        /\ key' = key /\ got' = got
        /\ \A d \in Callers : pc[d] \in Holding => att[d] \in Cells
    BY JoinNewEffect
  <1> SUFFICES ASSUME NEW d \in Callers
               PROVE  /\ pc'[d] \in {"drop", "check"} => cell'[att'[d]] # Nothing
                      /\ pc'[d] # "orphan"
                      /\ att'[d] # None /\ cell'[att'[d]] = Nothing =>
                            inflight'[key[d]] = att'[d]
    BY <1>1 DEF Undisturbed, Initialized
  <1>2. CASE d = c
    BY <1>1, <1>2
  <1>3. CASE d # c
    <2>1. att[d] # None => att[d] \in Cells
      BY DEF TInv, TypeOK, ControlOK
    <2>2. att[d] # None => key[d] # key[c] \/ inflight[key[d]] = None
      BY DEF JoinNew
    <2> QED BY <1>1, <1>3, <2>1, <2>2 DEF Undisturbed, Initialized, JoinNew, TInv, TypeOK, ControlOK, HoldsArc
  <1> QED BY <1>2, <1>3

LEMMA UCountIn ==
    ASSUME TInv, SInv, Undisturbed, NEW c \in Callers, CountIn(c)
    PROVE  Undisturbed'
  BY QueryCacheAssumption DEF TInv, TypeOK, ControlOK, HoldsArc, SInv, Undisturbed, ResultsRead, Initialized, CountIn, Goto, attemptVars, writerVars

LEMMA UReadCell ==
    ASSUME TInv, SInv, Undisturbed, NEW c \in Callers, ReadCell(c)
    PROVE  Undisturbed'
  BY QueryCacheAssumption DEF TInv, TypeOK, ControlOK, HoldsArc, SInv, Undisturbed, ResultsRead, Initialized, ReadCell, Goto, attemptVars, writerVars

LEMMA UStartLoader ==
    ASSUME TInv, SInv, Undisturbed, NEW c \in Callers, StartLoader(c)
    PROVE  Undisturbed'
  BY QueryCacheAssumption DEF TInv, TypeOK, ControlOK, HoldsArc, SInv, Undisturbed, ResultsRead, Initialized, StartLoader, Goto, attemptVars, writerVars

LEMMA UQueryReads ==
    ASSUME TInv, SInv, Undisturbed, NEW c \in Callers, QueryReads(c)
    PROVE  Undisturbed'
  BY QueryCacheAssumption DEF TInv, TypeOK, ControlOK, HoldsArc, SInv, Undisturbed, ResultsRead, Initialized, QueryReads, Goto, attemptVars, writerVars

LEMMA UQueryFails ==
    ASSUME TInv, SInv, Undisturbed, NEW c \in Callers, QueryFails(c)
    PROVE  Undisturbed'
  BY QueryCacheAssumption DEF TInv, TypeOK, ControlOK, HoldsArc, SInv, Undisturbed, ResultsRead, Initialized, QueryFails, Goto, attemptVars, writerVars

LEMMA UPut ==
    ASSUME TInv, SInv, Undisturbed, NEW c \in Callers, Put(c)
    PROVE  Undisturbed'
  BY QueryCacheAssumption DEF TInv, TypeOK, ControlOK, HoldsArc, SInv, Undisturbed, ResultsRead, Initialized, Put, Goto, attemptVars, writerVars

LEMMA USetCell ==
    ASSUME TInv, SInv, Undisturbed, NEW c \in Callers, SetCell(c)
    PROVE  Undisturbed'
  <1> USE QueryCacheAssumption DEF TInv, TypeOK, ControlOK, HoldsArc, SetCell, Goto, writerVars
  <1>1. got[c] # Nothing /\ att[c] \in Cells
    BY DEF LoaderRows, RowsOf, Failure, Nothing
  <1> QED BY <1>1, ZenonT(60) DEF Undisturbed, Initialized, ValuesOK, FunctionOn

LEMMA UUnregister ==
    ASSUME TInv, SInv, Undisturbed, NEW c \in Callers, Unregister(c)
    PROVE  Undisturbed'
  BY QueryCacheAssumption DEF TInv, TypeOK, ControlOK, HoldsArc, SInv, Undisturbed, ResultsRead, Initialized, Unregister, Goto, attemptVars, writerVars, RemoveIfSame

LEMMA UDropGuard ==
    ASSUME TInv, SInv, Undisturbed, NEW c \in Callers, DropGuard(c)
    PROVE  Undisturbed'
  BY QueryCacheAssumption DEF TInv, TypeOK, ControlOK, HoldsArc, SInv, Undisturbed, ResultsRead, Initialized, DropGuard, Goto, attemptVars, writerVars

LEMMA UCheckCell ==
    ASSUME TInv, SInv, Undisturbed, NEW c \in Callers, CheckCell(c)
    PROVE  Undisturbed'
  BY QueryCacheAssumption DEF TInv, TypeOK, ControlOK, HoldsArc, SInv, Undisturbed, ResultsRead, Initialized, CheckCell, Goto, attemptVars, writerVars

LEMMA URemoveOrphan ==
    ASSUME TInv, SInv, Undisturbed, NEW c \in Callers, RemoveOrphan(c)
    PROVE  Undisturbed'
  BY QueryCacheAssumption DEF TInv, TypeOK, ControlOK, HoldsArc, SInv, Undisturbed, ResultsRead, Initialized, RemoveOrphan, Goto, attemptVars, writerVars, RemoveIfSame

LEMMA UStep ==
    ASSUME "cancel" \notin Faults
    PROVE  TInv /\ SInv /\ Undisturbed /\ [Next]_vars => Undisturbed'
  <1> SUFFICES ASSUME TInv, SInv, Undisturbed, [Next]_vars PROVE Undisturbed'
    OBVIOUS
  <1>1. ASSUME NEW c \in Callers, Call(c) \/ CallerStep(c) \/ Cancel(c)
        PROVE  Undisturbed'
    BY <1>1, UCall, ULookupMiss, ULookupHit, ULookupExpired, UEvictExpired,
       UJoinExisting, UJoinNew, UCountIn, UReadCell, UStartLoader,
       UQueryReads, UQueryFails, UPut, USetCell, UUnregister,
       UDropGuard, UCheckCell, URemoveOrphan DEF CallerStep, Cancel
  <1>2. ASSUME UNCHANGED <<attemptVars, callerVars>>
        PROVE  Undisturbed'
    BY <1>2 DEF Undisturbed, Initialized, attemptVars, callerVars
  <1>3. ASSUME NEW k \in Keys, Expire(k) PROVE Undisturbed'
    BY <1>2, <1>3 DEF Expire
  <1>4. ASSUME NEW w \in Writers, WriterStep(w) PROVE Undisturbed'
    BY <1>2, <1>4 DEF WriterStep, CommitWrite, WriteAnswered, AnswerLost,
       Sweep, WriteReturns
  <1>5. CASE UNCHANGED vars
    BY <1>2, <1>5 DEF vars, attemptVars, callerVars
  <1> QED BY <1>1, <1>3, <1>4, <1>5 DEF Next

\* If no caller is ever cancelled, then at most one loader runs per key at any
\* time, whatever the writers, the failures and the TTL do.  (With
\* cancellation it is false, as TLC shows.)
THEOREM SingleFlight ==
    ASSUME "cancel" \notin Faults
    PROVE  Spec => []SingleLoader
  <1>1. Init => Undisturbed
    BY DEF Init, Undisturbed
  <1>2. TInv /\ SInv /\ Undisturbed => SingleLoader
    <2> SUFFICES ASSUME TInv, SInv, Undisturbed,
                        NEW c \in Callers, NEW d \in Callers,
                        Running(c), Running(d), key[c] = key[d]
                 PROVE  c = d
      BY DEF SingleLoader
    <2>1. /\ att[c] # None /\ ~Initialized(att[c])
          /\ att[d] # None /\ ~Initialized(att[d])
      BY DEF TInv, HoldsArc, SInv, OneInitializer, Running
    <2>2. att[c] = att[d]
      BY <2>1 DEF Undisturbed
    <2> QED BY <2>2 DEF SInv, OneInitializer
  <1> QED BY <1>1, <1>2, UStep, TInvariant, SInvariant, PTL DEF Spec

-----------------------------------------------------------------------------
(* Callers are handed rows of their own query and type                     *)

\* the result of an attempt answers the query of every caller that holds it
CellAnswersHolders ==
    \A c \in Callers : att[c] # None =>
        cell[att[c]] \in {Nothing, Failure} \cup RowsOf(key[c])

RInv == CellAnswersHolders /\ OwnRows

LEMMA RCall ==
    ASSUME TInv, SInv, RInv, NEW c \in Callers, Call(c)
    PROVE  RInv'
  <1> USE QueryCacheAssumption DEF TInv, TypeOK, ControlOK, HoldsArc, RInv, Call, Goto, attemptVars, writerVars
  <1>1. CellAnswersHolders'
    BY DEF CellAnswersHolders
  <1>2. OwnRows'
    BY DEF OwnRows, ValuesOK, FunctionOn
  <1> QED BY <1>1, <1>2

LEMMA RLookupMiss ==
    ASSUME TInv, SInv, RInv, NEW c \in Callers, LookupMiss(c)
    PROVE  RInv'
  <1> USE QueryCacheAssumption DEF TInv, TypeOK, ControlOK, HoldsArc, RInv, LookupMiss, Goto, attemptVars, writerVars
  <1>1. CellAnswersHolders'
    BY DEF CellAnswersHolders
  <1>2. OwnRows'
    BY DEF OwnRows, ValuesOK, FunctionOn
  <1> QED BY <1>1, <1>2

LEMMA RLookupHit ==
    ASSUME TInv, SInv, RInv, NEW c \in Callers, LookupHit(c)
    PROVE  RInv'
  <1> USE QueryCacheAssumption DEF TInv, TypeOK, ControlOK, HoldsArc, RInv, LookupHit, Goto, attemptVars, writerVars
  <1>1. CellAnswersHolders'
    BY DEF CellAnswersHolders
  <1>2. OwnRows'
    <2>1. cache[key[c]] \in EntriesOf(key[c])
      BY DEF ValuesOK, Live, NoEntry
    <2>2. got'[c].type = TypeOf[c] /\ got'[c].snap \in [ReadsOf[key[c]] -> Nat]
      BY <2>1 DEF ValuesOK, FunctionOn, EntriesOf, RowsOf
    <2> QED BY <2>2 DEF OwnRows, ValuesOK, FunctionOn
  <1> QED BY <1>1, <1>2

LEMMA RLookupExpired ==
    ASSUME TInv, SInv, RInv, NEW c \in Callers, LookupExpired(c)
    PROVE  RInv'
  <1> USE QueryCacheAssumption DEF TInv, TypeOK, ControlOK, HoldsArc, RInv, LookupExpired, Goto, attemptVars, writerVars
  <1>1. CellAnswersHolders'
    BY DEF CellAnswersHolders
  <1>2. OwnRows'
    BY DEF OwnRows, ValuesOK, FunctionOn
  <1> QED BY <1>1, <1>2

LEMMA REvictExpired ==
    ASSUME TInv, SInv, RInv, NEW c \in Callers, EvictExpired(c)
    PROVE  RInv'
  <1> USE QueryCacheAssumption DEF TInv, TypeOK, ControlOK, HoldsArc, RInv, EvictExpired, Goto, attemptVars, writerVars
  <1>1. CellAnswersHolders'
    BY DEF CellAnswersHolders
  <1>2. OwnRows'
    BY DEF OwnRows, ValuesOK, FunctionOn
  <1> QED BY <1>1, <1>2

LEMMA RJoinExisting ==
    ASSUME TInv, SInv, RInv, NEW c \in Callers, JoinExisting(c)
    PROVE  RInv'
  <1> USE QueryCacheAssumption DEF TInv, TypeOK, ControlOK, HoldsArc, RInv, JoinExisting, Goto, attemptVars, writerVars
  <1>1. CellAnswersHolders'
    <2>1. PICK d \in Callers : att[d] = inflight[key[c]]
      BY DEF SInv, Attended
    <2>2. key[d] = key[c]
      BY <2>1 DEF SInv, OneKeyPerCell
    <2> QED BY <2>1, <2>2 DEF CellAnswersHolders
  <1>2. OwnRows'
    BY DEF OwnRows, ValuesOK, FunctionOn
  <1> QED BY <1>1, <1>2

LEMMA RJoinNew ==
    ASSUME TInv, SInv, RInv, NEW c \in Callers, JoinNew(c)
    PROVE  RInv'
  <1> USE QueryCacheAssumption DEF TInv, TypeOK, ControlOK, HoldsArc, RInv, JoinNew, Goto, attemptVars, writerVars
  <1>1. CellAnswersHolders'
    <2>1. PICK x \in Cells :
          /\ att[c] = None /\ att'[c] = x /\ pc'[c] = "count"
          /\ \A d \in Callers : d # c =>
                att'[d] = att[d] /\ att[d] # x /\ pc'[d] = pc[d]
          /\ cell'[x] = Nothing
          /\ \A y \in Cells : y # x => cell'[y] = cell[y]
          /\ inflight'[key[c]] = x
          /\ \A k \in Keys : k # key[c] =>
                inflight'[k] = inflight[k] /\ inflight[k] # x
          /\ key' = key /\ got' = got
          /\ \A d \in Callers : pc[d] \in Holding => att[d] \in Cells
      BY JoinNewEffect
    <2>2. \A d \in Callers : att[d] # None => att[d] \in Cells
      OBVIOUS
    <2> QED BY <2>1, <2>2 DEF CellAnswersHolders
  <1>2. OwnRows'
    BY DEF OwnRows, ValuesOK, FunctionOn
  <1> QED BY <1>1, <1>2

LEMMA RCountIn ==
    ASSUME TInv, SInv, RInv, NEW c \in Callers, CountIn(c)
    PROVE  RInv'
  <1> USE QueryCacheAssumption DEF TInv, TypeOK, ControlOK, HoldsArc, RInv, CountIn, Goto, attemptVars, writerVars
  <1>1. CellAnswersHolders'
    BY DEF CellAnswersHolders
  <1>2. OwnRows'
    BY DEF OwnRows, ValuesOK, FunctionOn
  <1> QED BY <1>1, <1>2

LEMMA RReadCell ==
    ASSUME TInv, SInv, RInv, NEW c \in Callers, ReadCell(c)
    PROVE  RInv'
  <1> USE QueryCacheAssumption DEF TInv, TypeOK, ControlOK, HoldsArc, RInv, ReadCell, Goto, attemptVars, writerVars
  <1>1. CellAnswersHolders'
    BY DEF CellAnswersHolders
  <1>2. OwnRows'
    BY DEF OwnRows, ValuesOK, FunctionOn
  <1> QED BY <1>1, <1>2

LEMMA RStartLoader ==
    ASSUME TInv, SInv, RInv, NEW c \in Callers, StartLoader(c)
    PROVE  RInv'
  <1> USE QueryCacheAssumption DEF TInv, TypeOK, ControlOK, HoldsArc, RInv, StartLoader, Goto, attemptVars, writerVars
  <1>1. CellAnswersHolders'
    BY DEF CellAnswersHolders
  <1>2. OwnRows'
    BY DEF OwnRows, ValuesOK, FunctionOn
  <1> QED BY <1>1, <1>2

LEMMA RQueryReads ==
    ASSUME TInv, SInv, RInv, NEW c \in Callers, QueryReads(c)
    PROVE  RInv'
  <1> USE QueryCacheAssumption DEF TInv, TypeOK, ControlOK, HoldsArc, RInv, QueryReads, Goto, attemptVars, writerVars
  <1>1. CellAnswersHolders'
    BY DEF CellAnswersHolders
  <1>2. OwnRows'
    BY DEF OwnRows, ValuesOK, FunctionOn
  <1> QED BY <1>1, <1>2

LEMMA RQueryFails ==
    ASSUME TInv, SInv, RInv, NEW c \in Callers, QueryFails(c)
    PROVE  RInv'
  <1> USE QueryCacheAssumption DEF TInv, TypeOK, ControlOK, HoldsArc, RInv, QueryFails, Goto, attemptVars, writerVars
  <1>1. CellAnswersHolders'
    BY DEF CellAnswersHolders
  <1>2. OwnRows'
    BY DEF OwnRows, ValuesOK, FunctionOn
  <1> QED BY <1>1, <1>2

LEMMA RPut ==
    ASSUME TInv, SInv, RInv, NEW c \in Callers, Put(c)
    PROVE  RInv'
  <1> USE QueryCacheAssumption DEF TInv, TypeOK, ControlOK, HoldsArc, RInv, Put, Goto, attemptVars, writerVars
  <1>1. CellAnswersHolders'
    BY DEF CellAnswersHolders
  <1>2. OwnRows'
    BY DEF OwnRows, ValuesOK, FunctionOn
  <1> QED BY <1>1, <1>2

LEMMA RSetCell ==
    ASSUME TInv, SInv, RInv, NEW c \in Callers, SetCell(c)
    PROVE  RInv'
  <1> USE QueryCacheAssumption DEF TInv, TypeOK, ControlOK, HoldsArc, RInv, SetCell, Goto, attemptVars, writerVars
  <1>1. CellAnswersHolders'
    <2>1. got[c] \in {Failure} \cup RowsOf(key[c]) /\ att[c] \in Cells
      BY DEF LoaderRows
    <2>2. \A d \in Callers : att[d] = att[c] => key[d] = key[c]
      BY <2>1 DEF SInv, OneKeyPerCell
    <2> QED BY <2>1, <2>2 DEF CellAnswersHolders, ValuesOK, FunctionOn
  <1>2. OwnRows'
    BY DEF OwnRows, ValuesOK, FunctionOn
  <1> QED BY <1>1, <1>2

LEMMA RUnregister ==
    ASSUME TInv, SInv, RInv, NEW c \in Callers, Unregister(c)
    PROVE  RInv'
  <1> USE QueryCacheAssumption DEF TInv, TypeOK, ControlOK, HoldsArc, RInv, Unregister, Goto, attemptVars, writerVars, RemoveIfSame
  <1>1. CellAnswersHolders'
    BY DEF CellAnswersHolders
  <1>2. OwnRows'
    <2>1. got'[c] = ResultFor(c)
      BY DEF ValuesOK, FunctionOn
    <2>2. cell[att[c]] \in {Nothing, Failure} \cup RowsOf(key[c])
      BY DEF CellAnswersHolders
    <2>3. got'[c].kind = "ok" =>
             got'[c].type = TypeOf[c] /\ got'[c].snap \in [ReadsOf[key[c]] -> Nat]
      BY <2>1, <2>2 DEF ResultFor, RowsOf, Nothing, Failure, Mismatch
    <2> QED BY <2>3 DEF OwnRows, ValuesOK, FunctionOn
  <1> QED BY <1>1, <1>2

LEMMA RCancel ==
    ASSUME TInv, SInv, RInv, NEW c \in Callers, Cancel(c)
    PROVE  RInv'
  <1> USE QueryCacheAssumption DEF TInv, TypeOK, ControlOK, HoldsArc, RInv, Cancel, Goto, attemptVars, writerVars
  <1>1. CellAnswersHolders'
    BY DEF CellAnswersHolders
  <1>2. OwnRows'
    BY DEF OwnRows, ValuesOK, FunctionOn, Nothing
  <1> QED BY <1>1, <1>2

LEMMA RDropGuard ==
    ASSUME TInv, SInv, RInv, NEW c \in Callers, DropGuard(c)
    PROVE  RInv'
  <1> USE QueryCacheAssumption DEF TInv, TypeOK, ControlOK, HoldsArc, RInv, DropGuard, Goto, attemptVars, writerVars
  <1>1. CellAnswersHolders'
    BY DEF CellAnswersHolders
  <1>2. OwnRows'
    BY DEF OwnRows, ValuesOK, FunctionOn
  <1> QED BY <1>1, <1>2

LEMMA RCheckCell ==
    ASSUME TInv, SInv, RInv, NEW c \in Callers, CheckCell(c)
    PROVE  RInv'
  <1> USE QueryCacheAssumption DEF TInv, TypeOK, ControlOK, HoldsArc, RInv, CheckCell, Goto, attemptVars, writerVars
  <1>1. CellAnswersHolders'
    BY DEF CellAnswersHolders
  <1>2. OwnRows'
    BY DEF OwnRows, ValuesOK, FunctionOn
  <1> QED BY <1>1, <1>2

LEMMA RRemoveOrphan ==
    ASSUME TInv, SInv, RInv, NEW c \in Callers, RemoveOrphan(c)
    PROVE  RInv'
  <1> USE QueryCacheAssumption DEF TInv, TypeOK, ControlOK, HoldsArc, RInv, RemoveOrphan, Goto, attemptVars, writerVars, RemoveIfSame
  <1>1. CellAnswersHolders'
    BY DEF CellAnswersHolders
  <1>2. OwnRows'
    BY DEF OwnRows, ValuesOK, FunctionOn
  <1> QED BY <1>1, <1>2

LEMMA RStep == TInv /\ SInv /\ RInv /\ [Next]_vars => RInv'
  <1> SUFFICES ASSUME TInv, SInv, RInv, [Next]_vars PROVE RInv'
    OBVIOUS
  <1>1. ASSUME NEW c \in Callers, Call(c) \/ CallerStep(c) \/ Cancel(c)
        PROVE  RInv'
    BY <1>1, RCall, RLookupMiss, RLookupHit, RLookupExpired, REvictExpired,
       RJoinExisting, RJoinNew, RCountIn, RReadCell, RStartLoader,
       RQueryReads, RQueryFails, RPut, RSetCell, RUnregister, RCancel,
       RDropGuard, RCheckCell, RRemoveOrphan DEF CallerStep
  <1>2. ASSUME UNCHANGED <<attemptVars, callerVars>>
        PROVE  RInv'
    BY <1>2 DEF RInv, CellAnswersHolders, OwnRows, attemptVars, callerVars
  <1>3. ASSUME NEW k \in Keys, Expire(k) PROVE RInv'
    BY <1>2, <1>3 DEF Expire
  <1>4. ASSUME NEW w \in Writers, WriterStep(w) PROVE RInv'
    BY <1>2, <1>4 DEF WriterStep, CommitWrite, WriteAnswered, AnswerLost,
       Sweep, WriteReturns
  <1>5. CASE UNCHANGED vars
    BY <1>2, <1>5 DEF vars, attemptVars, callerVars
  <1> QED BY <1>1, <1>3, <1>4, <1>5 DEF Next

\* Every caller gets rows of its own type that answer its own query, or an
\* error, even when callers of one key ask for different types and cells are
\* reused for other keys once they are free.
THEOREM OwnRowsAlways == Spec => []OwnRows
  <1>1. Init => RInv
    BY DEF Init, RInv, CellAnswersHolders, OwnRows, Nothing
  <1>2. RInv => OwnRows
    BY DEF RInv
  <1> QED BY <1>1, <1>2, RStep, TInvariant, SInvariant, PTL DEF Spec

-----------------------------------------------------------------------------
(* Stale entries, with the history of writes and loads.                    *)

\* Every write that is answered sweeps its table, and every answer arrives.
WritesSweep ==
    /\ WritePaths \subseteq {"execute", "raw_then_clear"}
    /\ "lost_answer" \notin Faults

\* Every query reads the one table its key is filed under: no joins.
ReadsItsPrefix == \A k \in Keys : ReadsOf[k] = {PrefixOf[k]}

Pending(k) == \E w \in Writers : k \in todo[w]

\* rows a loader holds are as new as the table, unless somebody knows better
LoadersExplained ==
    \A c \in Callers : pc[c] = "answered" =>
        \A t \in ReadsOf[key[c]] :
            got[c].snap[t] < db[t] => c \in raced \/ Pending(key[c])

\* a writer between two writes has nothing left to sweep
SweepsDone == \A w \in Writers : wpc[w] = "idle" => todo[w] = {}

HInv == SweepsDone /\ LoadersExplained /\ StaleExplained

\* A caller step or the passing of time that brings no rows: entries only
\* expire or disappear, and loaders only go on.
NothingNew ==
    /\ UNCHANGED <<db, todo>>
    /\ \A k \in Keys : cache'[k] # NoEntry =>
          cache[k] # NoEntry /\ cache'[k].val = cache[k].val
    /\ \A c \in Callers :
          /\ pc'[c] = "answered" =>
                pc[c] = "answered" /\ key'[c] = key[c] /\ got'[c] = got[c]
          /\ ~(pc[c] = "answered" /\ pc'[c] = "set")

LEMMA NothingNewKeeps ==
    ASSUME HInv, NextH, NothingNew, SweepsDone'
    PROVE  HInv'
  <1>1. LoadersExplained'
    BY DEF HInv, NothingNew, LoadersExplained, Pending, NextH
  <1>2. StaleExplained'
    <2> SUFFICES ASSUME NEW k \in Keys, NEW t \in Tables, StaleOn(k, t)', ~Pending(k)
                 PROVE  k \in tainted'
      BY DEF NothingNew, Pending, StaleExplained
    <2>1. StaleOn(k, t)
      BY DEF NothingNew, StaleOn
    <2>2. k \in tainted
      BY <2>1 DEF HInv, StaleExplained, Pending
    <2>3. cache'[k] # NoEntry /\ ~\E c \in Callers : PutBy(c, k)
      BY DEF StaleOn, NothingNew, PutBy
    <2> QED BY <2>2, <2>3 DEF NextH
  <1> QED BY <1>1, <1>2 DEF HInv

\* Which steps those are
LEMMA CallersBringNothing ==
    ASSUME TInv, NEW c \in Callers,
           Call(c) \/ CallerStep(c) \/ Cancel(c), ~QueryReads(c), ~Put(c)
    PROVE  NothingNew /\ UNCHANGED wpc
  <1> USE DEF TInv, TypeOK, ControlOK, ValuesOK, FunctionOn, NothingNew, Goto,
          attemptVars, writerVars
  <1>1. CASE Call(c)
    BY <1>1 DEF Call
  <1>2. CASE LookupMiss(c) \/ LookupHit(c) \/ LookupExpired(c)
    BY <1>2 DEF LookupMiss, LookupHit, LookupExpired
  <1>3. CASE EvictExpired(c)
    BY <1>3 DEF EvictExpired
  <1>4. CASE JoinExisting(c) \/ JoinNew(c) \/ CountIn(c)
    BY <1>4 DEF JoinExisting, JoinNew, CountIn
  <1>5. CASE ReadCell(c) \/ StartLoader(c) \/ QueryFails(c) \/ SetCell(c)
    BY <1>5 DEF ReadCell, StartLoader, QueryFails, SetCell
  <1>6. CASE Unregister(c) \/ CheckCell(c) \/ RemoveOrphan(c)
    BY <1>6 DEF Unregister, CheckCell, RemoveOrphan
  <1>7. CASE DropGuard(c)
    BY <1>7 DEF DropGuard
  <1>8. CASE Cancel(c)
    BY <1>8 DEF Cancel
  <1> QED BY <1>1, <1>2, <1>3, <1>4, <1>5, <1>6, <1>7, <1>8 DEF CallerStep

LEMMA HQueryReads ==
    ASSUME TInv, HInv, NextH, NEW c \in Callers, QueryReads(c)
    PROVE  HInv'
  <1> USE DEF TInv, TypeOK, ControlOK, ValuesOK, FunctionOn, QueryReads, Goto,
          attemptVars, writerVars
  <1>1. SweepsDone'
    BY DEF HInv, SweepsDone
  <1>2. LoadersExplained'
    <2> SUFFICES ASSUME NEW d \in Callers, pc'[d] = "answered",
                        NEW t \in ReadsOf[key[d]], got'[d].snap[t] < db[t]
                 PROVE  d \in raced' \/ Pending(key[d])
      BY DEF LoadersExplained, Pending
    <2>1. CASE d = c
      <3>1. t \in Tables /\ db[t] \in Nat
        BY QueryCacheAssumption
      <3>2. got'[c].snap[t] = db[t]
        BY <2>1
      <3> QED BY <2>1, <3>1, <3>2
    <2>2. CASE d # c
      <3>1. pc[d] = "answered" /\ got'[d] = got[d]
        BY <2>2
      <3> QED BY <3>1 DEF HInv, LoadersExplained, NextH
    <2> QED BY <2>1, <2>2
  <1>3. StaleExplained'
    <2> SUFFICES ASSUME NEW k \in Keys, NEW t \in Tables, StaleOn(k, t), ~Pending(k)
                 PROVE  k \in tainted'
      BY DEF Pending, StaleExplained, StaleOn
    <2>1. k \in tainted
      BY DEF HInv, StaleExplained, Pending
    <2>2. cache'[k] # NoEntry /\ ~\E d \in Callers : PutBy(d, k)
      BY DEF StaleOn, PutBy
    <2> QED BY <2>1, <2>2 DEF NextH
  <1> QED BY <1>1, <1>2, <1>3 DEF HInv

\* The rows that are put are new, about to be swept, or outrun.
LEMMA HPut ==
    ASSUME TInv, HInv, NextH, NEW c \in Callers, Put(c)
    PROVE  HInv'
  <1> USE DEF TInv, TypeOK, ControlOK, ValuesOK, FunctionOn, Put, Goto,
          attemptVars, writerVars
  <1>1. SweepsDone'
    BY DEF HInv, SweepsDone
  <1>2. LoadersExplained'
    BY DEF HInv, LoadersExplained, Pending, NextH
  <1>3. StaleExplained'
    <2> SUFFICES ASSUME NEW k \in Keys, NEW t \in Tables, StaleOn(k, t)', ~Pending(k)
                 PROVE  k \in tainted'
      BY DEF Pending, StaleExplained
    <2>0. cache'[k] # NoEntry
      BY DEF StaleOn
    <2>1. CASE k = key[c]
      <3>1. cache'[k].val = got[c]
        BY <2>1
      <3>2. c \in raced
        BY <2>1, <3>1 DEF StaleOn, HInv, LoadersExplained
      <3>3. PutBy(c, k)
        BY <2>1 DEF PutBy
      <3> QED BY <2>0, <3>2, <3>3 DEF NextH
    <2>2. CASE k # key[c]
      <3>1. StaleOn(k, t)
        BY <2>2 DEF StaleOn
      <3>2. k \in tainted
        BY <3>1 DEF HInv, StaleExplained, Pending
      <3>3. ~\E d \in Callers : PutBy(d, k)
        BY <2>2 DEF PutBy
      <3> QED BY <2>0, <3>2, <3>3 DEF NextH
    <2> QED BY <2>1, <2>2
  <1> QED BY <1>1, <1>2, <1>3 DEF HInv

\* A commit makes entries stale that its own sweep has still to visit.
LEMMA HCommit ==
    ASSUME WritesSweep, ReadsItsPrefix, TInv, HInv, NextH,
           NEW w \in Writers, CommitWrite(w)
    PROVE  HInv'
  <1> USE DEF TInv, TypeOK, ControlOK, CommitWrite, attemptVars, callerVars
  <1>0. PICK t \in Tables, path \in WritePaths :
          /\ db' = [db EXCEPT ![t] = @ + 1]
          /\ todo' = [todo EXCEPT ![w] = SweptBy(path, t)]
    OBVIOUS
  <1>1. \A k \in Keys : t \in ReadsOf[k] => Pending(k)'
    <2>1. \A k \in Keys : t \in ReadsOf[k] => k \in SweptBy(path, t)
      BY DEF WritesSweep, ReadsItsPrefix, SweptBy
    <2> QED BY <1>0, <2>1 DEF Pending
  <1>2. \A k \in Keys : Pending(k) => Pending(k)'
    <2>1. todo[w] = {}
      BY DEF HInv, SweepsDone
    <2> QED BY <1>0, <2>1 DEF Pending
  <1>3. \A u \in Tables : u # t => db'[u] = db[u]
    BY <1>0
  <1>4. SweepsDone'
    BY DEF HInv, SweepsDone
  <1>5. LoadersExplained'
    <2> SUFFICES ASSUME NEW c \in Callers, pc[c] = "answered",
                        NEW u \in ReadsOf[key[c]], got[c].snap[u] < db'[u]
                 PROVE  c \in raced' \/ Pending(key[c])'
      BY DEF LoadersExplained, Pending
    <2>1. u \in Tables /\ key[c] \in Keys
      BY QueryCacheAssumption
    <2>2. CASE u = t
      BY <1>1, <2>1, <2>2
    <2>3. CASE u # t
      BY <1>2, <1>3, <2>1, <2>3 DEF HInv, LoadersExplained, NextH
    <2> QED BY <2>2, <2>3
  <1>6. StaleExplained'
    <2> SUFFICES ASSUME NEW k \in Keys, NEW u \in Tables, StaleOn(k, u)'
                 PROVE  k \in tainted' \/ Pending(k)'
      BY DEF Pending, StaleExplained
    <2>1. CASE u = t
      BY <1>1, <2>1 DEF StaleOn
    <2>2. CASE u # t
      <3>1. StaleOn(k, u)
        BY <1>3, <2>2 DEF StaleOn
      <3>2. k \in tainted \/ Pending(k)
        BY <3>1 DEF HInv, StaleExplained, Pending
      <3>3. cache'[k] # NoEntry /\ ~\E d \in Callers : PutBy(d, k)
        BY DEF StaleOn, PutBy
      <3> QED BY <1>2, <3>2, <3>3 DEF NextH
    <2> QED BY <2>1, <2>2
  <1> QED BY <1>4, <1>5, <1>6 DEF HInv

\* A sweep takes the entry with it and leaves its mark on the loaders.
LEMMA HSweep ==
    ASSUME TInv, HInv, NextH, NEW w \in Writers, Sweep(w)
    PROVE  HInv'
  <1> USE DEF TInv, TypeOK, ControlOK, ValuesOK, FunctionOn, Sweep, attemptVars, callerVars
  <1>0. PICK k \in todo[w] :
          /\ cache' = [cache EXCEPT ![k] = NoEntry]
          /\ todo' = [todo EXCEPT ![w] = @ \ {k}]
    OBVIOUS
  <1>1. k \in Keys /\ k \in Swept
    BY <1>0 DEF Swept
  <1>2. \A j \in Keys : j # k /\ Pending(j) => Pending(j)'
    BY <1>0 DEF Pending
  <1>3. SweepsDone'
    BY <1>0 DEF HInv, SweepsDone
  <1>4. LoadersExplained'
    <2> SUFFICES ASSUME NEW c \in Callers, pc[c] = "answered",
                        NEW t \in ReadsOf[key[c]], got[c].snap[t] < db[t]
                 PROVE  c \in raced' \/ Pending(key[c])'
      BY DEF LoadersExplained, Pending
    <2>1. CASE key[c] = k
      BY <1>1, <2>1 DEF Outrun, NextH
    <2>2. CASE key[c] # k
      BY <1>2, <2>2 DEF HInv, LoadersExplained, NextH
    <2> QED BY <2>1, <2>2
  <1>5. StaleExplained'
    <2> SUFFICES ASSUME NEW j \in Keys, NEW t \in Tables, StaleOn(j, t)'
                 PROVE  j \in tainted' \/ Pending(j)'
      BY DEF Pending, StaleExplained
    <2>1. j # k /\ StaleOn(j, t)
      BY <1>0, <1>1 DEF StaleOn
    <2>2. j \in tainted \/ Pending(j)
      BY <2>1 DEF HInv, StaleExplained, Pending
    <2>3. cache'[j] # NoEntry /\ ~\E d \in Callers : PutBy(d, j)
      BY DEF StaleOn, PutBy
    <2> QED BY <1>2, <2>1, <2>2, <2>3 DEF NextH
  <1> QED BY <1>3, <1>4, <1>5 DEF HInv

LEMMA HStep ==
    ASSUME WritesSweep, ReadsItsPrefix, TInv, HInv, [NextH]_<<vars, histVars>>
    PROVE  HInv'
  <1>1. CASE UNCHANGED <<vars, histVars>>
    BY <1>1 DEF vars, histVars, HInv, SweepsDone, LoadersExplained, Pending,
       StaleExplained, StaleOn
  <1>2. ASSUME NextH, NEW c \in Callers, Call(c) \/ CallerStep(c) \/ Cancel(c)
        PROVE  HInv'
    <2>1. CASE QueryReads(c)
      BY <1>2, <2>1, HQueryReads
    <2>2. CASE Put(c)
      BY <1>2, <2>2, HPut
    <2>3. CASE ~QueryReads(c) /\ ~Put(c)
      <3>1. NothingNew /\ UNCHANGED wpc
        BY <1>2, <2>3, CallersBringNothing
      <3>2. SweepsDone'
        BY <3>1 DEF HInv, SweepsDone, NothingNew
      <3> QED BY <1>2, <3>1, <3>2, NothingNewKeeps
    <2> QED BY <2>1, <2>2, <2>3
  <1>3. ASSUME NextH, NEW k \in Keys, Expire(k)
        PROVE  HInv'
    <2>1. NothingNew /\ UNCHANGED wpc
      BY <1>3 DEF TInv, TypeOK, ControlOK, ValuesOK, FunctionOn, Expire, Live, NoEntry,
         EntriesOf, NothingNew, attemptVars, callerVars, writerVars
    <2>2. SweepsDone'
      BY <2>1 DEF HInv, SweepsDone, NothingNew
    <2> QED BY <1>3, <2>1, <2>2, NothingNewKeeps
  <1>4. ASSUME NextH, NEW w \in Writers, WriterStep(w)
        PROVE  HInv'
    <2>1. CASE CommitWrite(w)
      BY <1>4, <2>1, HCommit
    <2>2. CASE Sweep(w)
      BY <1>4, <2>2, HSweep
    <2>3. CASE WriteAnswered(w) \/ WriteReturns(w)
      <3>1. NothingNew
        BY <2>3 DEF WriteAnswered, WriteReturns, NothingNew, attemptVars, callerVars
      <3>2. SweepsDone'
        BY <2>3 DEF TInv, TypeOK, ControlOK, HInv, SweepsDone, WriteAnswered, WriteReturns
      <3> QED BY <1>4, <3>1, <3>2, NothingNewKeeps
    <2>4. ~AnswerLost(w)
      BY DEF WritesSweep, AnswerLost
    <2> QED BY <1>4, <2>1, <2>2, <2>3, <2>4 DEF WriterStep
  <1> QED BY <1>1, <1>2, <1>3, <1>4 DEF NextH, Next

\* Where every write sweeps the table it changed and gets its answer, and no
\* query joins, an entry that is older than its table either waits for a sweep
\* or was put by a loader that a sweep overtook, for any callers, cancelled or
\* not, any number of writers and any expiry.
THEOREM OnlyRacesLeaveStale ==
    ASSUME WritesSweep, ReadsItsPrefix
    PROVE  SpecH => []StaleExplained
  <1>1. InitH => TInv /\ HInv
    <2>1. InitH => HInv
      BY DEF InitH, Init, HInv, SweepsDone, LoadersExplained, StaleExplained, StaleOn
    <2> QED BY <2>1, TInit DEF InitH
  <1>2. TInv /\ HInv /\ [NextH]_<<vars, histVars>> => TInv' /\ HInv'
    <2>1. [NextH]_<<vars, histVars>> => [Next]_vars
      BY DEF NextH
    <2> QED BY <2>1, TStep, HStep
  <1>3. HInv => StaleExplained
    BY DEF HInv
  <1> QED BY <1>1, <1>2, <1>3, PTL DEF SpecH

=============================================================================
