------------------------------- MODULE Store --------------------------------
(***************************************************************************)
(* The table of a model and a pivot table, in one program.  No statement   *)
(* is about both, so there is nothing to interleave: the calls of an       *)
(* initial state are about one of them, and the other is at rest.          *)
(***************************************************************************)
EXTENDS Records

CONSTANTS Targets, LinkWorkloads, MostCopies, PairIndexes, IdTypes
VARIABLES work, paired, idType, links, stage, todo, known, reply, old, alone

pivotVars == <<work, paired, idType, links, stage, todo, known, reply, old, alone>>

P == INSTANCE Pivots WITH Callers <- Clients

ASSUME LinksAssumption == P!PivotsAssumption

NoCalls == {[c \in Clients |-> [kind |-> "none", call |-> PgModelReads.count,
                               key |-> key, id |-> 1, keys |-> <<>>, chunk |-> 0,
                               veto |-> "none"]] : key \in {CHOOSE key \in Keys : TRUE}}
NoLinkCalls == {[c \in Clients |-> [op |-> "none", ids |-> <<>>, via |-> "pivot"]]}

RecordsAtRest == Starts(NoCalls, {[id \in Ids |-> NoRow]}, {"none"}, {FALSE})
PivotsAtRest == P!LinksStart(NoLinkCalls, {[t \in Targets |-> 0]}, {FALSE}, {"i64"})

StoreInit ==
    \/ Init /\ PivotsAtRest
    \/ RecordsAtRest /\ P!PivotsInit

StoreNext ==
    \/ RecordsNext /\ UNCHANGED pivotVars
    \/ P!PivotsNext /\ UNCHANGED vars

StoreSpec ==
    /\ StoreInit /\ [][StoreNext]_<<vars, pivotVars>>
    /\ \A c \in Clients : WF_vars(Step(c)) /\ WF_pivotVars(P!LinkStep(c))

\* Every variable stays in its set (for use while the modules change; Store.cfg names the deeper properties).
StoreTypeOK == TypeOK /\ P!LinkTypeOK

\* While nobody else writes, sync and toggle change only the links they were asked
\* about, lose none that was to stay, and do all they were asked when they succeed
\* (SyncConverges and ToggleFlips of module Pivots).
PivotsConverge == P!SyncConverges /\ P!ToggleFlips
EveryToggleFlips == P!EveryToggleFlips

\* Every call returns, unless the process is gone: a writer that holds a row gives
\* it back, and the loops over chunks and related ids end.
CallsReturn == \A c \in Clients : <>((pc[c] = "done" \/ Aborted) /\ stage[c] = "done")
=============================================================================
