------------------------------- MODULE Sweep -------------------------------
(***************************************************************************)
(* What a caller is promised of keyset pagination (docs/api/orm.md calls   *)
(* it "stable cursors"): a mark moves up through the keys of the table,    *)
(* and a row is handed over exactly when the mark passes its key, whatever *)
(* other sessions do to the table in the meantime.                         *)
(***************************************************************************)
EXTENDS Integers

CONSTANTS
    Keys,  \* the possible values of the sort column, one row each: naturals
    Top    \* a number above every key: the position of a finished sweep

VARIABLES
    present,  \* the keys in the table
    mark,     \* everything up to here has been passed
    swept     \* what has been handed over

svars == <<present, mark, swept>>

Init ==
    /\ present \in SUBSET Keys
    /\ mark = -1
    /\ swept = {}

Passed(from, to) == {k \in present : from < k /\ k <= to}

Advance ==
    /\ \E to \in Keys \cup {Top} :
          /\ mark < to
          /\ mark' = to
          /\ swept' = swept \cup Passed(mark, to)
    /\ UNCHANGED present

Change ==
    /\ present' \in SUBSET Keys
    /\ UNCHANGED <<mark, swept>>

Next == Advance \/ Change

Spec == Init /\ [][Next]_svars

=============================================================================
