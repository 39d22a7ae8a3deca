----------------------------- MODULE MCSessions -----------------------------
(* Instances of Sessions for TLC.                                          *)
EXTENDS Sessions

CONSTANTS a, b, c, p1, p2, q1, P, Q

\* two callers share a pool of two connections, the third is another process
\* with a pool of one
MCPoolOf == [x \in {a, b, c, p1, p2, q1} |-> IF x \in {a, b, p1, p2} THEN P ELSE Q]

Lockers == {"acquire", "try", "timeout", "xact", "tryxact"}
Running == {"retry", "exec", "execs"}

\* a transaction next to a caller of the same pool that needs connections,
\* two retry loops, and locks against locks
MCWorkloads ==
    {w \in [{a, b, c} -> Calls] :
        \/ w[a] = "ctx" /\ w[b] = "exec" /\ w[c] = "none"
        \/ w[a] = "tx" /\ w[b] = "retry" /\ w[c] = "none"
        \/ w[a] \in Running /\ w[b] = "retry" /\ w[c] = "none"
        \/ w[a] \in Lockers /\ w[b] \in Lockers /\ w[c] \in {"acquire", "timeout"}}

=============================================================================
