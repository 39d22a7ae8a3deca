------------------------- MODULE MCMigrationRunner -------------------------
(* Instances of MigrationRunner for TLC.                                   *)
EXTENDS MigrationRunner, TLC

CONSTANTS m1, m2, m3

\* m1 creates a table, m2 creates one and fills it, m3 fills twice
MCSteps == [m \in Migrations |-> IF m = m1 THEN 1 ELSE 2]
MCBackfills == {<<m2, 2>>} \cup {m3} \X {1, 2}

\* a first release, one with a migration appended, one with a migration that
\* sorts before an old one, and one from which the newest has been withdrawn
Growing == {<<m1, m2>>, <<m1, m2, m3>>, <<m1, m3, m2>>}
OneRelease == {<<m1, m2, m3>>}
Withdrawn == {<<m1, m2>>, <<m1>>}

RunnerSymmetry == Permutations(Runners)

=============================================================================
