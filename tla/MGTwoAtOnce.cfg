\* Two runners at once, no failure: a backfill is repeated.
SPECIFICATION Spec
CONSTANTS
    m1 = m1
    m2 = m2
    m3 = m3
    Runners = {r1, r2}
    Migrations = {m1, m2, m3}
    Steps <- MCSteps
    Backfills <- MCBackfills
    HasDown = {m1, m2, m3}
    Releases <- OneRelease
    Ops = {"run"}
    Faults = {}
    Exclusive = FALSE
SYMMETRY RunnerSymmetry
INVARIANTS
    AppliedOnce
