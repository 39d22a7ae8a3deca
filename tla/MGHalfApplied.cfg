\* One runner, which may stop anywhere: a migration stays half applied.
SPECIFICATION Spec
CONSTANTS
    m1 = m1
    m2 = m2
    m3 = m3
    Runners = {r1}
    Migrations = {m1, m2, m3}
    Steps <- MCSteps
    Backfills <- MCBackfills
    HasDown = {m1, m2, m3}
    Releases <- OneRelease
    Ops = {"run"}
    Faults = {"stop"}
    Exclusive = TRUE
INVARIANTS
    AllOrNothing
