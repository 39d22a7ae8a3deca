\* One runner at a time, no failure: any sequence of runs and rollbacks of any release; m3 has no down().
SPECIFICATION Spec
CONSTANTS
    m1 = m1
    m2 = m2
    m3 = m3
    Runners = {r1}
    Migrations = {m1, m2, m3}
    Steps <- MCSteps
    Backfills <- MCBackfills
    HasDown = {m1, m2}
    Releases <- Growing
    Ops = {"run", "rollback"}
    Faults = {}
    Exclusive = TRUE
INVARIANTS
    TypeOK
    LogMatchesSchema
PROPERTIES
    NewestUndoneFirst
