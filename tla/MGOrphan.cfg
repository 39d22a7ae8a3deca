\* One runner at a time, the newest migration has been withdrawn: its batch stays.
SPECIFICATION Spec
CONSTANTS
    m1 = m1
    m2 = m2
    m3 = m3
    Runners = {r1}
    Migrations = {m1, m2, m3}
    Steps <- MCSteps
    Backfills <- MCBackfills
    HasDown = {m1, m2, m3}
    Releases <- Withdrawn
    Ops = {"run", "rollback"}
    Faults = {}
    Exclusive = TRUE
PROPERTIES
    BatchRolledBack
