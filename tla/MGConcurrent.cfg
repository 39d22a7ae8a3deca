\* Two runners of different releases at once; each may stop anywhere; no rollback.
SPECIFICATION Spec
CONSTANTS
    m1 = m1
    m2 = m2
    m3 = m3
    Runners = {r1, r2}
    Migrations = {m1, m2, m3}
    Steps <- MCSteps
    Backfills <- MCBackfills
    HasDown = {m1, m2, m3}
    Releases <- Growing
    Ops = {"run"}
    Faults = {"stop"}
    Exclusive = FALSE
INVARIANTS
    RecordedIsApplied
PROPERTIES
    OkMeansRecorded
