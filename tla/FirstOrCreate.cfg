\* Two first_or_create of the same key.
SPECIFICATION StoreSpec
CONSTANTS
    a = a
    b = b
    c = c
    k = k
    l = l
    Clients = {a, b, c}
    Nobody = Nobody
    Keys = {k, l}
    MaxId = 8
    NoRow = NoRow
    Indexes = {TRUE, FALSE}
    SoftDeletes = TRUE
    Timestamps = TRUE
    Workloads <- MCFirstOrCreates
    StartingRows <- MCStartingRows
    Repositories = {"none", "delegates"}
    StackSize = 2
    t1 = t1
    t2 = t2
    Targets = {t1, t2}
    LinkWorkloads <- MCNoLinks
    MostCopies = 5
    PairIndexes = {TRUE, FALSE}
    IdTypes = {"i64", "uuid"}
CHECK_DEADLOCK FALSE
INVARIANTS
    FirstOrCreateOnce
