\* Two callers of two keys of two tables asking for two row types, a writer on the RETURNING terminals, every fault.
SPECIFICATION Spec
CONSTANTS
    c1 = c1
    k1 = k1
    posts = posts
    users = users
    Post = Post
    Row = Row
    None = None
    Callers = {c1, c2}
    Writers = {w1}
    Keys = {k1, k2}
    Tables = {posts, users}
    Types = {Post, Row}
    Cells = {x1, x2}
    TypeOf <- TwoTypes
    PrefixOf <- PrefixByKey
    ReadsOf <- ReadsByKey
    WritePaths = {"returning"}
    Faults = {"cancel", "db_error", "expire", "lost_answer"}
    MaxVersion = 1
SYMMETRY CellSymmetry
INVARIANTS
    TypeOK
    NoOrphanedAttempt
    OwnRows
PROPERTY
    FailureForgotten
