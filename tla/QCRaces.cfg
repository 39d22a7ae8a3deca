\* Callers that are not cancelled, failing queries, expiry, and a writer on execute and on raw SQL plus clear.
SPECIFICATION SpecH
CONSTANTS
    k1 = k1
    posts = posts
    users = users
    Post = Post
    None = None
    Callers = {c1, c2}
    Writers = {w1}
    Keys = {k1, k2}
    Tables = {posts, users}
    Types = {Post}
    Cells = {x1, x2}
    TypeOf <- OneType
    PrefixOf <- PrefixByKey
    ReadsOf <- ReadsByKey
    WritePaths = {"execute", "raw_then_clear"}
    Faults = {"db_error", "expire"}
    MaxVersion = 1
SYMMETRY CellSymmetry
INVARIANTS
    SingleLoader
    StaleExplained
