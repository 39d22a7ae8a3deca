\* A write through a RETURNING terminal invalidates nothing.
SPECIFICATION SpecH
CONSTANTS
    k1 = k1
    posts = posts
    users = users
    Post = Post
    None = None
    Callers = {c1}
    Writers = {w1}
    Keys = {k1}
    Tables = {posts}
    Types = {Post}
    Cells = {x1, x2}
    TypeOf <- OneType
    PrefixOf <- PrefixByKey
    ReadsOf <- ReadsByKey
    WritePaths = {"returning"}
    Faults = {}
    MaxVersion = 1
INVARIANT
    StaleExplained
