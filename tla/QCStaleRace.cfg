\* A load that a write overtakes leaves the old rows behind.
SPECIFICATION Spec
CONSTANTS
    c1 = c1
    k1 = k1
    posts = posts
    users = users
    Post = Post
    Row = Row
    None = None
    Callers = {c1}
    Writers = {w1}
    Keys = {k1}
    Tables = {posts}
    Types = {Post}
    Cells = {x1, x2}
    TypeOf <- OneType
    PrefixOf <- PrefixPosts
    ReadsOf <- ReadsPosts
    WritePaths = {"execute"}
    Faults = {}
    MaxVersion = 1
INVARIANT
    NoSilentStaleness
