\* Two loaders for one key at once, when a caller is cancelled.
SPECIFICATION Spec
CONSTANTS
    c1 = c1
    k1 = k1
    posts = posts
    users = users
    Post = Post
    Row = Row
    None = None
    Callers = {c1, c2, c3}
    Writers = {}
    Keys = {k1}
    Tables = {posts}
    Types = {Post}
    Cells = {x1, x2, x3}
    TypeOf <- OneType
    PrefixOf <- PrefixPosts
    ReadsOf <- ReadsPosts
    WritePaths = {"execute"}
    Faults = {"cancel"}
    MaxVersion = 0
SYMMETRY CellSymmetry
INVARIANT
    SingleLoader
