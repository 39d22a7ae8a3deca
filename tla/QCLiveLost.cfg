\* A reader that saw an expired entry removes the fresh one.
SPECIFICATION Spec
CONSTANTS
    c1 = c1
    k1 = k1
    posts = posts
    users = users
    Post = Post
    Row = Row
    None = None
    Callers = {c1, c2}
    Writers = {}
    Keys = {k1}
    Tables = {posts}
    Types = {Post}
    Cells = {x1, x2}
    TypeOf <- OneType
    PrefixOf <- PrefixPosts
    ReadsOf <- ReadsPosts
    WritePaths = {"execute"}
    Faults = {"expire"}
    MaxVersion = 0
PROPERTY
    LiveEntriesSurvive
