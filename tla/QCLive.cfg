\* Two callers of one key that are cancelled, whose queries fail, whose entries expire, and a writer.
SPECIFICATION FairSpec
CONSTANTS
    c1 = c1
    k1 = k1
    posts = posts
    users = users
    Post = Post
    Row = Row
    None = None
    Callers = {c1, c2}
    Writers = {w1}
    Keys = {k1}
    Tables = {posts}
    Types = {Post}
    Cells = {x1, x2}
    TypeOf <- OneType
    PrefixOf <- PrefixPosts
    ReadsOf <- ReadsPosts
    WritePaths = {"execute"}
    Faults = {"cancel", "db_error", "expire"}
    MaxVersion = 1
PROPERTIES
    CallReturns
    AttemptEnds
