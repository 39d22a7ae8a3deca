\* One loader beside a client that writes.
SPECIFICATION Spec
CONSTANTS
    l1 = l1
    o1 = o1
    o2 = o2
    p1 = p1
    p2 = p2
    t1 = t1
    t2 = t2
    user = user
    page = page
    r1 = r1
    r2 = r2
    NoRow = NoRow
    Loaders = {l1}
    OwnerIds = {o1, o2}
    PostIds = {p1, p2}
    Tenants = {t1, t2}
    Kinds = {user, page}
    Regions = {r1, r2}
    Jobs <- MCJobs
    FirstOwners <- MCFirstOwners
    FirstPosts <- MCFirstPosts
    MaxChanges = 2
CHECK_DEADLOCK FALSE
PROPERTIES
    ChildrenOfTheirParents
    OwnersOfTheirChildren
