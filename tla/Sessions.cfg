\* Three callers on two pools; a call that waits for a lock may wait for ever.
SPECIFICATION FairSpec
CONSTANTS
    a = a
    b = b
    c = c
    p1 = p1
    p2 = p2
    q1 = q1
    P = P
    Q = Q
    Clients = {a, b, c}
    Conns = {p1, p2, q1}
    NoConn = NoConn
    PoolOf <- MCPoolOf
    Workloads <- MCWorkloads
    Names = {"s", "t"}
    MaxAttempts = 4
    BaseDelay = 2
    MaxDelay = 3
    Bits = 2
    MaxStatements = 2
    MaxSaves = 2
    MaxCloses = 1
CHECK_DEADLOCK FALSE
INVARIANTS
    OkIsDurable
    ExecOnce
    LockBetweenPools
    LeakNeedsChoice
PROPERTIES
    CommitsAtOnce
    BacksOff
    CallsReturn
