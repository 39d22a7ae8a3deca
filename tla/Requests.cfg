\* Two requests, a stream, a pool of one connection; a process may stay idle for ever.
CONSTANTS
  r1 = r1
  r2 = r2
  th1 = th1
  main = main
  replica = replica
  other = other
  n1 = n1
  t1 = t1
  t2 = t2
  none = none
  None = none
  Requests = {r1, r2}
  Threads = {th1}
  Pools = {main, replica, other}
  Size <- MCSize
  Names = {n1}
  Tenants = {t1, t2}
  Layers <- MCLayers
  Plans <- MCPlans
  Warm = 2
  Databases = {other}
  Callbacks = {"panics"}
  Buffer = 1
  Rows = 2
  Threshold = 1
  MaxCalls = 2
  MaxSettings = 2
SPECIFICATION FairSpec
PROPERTIES
    OwnScope
    EndMeansAll
    AllEnd
