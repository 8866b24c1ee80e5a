SPECIFICATION FairSpec
CONSTANTS
  r1 = r1
  r2 = r2
  r3 = r3
  k1 = k1
  p1 = p1
  p2 = p2
  p3 = p3
  None = None
  Req = {r1, r2, r3}
  Key = {k1}
  Process = {p1, p2, p3}
  Redis = Redis
  Backends = {"redis"}
  Caching = {p1}
  Coalescing = {p1, p2}
  LockTTL = 2
  WaitLimit = 1
  Faults <- SlowCrash
PROPERTIES
  EveryRequestEnds
  LockComesFree
