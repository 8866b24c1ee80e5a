SPECIFICATION Spec
CONSTANTS
  r1 = r1
  r2 = r2
  r3 = r3
  k1 = k1
  p1 = p1
  p2 = p2
  None = None
  Redis = Redis
  Req = {r1, r2, r3}
  Key = {k1}
  Process = {p1, p2}
  Backends = {"redis", "memory"}
  Caching = {p1, p2}
  Coalescing = {p1, p2}
  LockTTL = 2
  WaitLimit = 1
  Faults <- FaultKinds
SYMMETRY Symmetry
INVARIANTS
  TypeOK
  LeaderHoldsLock
PROPERTIES
  AnswersArePromised
  NoNeedlessCall
