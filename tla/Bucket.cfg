SPECIFICATION Spec
CONSTANTS
  r1 = r1
  r2 = r2
  r3 = r3
  c1 = c1
  c2 = c2
  Req = {r1, r2, r3}
  Client = {c1, c2}
  Backends = {"redis", "memory"}
  Burst = 3
  Cost = 2
  BucketTTL = 3
  MaxClock = 4
SYMMETRY Symmetry
INVARIANTS
  TypeOK
  BudgetAlone
  BudgetInMemory
  NeverInDebt
PROPERTIES
  WaitIsEnough
  ActsAsMeter
