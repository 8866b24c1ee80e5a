SPECIFICATION Spec
CONSTANTS
  r1 = r1
  r2 = r2
  c1 = c1
  Req = {r1, r2}
  Client = {c1}
  Backends = {"redis"}
  Burst = 2
  Cost = 2
  BucketTTL = 2
  MaxClock = 2
SYMMETRY Symmetry
INVARIANTS
  Budget
