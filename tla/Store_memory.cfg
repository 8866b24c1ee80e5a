SPECIFICATION Spec
CONSTANTS
  k1 = k1
  k2 = k2
  n1 = n1
  t1 = t1
  t2 = t2
  None = None
  Stored = {k1, k2}
  Counter = {n1}
  Text = {t1, t2}
  Number = {1}
  MaxTTL = 2
  MaxClock = 6
  MaxCount = 2
SYMMETRY Symmetry
INVARIANTS
  TypeOK
PROPERTIES
  StandsInForRedis
