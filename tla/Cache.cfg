SPECIFICATION Spec
CONSTANTS
  r1 = r1
  r2 = r2
  r3 = r3
  r4 = r4
  v1 = v1
  w1 = w1
  w2 = w2
  p1 = p1
  p2 = p2
  p3 = p3
  None = None
  Req = {r1, r2, r3, r4}
  Variant = {v1}
  Process = {w1, w2}
  Prompt = {p1, p2, p3}
  SharedStore = TRUE
  Score <- SmallScore
  Threshold = 1
  Cap = 2
SYMMETRY Symmetry
INVARIANTS
  TypeOK
  IndexSound
  MissesNeedExpiry
  HitsAreClose
