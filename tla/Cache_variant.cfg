SPECIFICATION Spec
CONSTANTS
  r1 = r1
  r2 = r2
  v1 = v1
  v2 = v2
  w1 = w1
  p1 = p1
  p2 = p2
  p3 = p3
  None = None
  Req = {r1, r2}
  Variant = {v1, v2}
  Process = {w1}
  Prompt = {p1, p2}
  SharedStore = TRUE
  Score <- SmallScore
  Threshold = 1
  Cap = 1
SYMMETRY Symmetry
INVARIANTS
  HitsKeepVariant
