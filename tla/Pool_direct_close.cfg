SPECIFICATION Spec
CONSTANTS
  s1 = s1
  s2 = s2
  s3 = s3
  Slot = {s1, s2, s3}
  N = 2
  BreakerEnabled = TRUE
  Threshold = 2
  Reset = 1
  Probes = 2
  Cap = 2
SYMMETRY Symmetry
PROPERTIES
  NoDirectClose
