SPECIFICATION Spec
CONSTANTS
  Repeat = 1
  Invocations = 1
  Calls = {1}
  Faults = {"stranger"}
INVARIANTS
  MeasuresItsOwn
