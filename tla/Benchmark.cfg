SPECIFICATION FairSpec
CONSTANTS
  Repeat = 2
  Invocations = 2
  Calls = {0, 1, 2}
  Faults = {"start", "raise", "stubborn", "flush", "stranger", "interrupt"}
INVARIANTS
  TypeOK
  LoadsAreClean
  NoGatewayOutlives
  HeadlineIsEarned
PROPERTIES
  InvocationEnds
