SPECIFICATION FairLoadSpec
CONSTANTS
  a1 = a1
  a2 = a2
  Req = {a1, a2}
  N = 2
  Faults = {"store", "upstream", "crash"}
  Plan <- HerdThenFailover
  Latency <- SomeLatency
  Survivors = {a1}
  Unreachable = {"gateway", "mock"}
INVARIANTS
  TypeOK
  CountersBalance
  FailoverIsForced
  AvoidedAccounted
  ReportsTellTheTruth
  PercentilesOrdered
PROPERTIES
  LoadTestEnds
