CONSTANTS
  t1 = t1  t2 = t2
  Clients = {t1, t2}
  MaxPrompts = 2
  Requests = {1, 2}
  Readers = {"bench", "dashboard"}
  MaxConcurrent = 1
  Window = 1
  MaxTimestamps = 1
SPECIFICATION BenchFairSpec
INVARIANTS SnapshotCountsOnce RateSaturates ReportAddsUp
PROPERTY BenchReturns
