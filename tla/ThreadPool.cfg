SPECIFICATION PoolSpec
CONSTANTS
  Threads = {w1, w2, c1, c2}
  Workers = {w1, w2}
  Capacity = 1
  MaxSends = 5
INVARIANTS ShutdownDrains
PROPERTIES AcceptedJobsFinish ShutdownReturns
CHECK_DEADLOCK FALSE
