CONSTANTS
  t1 = t1
  t2 = t2
  t3 = t3
  a = a
  b = b
  Threads <- ThreeThreads
  Work <- TwoItems
  MaxInserts = 3
SPECIFICATION BoundedFairSpec
INVARIANT NoLostWakeup
PROPERTIES
  WaitWorkReturns
  SkipReleasesWorkers
