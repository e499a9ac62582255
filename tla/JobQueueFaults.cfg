SPECIFICATION FairSpec
CONSTANTS
  j1 = j1
  j2 = j2
  j3 = j3
  k1 = k1
  i1 = i1
  w1 = w1
  w2 = w2
  NoKey = NoKey
  NoWorker = NoWorker
  Job = {j1, j2}
  Worker = {w1, w2}
  Enqueuer = {q1, q2}
  SingletonOf <- MCSingletonOf
  IdempotencyOf <- MCIdempotencyOf
  Delays = {0,1}
  MaxAttempts = 2
  Concurrency = 1
  Lease = 3
  BackoffUnit = 1
  BackoffCap = 360
  Jitter = 1
  MaxCrashes = 1
  MaxDbErrors = 1
  MaxOverruns = 1
  MaxReplays = 0
INVARIANTS
  IndInv
  LeasedWork
PROPERTIES
  EverySettles
