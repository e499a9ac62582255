SPECIFICATION FairSpec
CONSTANTS
  Poll = {p1, p2, p3}
  Concurrency = 2
  MaxJobs = 8
INVARIANTS
  PoolSound
PROPERTIES
  CleanExitDrains
  ShutdownDrains
CHECK_DEADLOCK FALSE
