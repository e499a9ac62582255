SPECIFICATION FairSpec
CONSTANTS
  Call = {c1, c2}
  MaxDue = 1
  MaxAttempts = 2
  MaxEdits = 1
  MaxHolds = 1
  MaxFaults = 2
INVARIANTS
  OneDispatchPerDue
  SentMeansDispatched
  IndInv
PROPERTIES
  RemindersServed
CHECK_DEADLOCK FALSE
