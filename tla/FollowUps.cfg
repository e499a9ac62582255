SPECIFICATION FairSpec
CONSTANTS
  FollowUp = {f1}
  Call = {c1, c2}
  MaxTries = 2
  MaxAttempts = 2
  MaxReplies = 1
  MaxHolds = 1
  MaxFaults = 2
INVARIANTS
  OneDispatchPerTry
  CountsBacked
PROPERTIES
  EveryFollowUpTaken
CHECK_DEADLOCK FALSE
