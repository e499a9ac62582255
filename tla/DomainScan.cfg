SPECIFICATION FairScanSpec
CONSTANTS
  Scanner = {s1, s2}
  Reminder = {1, 2}
  FollowUp = {}
  Recurring = {3}
  Account = {4}
  Limit <- MCLimit
  Watched = 1
  MaxFaults = 1
INVARIANTS
  ScansSound
PROPERTIES
  EveryDueReached
  LastKindReached
