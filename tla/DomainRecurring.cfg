SPECIFICATION FairScanSpec
CONSTANTS
  Scanner = {s1}
  Reminder = {1}
  FollowUp = {}
  Recurring = {2}
  Account = {3}
  Limit <- MCLimit
  Watched = 1
  MaxFaults = 0
PROPERTIES
  RecurringAdvances
