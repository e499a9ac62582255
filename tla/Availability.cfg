SPECIFICATION SearchSpec
CONSTANTS
  TimeMin = 8
  TimeMax = 14
  Day = 8
  Span <- MCSpan
  DueTime <- MCDue
  QuietHours <- MCQuiet
  Duration = {1, 2}
  Buffer = {0, 1}
  TaskHalf = 1
  ListLimit = 2
  MaxSlots = 3
  MaxMeetings = 3
INVARIANTS
  SlotsSound
  StretchesExact
CHECK_DEADLOCK FALSE
