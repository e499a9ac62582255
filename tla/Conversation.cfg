SPECIFICATION Spec
CONSTANTS
  Call = {c1, c2}
  Start = {"absent", "AWAITING_CHECKIN_TIME", "COMPLETED"}
  Wish = {w1, w2}
  MAX_TOOL_ROUNDS = 1
  MAX_HISTORY_TURNS = 2
  MaxTurns = 3
  MaxUpdates = 3
  MaxTrouble = 1
INVARIANTS
  SetUpSound
  HistorySound
  RowsPaid
  NothingForgotten
PROPERTIES
  NeverBack
SYMMETRY MCSymmetry
CHECK_DEADLOCK FALSE
