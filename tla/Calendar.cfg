SPECIFICATION Spec
CONSTANTS
  Call = {c1, c2}
  Task = {t1, t2}
  Email = {e1}
  NoEmail = NoEmail
  NoTask = NoTask
  MaxRetries = 1
  MaxGrants = 2
  MaxEvents = 2
  MaxBegun = 4
  MaxTrouble = 1
INVARIANTS
  AccountsSound
  PushesPaid
  NothingSkipped
PROPERTIES
  OnlyConsentRevives
SYMMETRY MCSymmetry
CHECK_DEADLOCK FALSE
