SPECIFICATION Spec
SYMMETRY Symmetry
CONSTANTS
    Call = {c1, c2}
    PoolSize = 4
    TotalQuestions = 2
    Topics = 2
    MasteryTop = 3
    MaxCalls = 3
    MaxTrouble = 2
    MaxEvents = 4
INVARIANTS
  QuizzesSound
  MasteryBacked
  PlansSound
  SomeoneProceeds
CHECK_DEADLOCK FALSE
