CONSTANTS
  c1 = c1  c2 = c2  f1 = f1  f2 = f2
  Controls = {}
  Delivery <- ByName
  OneAtATime = TRUE
  MaxTurns = 2
  MaxCalls = 1
  MaxAnswers = 1
  MaxStarts = 2
SPECIFICATION Spec
CHECK_DEADLOCK FALSE
INVARIANTS TruncatedNeverRun
