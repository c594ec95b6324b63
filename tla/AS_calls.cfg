CONSTANTS
  c1 = c1  c2 = c2  f1 = f1  f2 = f2
  Controls = {c1}
  Delivery <- ByName
  OneAtATime = TRUE
  MaxTurns = 2
  MaxCalls = 1
  MaxAnswers = 2
  MaxStarts = 2
SPECIFICATION Spec
CHECK_DEADLOCK FALSE
INVARIANTS CallsAnswered
