CONSTANTS
  Indices = {0, 1}
  MaxText = 1
  Pieces = 2
SPECIFICATION StreamSpec
CHECK_DEADLOCK FALSE
INVARIANTS StreamsTerminated
