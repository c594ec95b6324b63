CONSTANTS
  Events = {1, 2}
  Publishers = {p1, p2}
  Batch = 2
  MaxAttempts = 2
  None = None
  p1 = p1
  p2 = p2
  MaxRetries = 1
  MaxDeltas = 1
  MaxOthers = 1
  Limit = 2
SPECIFICATION EventsSpec
CHECK_DEADLOCK FALSE
INVARIANTS TypeOK PersistedInOrder FollowerAgrees SkipsOnlyOvertaken
PROPERTIES ImplementsDelivery LiveLeaseKept EventsSettle StreamEnds
