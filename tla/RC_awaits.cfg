CONSTANTS
  r1 = r1  s1 = s1  s2 = s2  w1 = w1  w2 = w2
  c1 = c1  c2 = c2  h1 = h1  h2 = h2  q1 = q1  q2 = q2  m1 = m1  S = S
  None = None
  Runs = {r1}
  Slots = {s1, s2}
  Calls = {c1, c2}
  Hashes = {h1, h2}
  Inputs = {}
  Elicitations = {}
  WorkerOf <- ApartSlots
  HashOf <- OwnHash
  SessionOf <- OneSession
  RunOf <- OnlyRun1
  MaxAttempts = 2
  TimelyLeases = TRUE
  EarlyDecisions = TRUE
  LostRejections = TRUE
SPECIFICATION FairSpec
CHECK_DEADLOCK FALSE
PROPERTIES DecidedRunResumes
