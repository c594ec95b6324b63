CONSTANTS
  r1 = r1  r2 = r2  r3 = r3  r4 = r4  r5 = r5
  k1 = k1  k2 = k2  k3 = k3
  s1 = s1  s2 = s2  w1 = w1  S = S
  None = None
  Runs = {r1, r2, r3, r4, r5}
  Slots = {s1, s2}
  Calls = {}
  Hashes = {}
  Inputs = {}
  Elicitations = {}
  WorkerOf <- OneWorker
  HashOf <- NoHashes
  SessionOf <- OneSession
  RunOf <- NoRequests
  MaxAttempts = 1
  TimelyLeases = TRUE
  EarlyDecisions = TRUE
  LostRejections = TRUE
  Keys = {k1, k2, k3}
  KeyOf <- KeyOfRun
  Planners = {r1, r2}
  PlanOf <- FirstPlan
  Steps = {1, 2}
  Strays = {r5}
SPECIFICATION PlanSpec
SYMMETRY Twins
CHECK_DEADLOCK FALSE
INVARIANTS KeysAgree ApprovalsSpent
PROPERTIES OwnProgress
