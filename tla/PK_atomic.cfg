CONSTANTS
  Workers = {w1, w2}
  Processes = {"p1", "p2"}
  PackageSources = {"npm", "dir"}
  Local = {"dir"}
SPECIFICATION PackagesSpec
CHECK_DEADLOCK FALSE
INVARIANTS ReplacementAtomic
