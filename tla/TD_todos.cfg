CONSTANTS
  MaxTodoCalls = 3
  MaxTodos = 2
  MaxExecutions = 1
SPECIFICATION TodosSpec
CHECK_DEADLOCK FALSE
INVARIANTS RowsFollowTodos
