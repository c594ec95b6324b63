CONSTANTS
  c1 = c1  c2 = c2  f1 = f1  w1 = w1  w2 = w2
  Controls = {c1, c2, f1}
  Delivery <- ByName
  OneAtATime = TRUE
  MaxTurns = 2
  MaxCalls = 2
  MaxAnswers = 2
  MaxStarts = 3
  Workers = {w1, w2}
  Processes = {"p1", "p2"}
  PackageSources = {"npm", "dir"}
  Local = {"dir"}
  MaxTasks = 5
  Width = 2
  Asked = {1, 3, 4, 6}
  Indices = {0, 1, 2}
  MaxText = 1
  Pieces = 2
  MaxTodoCalls = 4
  MaxTodos = 2
  MaxExecutions = 2
  Models = {"a", "b"}
  Levels = {"high"}
  Lists = {{"read"}, {"write", "todo"}}
  Unset = Unset
  MaxPath = 3
  Catalogs <- SmallCatalogs
  Loose <- SmallLoose
  Personal <- SmallPersonal
  Patterns <- SmallPatterns
  MaxDepth = 4
  MaxEntries = 6
  Quota <- Few
  MaxForks = 1
  KeepRecent = 2
  Size <- OneToken
  Chars = {"x", "y", "lf", "crlf", "cr", "bom", "blank", "curly", "quote"}
  Calls = {"one", "other"}
  Texts <- Contents
  Batches <- EditBatches
  Files <- SmallFiles
  MaxLines = 2
  MaxBytes = 2
  Limits = {0, 1, 2, 3}
  Requests = {"first", "second"}
  Bodies <- TwoAsked
  Root = "s0"
  MaxEntry = 3
SPECIFICATION EngineSpec
CHECK_DEADLOCK FALSE
INVARIANTS TypeOK UndisturbedCallsAnswered ControlsInOrder ResultsKeepAnswers ContextOnBranch
  PagesCoverFile ArgumentsKept PackagesStand IdleSeen CompletionWhole AgentsAllowed
  TodosReconstructed ForksWhole SettingsResume
PROPERTIES SavedResultsStand SessionGrows CompactionKeepsMessages EditsOnlyMatches
