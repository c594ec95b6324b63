CONSTANTS
  MaxEntries = 6
  Quota <- Few
  MaxForks = 1
  KeepRecent = 1
  Size <- OneToken
SPECIFICATION TreeSpec
CHECK_DEADLOCK FALSE
PROPERTIES SummariesKept
