SPECIFICATION MCSpec
CONSTANTS
  NoReport = NoReport
  LogSessions <- MCLogSessions
  NoLog = NoLog
  LogLines <- MCLogLines
  Windows <- MCWindows
  Depth = 2
  PaneSessions <- MCPaneSessions
  MaxSamples = 2
  HistBuckets <- MCBuckets
  HistMax = 3
  SqlTokens <- MCSqlTokens
  MaxSqlTokens = 3
  FromLists <- MCFromLists
  Conditions <- MCConditions
  MaxConditions = 2
  QualSamples <- MCQualSamples
  MaxCaptures = 3
INVARIANTS  PaneSound 
PROPERTIES CursorFollows
CHECK_DEADLOCK FALSE
