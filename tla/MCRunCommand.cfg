SPECIFICATION RunSpec
CONSTANTS
  Names <- MCNames
  Predefined <- MCPredefined
  Suites <- MCSuites
  Paths <- MCPaths
  Files <- MCFiles
  FileOf <- MCFileOf
  NoPath = NoPath
INVARIANTS
  ExitContract
  NothingRunsUnchecked
  ReportsNeverTorn
PROPERTIES
  InterruptStopsTraffic
  EventuallyExits
CHECK_DEADLOCK FALSE
