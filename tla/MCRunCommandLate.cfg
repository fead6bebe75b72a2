SPECIFICATION RunSpec
CONSTANTS
  Names <- MCNames
  Predefined <- MCPredefined
  Suites <- MCSuites
  Paths <- MCPaths
  Files <- MCFiles
  FileOf <- MCFileOf
  NoPath = NoPath
INVARIANT InterruptPreservesReports
CHECK_DEADLOCK FALSE
