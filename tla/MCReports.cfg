SPECIFICATION ReportsSpec
CONSTANTS
  Names <- MCNames
  Predefined <- MCPredefined
  Suites <- MCSuites
INVARIANTS
  TalliesAgree
  VerdictsAgree
CHECK_DEADLOCK FALSE
