SPECIFICATION Spec
CONSTANTS
  Names <- MCNames
  Predefined <- MCPredefined
  Suites <- MCSuites
INVARIANTS
  TypeOK
  ScopeIsolation
  ScopesAgree
  AcceptedSuitesResolve
  VerdictsMatchTraffic
  DependenciesPassFirst
  ReportIsComplete
PROPERTIES
  CapturesAreAtomic
  ImplementsVerdict
  EventuallyReported
CHECK_DEADLOCK FALSE
