SPECIFICATION ResolutionSpec
CONSTANTS
  Names <- MCNames
  Predefined = {}
  Specs <- MCSpecs
  Stores <- MCStores
  MaxBytes = 3
  MaxDepth = 2
  MaxHeight = 4
INVARIANTS
  ResolvesExactly
  AbstractionAgrees
  AcceptedNestingResolves
CHECK_DEADLOCK FALSE
