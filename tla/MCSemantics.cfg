SPECIFICATION SemanticsSpec
CONSTANTS
  Names <- MCNames
  Predefined <- MCPredefined
  Specs = {}
  Stores <- MCStores
  Trees <- MCTrees
  MaxBytes = 3
  MaxDepth = 2
  MaxHeight = 4
  MaxSemanticDepth = 2
INVARIANTS
  AcceptedExactly
  AcceptedMeansExecutable
CHECK_DEADLOCK FALSE
