SPECIFICATION ParserSpec
CONSTANTS
  MaxNesting = 2
  MaxSkip = 2
INVARIANTS
  ParserTypeOK
  AcceptsOnlySuites
  NestingIsReleased
PROPERTIES
  KeywordsOpenBlocks
  NothingSkippedSilently
  RecoveryProgresses
CHECK_DEADLOCK FALSE
