SPECIFICATION LexerSpec
CONSTANTS
  Sources <- MCSources
  MaxDigits = 2
  MaxFloatDigits = 3
INVARIANTS
  NothingIsLost
CHECK_DEADLOCK FALSE
