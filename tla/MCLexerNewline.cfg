SPECIFICATION LexerSpec
CONSTANTS
  Sources <- MCSources
  MaxDigits = 2
  MaxFloatDigits = 3
INVARIANTS
  LinesStartAfresh
CHECK_DEADLOCK FALSE
