SPECIFICATION InputsSpec
CONSTANTS
  Names <- MCNames
  Commands <- MCCommands
  NoFile <- MCNoFile
  MaxSource = 2
  MaxEnvFile = 2
  MaxGrowth = 4
  Word = 31
  PerSecond = 5
  PerMinute = 6
INVARIANT PreparedAsWritten
PROPERTY AcceptedSourceIsWhole
CHECK_DEADLOCK FALSE
