SPECIFICATION ArrivalSpec
CONSTANTS
  Vectors <- MCVectors
  Level <- MCLevel
  MaxPending = 8
  None = None
PROPERTY
  FirstRegisteredWins
