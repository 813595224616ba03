SPECIFICATION Spec
CONSTANTS
  Memory <- Map
  Vectors <- MCVectors
  Level <- MCLevel
  MaxPending = 8
PROPERTIES
  ImplementsIsa
  InstructionsEnd
  StoresPermitted
  FrozenAfterAbort
  AbortTellsWhere
  UserConfined
  RequestsSurvive
CHECK_DEADLOCK FALSE
