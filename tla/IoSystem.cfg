SPECIFICATION FairSpec
CONSTANTS
  Priorities = {0, 6}
  Sites <- MCSites
  None = None
INVARIANTS
  TypeOK
  RequestsJustified
  BusyHasDeadline
PROPERTIES
  FlagAndEnableRequest
  BusyOnlyIfRewritten
  ReaderAnswers
  CharacterArrives
  ClockKeepsInterrupting
