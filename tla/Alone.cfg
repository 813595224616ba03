SPECIFICATION AloneSpec
CONSTANTS
  Vectors <- MCVectors
  Level <- MCLevel
  MaxPending = 6
  None = None
  Samples = {0, 1}
  Depths = {1, 4}
  Percents = {0, 50, 100}
  Dividers = {1, 2}
  Counts32 = 8
  NoTrigger = NoTrigger
  Addresses = {10, 20}
  Slots = {0, 1}
  Free = Free
  MaxCount = 2
  TickUsteps = 2
  StopLimit = 3
INVARIANTS
  AloneTypeOK
  NeverQueuedTwice
  RomGrantsHighest
  TriggerInPlace
  BreakpointsDistinct
PROPERTIES
  ImplementsRequestFlops
  ImplementsRecorder
  StepsExactly
  StopsAtInstructionEnd
  HostStopHonoured
