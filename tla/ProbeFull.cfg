SPECIFICATION WatchSpec
CONSTANTS
  Samples = {0, 1}
  Depths = {4}
  Percents = {0, 50, 100}
  Dividers = {1, 2}
  Counts32 = 8
  NoTrigger = NoTrigger
INVARIANT
  DoneIsFull
