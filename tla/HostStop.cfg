SPECIFICATION WSpec
CONSTANTS
  Addresses = {10, 20}
  Slots = {0, 1}
  Free = Free
  MaxCount = 2
  TickUsteps = 2
  StopLimit = 3
PROPERTY
  HostStopsThisRun
