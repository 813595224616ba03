SPECIFICATION FrontFairSpec
CONSTANTS
  BusSize = 4
  WordSize = 2
  Radix = 8
  Digits = {1}
  RegBase = 3
  Regs = 1
  Backed = {0}
  Contents = {1}
  Program = {0}
  TypedAhead = 1
INVARIANTS FrontTypeOK WalksAsPromised InitBeforeRun OffStaysOff HaltsTold
PROPERTY RequestHalts
