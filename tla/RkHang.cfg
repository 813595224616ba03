SPECIFICATION RkSpec
CONSTANTS
  RkWords = 2
  RkSectors = 1
  RkSurfaces = 2
  RkCylinders = 1
  RkCounts = 4
  RkPage = 2
  RkPages = 2
  RkMemory = 3
  RkLengths <- MCLengths
  RkDiskCodes <- MCDiskCodes
  RkNone = RkNone
PROPERTY RkCommandsEnd
