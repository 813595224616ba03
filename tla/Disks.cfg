SPECIFICATION DisksSpec
CONSTANTS
  RkWords = 2
  RkSectors = 1
  RkSurfaces = 2
  RkCylinders = 1
  RkCounts = 4
  RkPage = 2
  RkPages = 2
  RkMemory = 3
  RkLengths <- MCLengths
  RkDiskCodes <- MCDiskCodes
  RkNone = RkNone
  RlWords = 2
  RlSectors = 2
  RlSmall = 1
  RlBig = 2
  RlDiskCodes <- MCRlDiskCodes
  RlCounts = 8
  RlWritten = {2}
  RlPage = 2
  RlPages = 2
  RlMemory = 3
  RlDrives = {0}
  RlLengths = {3, 9}
  RlNone = RlNone
INVARIANTS DisksTypeOK RkSummary
PROPERTIES RkContinues RkImageSafe RkTransfersEnd RlResidue RlHeadsLand RlImageSafe
