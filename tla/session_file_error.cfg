CONSTANTS
  BlockMod = 4
  JobMod = 16
  BlockSize = 2
  FileLen = 5
  Retries = 1
  Requests <- MCBadRequests
  MaxTimers = 4
  MaxAge = 2
  Fifo = TRUE
  IOFaults = FALSE
  Crashes = FALSE
SPECIFICATION FairSessionSpec
PROPERTY
  FileErrorEndsSession
