CONSTANTS
  BlockMod = 4
  JobMod = 16
  BlockSize = 2
  FileLen = 7
  Retries = 1
  Requests <- MCBoth
  MaxTimers = 4
  MaxAge = 2
  Fifo = TRUE
  IOFaults = FALSE
  Crashes = TRUE
  PutOptions <- MCAllOptions
  PutLens <- MCLens
  PutRetries = 1
  RetryMod = 4
  PutFaults = TRUE
  ChanCap = 2
  Reorder = FALSE
  Duplicate = TRUE
  Reopens = 1
  Timely = FALSE
  MaxLosses = 0
SPECIFICATION FairPutSpec
INVARIANTS
  PutTypeOK
  PutSuccessIsStored
  DiskIsPrefix
  PutNeverHangs
PROPERTIES
  PutIsReliable
  PutEnds
