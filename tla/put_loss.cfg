CONSTANTS
  BlockMod = 4
  JobMod = 16
  BlockSize = 2
  FileLen = 3
  Retries = 2
  Requests <- MCWithOptions
  MaxTimers = 4
  MaxAge = 2
  Fifo = TRUE
  IOFaults = FALSE
  Crashes = FALSE
  PutOptions <- MCSome
  PutLens <- MCTwoBlocks
  PutRetries = 2
  RetryMod = 8
  PutFaults = FALSE
  ChanCap = 2
  Reorder = FALSE
  Duplicate = FALSE
  Reopens = 0
  Timely = TRUE
  MaxLosses = 1
SPECIFICATION PutSpec
INVARIANT
  LossIsRepaired
