CONSTANTS
  BlockMod = 4
  JobMod = 16
  BlockSize = 2
  FileLen = 3
  Retries = 1
  Requests <- MCBoth
  MaxTimers = 4
  MaxAge = 2
  Fifo = TRUE
  IOFaults = FALSE
  Crashes = TRUE
  ClientOptions <- MCGetOptions
  ClientRetries = 1
  ClientFaults = FALSE
  ChanCap = 2
  Reorder = FALSE
  Duplicate = FALSE
  Strangers = FALSE
SPECIFICATION FairGetSpec
PROPERTY
  TransferEnds
