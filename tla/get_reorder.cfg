CONSTANTS
  BlockMod = 8
  JobMod = 16
  BlockSize = 2
  FileLen = 5
  Retries = 1
  Requests <- MCWindow2
  MaxTimers = 4
  MaxAge = 2
  Fifo = TRUE
  IOFaults = FALSE
  Crashes = FALSE
  ClientOptions <- MCWindowOptions
  ClientRetries = 1
  ClientFaults = FALSE
  ChanCap = 2
  Reorder = TRUE
  Duplicate = FALSE
  Strangers = FALSE
SPECIFICATION GetSpec
INVARIANT
  FileIsPrefix
