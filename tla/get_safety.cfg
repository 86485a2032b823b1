CONSTANTS
  BlockMod = 4
  JobMod = 16
  BlockSize = 2
  FileLen = 5
  Retries = 1
  Requests <- MCBoth
  MaxTimers = 4
  MaxAge = 2
  Fifo = TRUE
  IOFaults = FALSE
  Crashes = FALSE
  ClientOptions <- MCListOptions
  ClientRetries = 1
  ClientFaults = TRUE
  ChanCap = 2
  Reorder = FALSE
  Duplicate = TRUE
  Strangers = TRUE
SPECIFICATION GetSpec
INVARIANTS
  GetTypeOK
  FileIsPrefix
  SuccessIsComplete
  NeverAhead
  CleanCloseMeansDelivered
  UnsupportedMeansUntouched
PROPERTY
  GetIsReliable
