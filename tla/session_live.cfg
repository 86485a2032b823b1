CONSTANTS
  BlockMod = 8
  JobMod = 16
  BlockSize = 2
  FileLen = 9
  Retries = 1
  Requests <- MCServedRequests
  MaxTimers = 4
  MaxAge = 3
  Fifo = FALSE
  IOFaults = FALSE
  Crashes = FALSE
SPECIFICATION FairAdaptiveSpec
INVARIANTS
  WaitingIsTimed
  CleanCloseIsComplete
  NoResentSample
PROPERTIES
  ClosingTerminates
  SessionTerminates
