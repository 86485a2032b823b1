CONSTANTS
  BlockMod = 4
  JobMod = 16
  BlockSize = 2
  FileLen = 9
  Retries = 2
  Requests <- MCAllRequests
  MaxTimers = 5
  MaxAge = 2
  Fifo = TRUE
  IOFaults = TRUE
  Crashes = TRUE
SPECIFICATION SessionSpec
INVARIANTS
  TypeOK
  ClosedMeansQuiet
  NeverHung
  SessionInv
  EmptyWindowProgresses
  WindowBound
  SentDataFaithful
  WrittenIsPrefix
PROPERTY
  SessionIsJob
