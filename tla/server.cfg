CONSTANTS
  Setups <- MCServers
  PendMod = 4
SPECIFICATION FairServerSpec
INVARIANTS
  ServerTypeOK
  SlotIsFree
  SearchSucceeds
  SemaphoreCountsJobs
  NoOverbooking
PROPERTY
  KeepsListening
CHECK_DEADLOCK FALSE
