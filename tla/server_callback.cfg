CONSTANTS
  Setups <- MCMetrics
  PendMod = 4
SPECIFICATION FairServerSpec
PROPERTY
  CallbackIsPeriodic
CHECK_DEADLOCK FALSE
