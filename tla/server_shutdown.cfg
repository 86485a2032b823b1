CONSTANTS
  Setups <- MCShutdown
  PendMod = 4
SPECIFICATION ServerSpec
INVARIANT
  SessionsAwaited
CHECK_DEADLOCK FALSE
