SPECIFICATION FairSpec
CONSTANTS
  c1 = c1
  c2 = c2
  Client = {c1, c2}
  PING_INTERVAL = 2
  PING_TIMEOUT = 1
  RECONNECT_DELAY_INITIAL = 1
  RECONNECT_DELAY_MULTIPLIER = 2
  RECONNECT_DELAY_MAX = 3
  MaxConnections = 3
  MaxWaits = 2
INVARIANTS
  HandlersAreServed
  ShutdownLeavesNothing
  HeartbeatsEnd
  KeptAlive
  BackoffFollowsFailures
PROPERTIES
  ShutdownEnds
CHECK_DEADLOCK FALSE
