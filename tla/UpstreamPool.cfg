SPECIFICATION FairSpec
CONSTANTS
  Task = {s1, s2}
  Key = {k1}
  ConnectLoop = loop
  BATCH = 1
  MaxFailures = 1
  MaxSuspensions = 1
  MaxFaults = 1
INVARIANTS
  OneSubscriber
  NoLeak
  UpstreamIsStreamed
  PoolInv
PROPERTY InFlightEnds
