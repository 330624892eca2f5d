SPECIFICATION FairSpec
CONSTANTS
  Topic = {t1, t2, t3}
  Caller = {c1, c2}
  ConnectLoop = loop
  BATCH = 1
  MaxFailures = 2
  MaxSuspensions = 2
INVARIANTS
  TrackedIsLive
  ClientInv
PROPERTIES
  ReconnectKeepsTopics
  TrackedBecomesLive
