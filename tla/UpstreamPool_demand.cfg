SPECIFICATION Spec
CONSTANTS
  Task = {s1, s2}
  Key = {k1}
  ConnectLoop = loop
  BATCH = 1
  MaxFailures = 0
  MaxSuspensions = 0
  MaxFaults = 0
INVARIANT DemandIsServed
