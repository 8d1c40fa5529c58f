\* Deadlock is not checked: a behaviour ends when its attempts are made.
CHECK_DEADLOCK FALSE
CONSTANTS
  a1 = a1
  a2 = a2
  a3 = a3
  Attempt = {a1}
  Deployments = {"postgres"}
  FlushLimit = 1
  MaxOutages = 1
  MaxCrashes = 0
  MaxFaults = 0
  MaxDepartures = 0
SPECIFICATION FairSpec
PROPERTIES DeliveredOnceReachable
