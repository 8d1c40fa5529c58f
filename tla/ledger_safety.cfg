\* Deadlock is not checked: a behaviour ends when its attempts are made.
CHECK_DEADLOCK FALSE
CONSTANTS
  a1 = a1
  a2 = a2
  a3 = a3
  Attempt = {a1, a2}
  Deployments = {"postgres", "sqlite"}
  FlushLimit = 1
  MaxOutages = 1
  MaxCrashes = 1
  MaxFaults = 3
  MaxDepartures = 1
SYMMETRY SymmetryOfTwo
SPECIFICATION Spec
INVARIANTS TypeOK AcceptedNotLost EndIsOnRecord
PROPERTIES ImplementsLedger
