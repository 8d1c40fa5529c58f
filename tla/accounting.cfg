\* Deadlock is not checked: a behaviour ends when its attempts are made.
CHECK_DEADLOCK FALSE
CONSTANTS
  a1 = a1
  a2 = a2
  own = own
  other = other
  s1 = s1
  s2 = s2
  None = None
  Attempt = {a1, a2}
  Account = {own, other}
  AccountOf <- OneAccount
  SnapshotId = {s1, s2}
  Quantity = {1, 2}
  Reports <- MCReports
  Modes = {"primary", "snapshot", "sqlite"}
  MaxFaults = 2
SPECIFICATION Spec
INVARIANTS TypeOK BillingIsWhole InspectionIsWhole QuotasAreOwn ReportIsKept
PROPERTIES QuotasStay
