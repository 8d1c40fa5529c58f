\* Deadlock is not checked: with SQLite a behaviour ends when all rows are created.
CHECK_DEADLOCK FALSE
CONSTANTS
  Backends = {"postgres", "sqlite"}
  Key <- MCKey
  Model <- MCModel
  Account <- MCAccount
  Route <- MCRoute
  Fallback <- MCFallback
  References <- MCReferences
  Slot <- MCSlot
  Existing <- MCExisting
  Sensitive = {"s"}
  Command = {c1, c2}
  None = None
SPECIFICATION Spec
INVARIANTS TypeOK RowsAreUsable SnapshotIsWhole SnapshotIsLoadable
PROPERTIES NothingForgotten
