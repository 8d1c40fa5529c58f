\* Finite instance of LocalGateway.
CONSTANTS
  q1 = q1
  q2 = q2
  a1 = a1
  Never = Never
  Stores = {"snapshot", "sqlite", "fallback"}
  Captured = {"closed", "open"}
  Request = {q1, q2}
  Route = {1, 2}
  Account = {a1}
  AccountOf <- OneAccount
  Cooldown = 1
  MaxFaults = 1
SPECIFICATION FairSpec
INVARIANTS TypeOK HalfOpenIsInUse OnlyFailuresAreFollowed
PROPERTIES HalfOpenIsDecided AnswerIsOnRecord ClosedIsOnRecord ImplementsCircuit
