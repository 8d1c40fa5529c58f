\* Finite instance of HalfOpenProbe.
CONSTANTS
  g1 = g1
  g2 = g2
  q1 = q1
  q2 = q2
  q3 = q3
  a1 = a1
  l1 = l1
  l2 = l2
  l3 = l3
  l4 = l4
  l5 = l5
  Never = Never
  None = None
  Gateway = {g1, g2}
  Request = {q1, q2}
  Home <- HomeOfTwo
  Route = {1, 2}
  Account = {a1}
  AccountOf <- OneAccount
  FirstWait <- Due
  LeaseId = {l1, l2, l3}
  LeaseSeconds = 1
  Cooldown = 1
  MaxCrashes = 0
  MaxFaults = 0
SYMMETRY SymmetryOfTwo
SPECIFICATION Spec
INVARIANTS OwnedIsInUse
PROPERTIES ImplementsCircuit
