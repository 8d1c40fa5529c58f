\* Deadlock is not checked: a behaviour ends when the plan is made.
CHECK_DEADLOCK FALSE
CONSTANTS
  Model <- ThreeModels
  Route <- FourRoutes
  ModelOf <- ModelOfFour
  Priority <- PriorityOfFour
  MaxFallbacks = 2
SPECIFICATION Spec
INVARIANTS TypeOK PlanIsOrdered CyclesAreFound
