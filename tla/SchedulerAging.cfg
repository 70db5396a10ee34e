\* Aging, and ceilings that change between pumps.
CONSTANTS
  Requests = {r1, r2, r3}
  Models <- AgingModels
  Pools <- SharedPools
  PoolOf <- AgingPoolOf
  Cap <- AgingCap
  Budget <- SharedBudget
  Exclusive = {}
  Unit = 4
  CostOverride <- AgingCost
  DefaultCost = 5
  FullPool = {}
  Weights = {1, 4}
  Priorities = {0, 1}
  DefaultPriority = 0
  AgingRate = 1
  MaxTime = 2
  Keys = {key}
  Ceilings = {1}
  CeilingSource = TRUE
  NoWaiter = NoWaiter
  NoCeiling = NoCeiling
SYMMETRY Symmetry
SPECIFICATION Spec
INVARIANTS LedgerExact ReservationSound NoMissedAdmission
PROPERTIES FrozenWhileReserved HeadNotOvertaken SameModelInOrder
