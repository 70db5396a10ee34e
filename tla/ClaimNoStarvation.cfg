\* Documentation: no job starves.
CONSTANTS
  Requests = {r1, r2, r3}
  Models <- MutexModels
  Pools <- MutexPools
  PoolOf <- MutexPoolOf
  Cap <- MutexCap
  Budget <- MutexBudget
  Exclusive = {"slot"}
  Unit = 4
  CostOverride <- MutexCost
  DefaultCost = 5
  FullPool = {"slot"}
  Weights = {1}
  Priorities = {0}
  DefaultPriority = 0
  AgingRate = 0
  MaxTime = 0
  Keys = {key}
  Ceilings = {}
  CeilingSource = FALSE
  NoWaiter = NoWaiter
  NoCeiling = NoCeiling
SPECIFICATION FairSpec
PROPERTY EveryWaiterServed
