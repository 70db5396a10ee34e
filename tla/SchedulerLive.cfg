\* An exclusive pool beside a shared one, requests of equal priority: what runs
\* respects both, and the waiters of the shared pool are all served.
CONSTANTS
  Requests = {r1, r2, r3}
  Models <- MutexModels
  Pools <- MutexPools
  PoolOf <- MutexPoolOf
  Cap <- MutexCap
  Budget <- MutexBudget
  Exclusive = {"slot"}
  Unit = 4
  CostOverride <- MutexCost
  DefaultCost = 5
  FullPool = {"slot"}
  Weights = {1, 4}
  Priorities = {0}
  DefaultPriority = 0
  AgingRate = 0
  MaxTime = 0
  Keys = {key}
  Ceilings = {}
  CeilingSource = FALSE
  NoWaiter = NoWaiter
  NoCeiling = NoCeiling
SPECIFICATION FairSpec
INVARIANTS TypeOK NoStall CapacityRespected
PROPERTIES ImplementsPoolAdmission SharedWaitersServed
