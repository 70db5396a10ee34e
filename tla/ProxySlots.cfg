\* Breaker, ceiling, an engine without abort and an unadmittable cost.
CONSTANTS
  Requests = {r1, r2, r3}
  Models = {"chat", "slot"}
  Gated = {"chat"}
  Fails = 1
  Cooldown = 1
  Pools = {"default"}
  PoolOf <- MCPoolOf
  Cap <- MCCap
  Budget <- MCBudget
  Exclusive = {}
  CostsOf <- MCCostsOf
  Sized = {"chat"}
  Abort = {"chat"}
  NoModel = NoModel
  NoJob = NoJob
SPECIFICATION FairQSpec
INVARIANTS QTypeOK SlotsExact OneEvent
PROPERTIES CancelHonoured UsesPoolAdmission CancelAnswered
