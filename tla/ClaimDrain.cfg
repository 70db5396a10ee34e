\* Comment: the slot tracks real backend occupancy.
CONSTANTS
  Requests = {r1, r2, r3}
  Models = {"chat", "slot"}
  Gated = {"chat"}
  Fails = 1
  Cooldown = 1
  Pools = {"default"}
  PoolOf <- MCPoolOf
  Cap <- MCCap
  Budget <- MCBudget
  Exclusive = {}
  CostsOf <- MCCostsOf
  Sized = {"chat"}
  Abort = {"chat"}
  NoModel = NoModel
  NoJob = NoJob
SPECIFICATION QSpec
INVARIANT SlotTracksEngine
