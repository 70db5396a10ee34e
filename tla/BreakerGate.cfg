\* A model with a breaker, whose upstream may heal, beside a model without one.
CONSTANTS
  Requests = {r1, r2, r3}
  Models = {gated, plain}
  Gated = {gated}
  Fails = 2
  Cooldown = 2
  NoModel = NoModel
SPECIFICATION FairCSpec
INVARIANTS CTypeOK ProbesApart
PROPERTIES TripsOnStreak Recovers
