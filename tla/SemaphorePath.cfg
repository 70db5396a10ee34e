\* Four requests for the two slots of one model, with cancellations at every await.
CONSTANTS
  Requests = {r1, r2, r3, r4}
  Cap = 2
  Model = m
  NoJob = NoJob
SPECIFICATION FairSSpec
INVARIANTS STypeOK SlotsExact
PROPERTIES CancelHonoured EveryoneAnswered ImplementsPoolAdmission
