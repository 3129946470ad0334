SPECIFICATION FulfilmentFairSpec
CONSTANTS
    Worker = {w1, w2}
    Id = {i1}
    Email = {acme}
    MaxRescue = 1
    ResentBound = 1
    QueryFails = FALSE
    UpsertFails = TRUE
    Stage2Steps = 2
    NoId = NoId
    NoEmail = NoEmail
INVARIANTS
    FulfilmentTypeOK
    BuiltWasPaid
    AcknowledgedIsDone
    Stage2AfterStage1
    ActivatedIsComplete
PROPERTIES
    StoredPaymentHandedOff
    PaidIsHandled
    PauseTakesEffect
    ImplementsActivation
