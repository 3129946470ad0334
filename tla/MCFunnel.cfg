SPECIFICATION Spec
CONSTANTS
    Worker = {w1}
    Id = {i1, i2}
    Email = {acme, bolt}
    MaxRescue = 1
    ResentBound = 2
    QueryFails = FALSE
    UpsertFails = FALSE
    NoId = NoId
    NoEmail = NoEmail
    CheckoutThreshold = 50
    ActivationFailureThreshold = 20
    ProvisioningFailureThreshold = 15
SYMMETRY Symmetry
INVARIANT
    PauseAdvisedWhenCheckoutDrops
