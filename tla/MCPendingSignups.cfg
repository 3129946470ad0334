SPECIFICATION Spec
CONSTANTS
    Worker = {w1, w2}
    Id = {i1, i2}
    Email = {acme, bolt}
    MaxRescue = 1
    ResentBound = 2
    QueryFails = TRUE
    UpsertFails = TRUE
    NoId = NoId
    NoEmail = NoEmail
SYMMETRY Symmetry
INVARIANTS
    TypeOK
    RescueCounterSound
    CompletedOnlyIfPaid
    LinkGoesToLead
