SPECIFICATION FairSpec
CONSTANTS
    Worker = {w1, w2}
    Id = {i1}
    Email = {acme}
    MaxRescue = 1
    ResentBound = 2
    QueryFails = FALSE
    UpsertFails = FALSE
    NoId = NoId
    NoEmail = NoEmail
PROPERTIES
    WebhookIdempotent
