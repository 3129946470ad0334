SPECIFICATION FairSpec
CONSTANTS
    Worker = {w1, w2}
    Account = {acme, bolt}
    NoAccount = NoAccount
    OnFile = {acme}
    Stage2Steps = 3
INVARIANT
    Stage2NeedsPaymentMethod
