SPECIFICATION FairSpec
CONSTANTS
    lead = lead
    digest = digest
    acme = acme
    nobody = nobody
    salesTriage = salesTriage
    executiveDigest = executiveDigest
    NoKey = NoKey
    Slot = {s1, s2}
    EventType <- MCEventType
    AllowedEvents <- MCEventType
    Entity <- MCEntity
    Module <- MCModule
    ModuleOf <- MCModuleOf
    CriticalModules <- MCCritical
    MaxDaily <- MCMaxDaily
    DebounceSeconds = 2
    DailyBudget = 2
    AlertThreshold = 1
    DigestKey <- MCDigestKey
INVARIANTS
    TypeOK
    DailyCapHeld
    GateChecksHold
PROPERTIES
    RunsSpaced
    SafeModeRespected
    AcceptedSettles
    ImplementsAdmission
