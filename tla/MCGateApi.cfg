SPECIFICATION Spec
CONSTANTS
    lead = lead
    digest = digest
    unlisted = unlisted
    acme = acme
    salesTriage = salesTriage
    executiveDigest = executiveDigest
    unknown = unknown
    EventType <- MCEventType
    AllowedEvents <- MCAllowedEvents
    Entity <- MCEntity
    Module <- MCModule
    ModuleOf <- MCModuleOf
    CriticalModules <- MCCritical
    MaxDaily <- MCMaxDaily
    DebounceSeconds = 2
    DailyBudget = 3
    AlertThreshold = 2
    Costs = {0, 1, 2}
    CostBound = 3
    CountBound = 2
INVARIANTS
    GateTypeOK
    AlertTracksSpend
PROPERTIES
    PersistentSenderAdmitted
    WindowClosesOnTime
