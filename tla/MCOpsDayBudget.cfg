SPECIFICATION DaySpec
CONSTANTS
    digest = digest
    nobody = nobody
    executiveDigest = executiveDigest
    NoKey = NoKey
    Slot = {s1}
    EventType = {digest}
    AllowedEvents = {digest}
    Entity = {nobody}
    Module = {executiveDigest}
    ModuleOf <- MCModuleOf
    CriticalModules = {executiveDigest}
    MaxDaily <- MCMaxDaily
    DebounceSeconds = 1
    DailyBudget = 1
    AlertThreshold = 1
    DigestKey <- MCDigestKey
    CrewCost = 1
    SpendBound = 2
    RestartBound = 1
PROPERTY BudgetBlocksRuns
