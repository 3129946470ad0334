SPECIFICATION Spec
CONSTANTS
    lead = lead
    acme = acme
    bolt = bolt
    salesTriage = salesTriage
    NoKey = NoKey
    Worker = {w1, w2, w3}
    EventType = {lead}
    AllowedEvents = {lead}
    Entity = {acme, bolt}
    Module = {salesTriage}
    ModuleOf <- MCModuleOf
    CriticalModules = {}
    MaxDaily <- MCMaxDaily
    DebounceSeconds = 2
    DailyBudget = 2
    AlertThreshold = 1
SYMMETRY WorkerSymmetry
INVARIANTS
    TypeOK
    CountNeverAhead
    BurstBounded
