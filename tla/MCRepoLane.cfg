SPECIFICATION Spec
CONSTANTS
    seo = seo
    billing = billing
    hotfix = hotfix
    low = low
    source = source
    payment = payment
    other = other
    invoice = invoice
    note = note
    doc = doc
    web = web
    crew = crew
    handler = handler
    adapter = adapter
    byway = byway
    Runner = {r1, r2}
    Plan = {low, source, payment, other, invoice, note}
    Class = {seo, billing, hotfix}
    Name = {seo, billing}
    Path = {doc, web, crew, handler, adapter, byway}
    File = {doc, web, crew, handler, adapter}
    ClassOf <- MCClassOf
    PatchesOf <- MCPatchesOf
    NameOf <- MCNameOf
    FileOf <- MCFileOf
    AutoPatchClasses = {seo}
    PrOnlyClasses = {hotfix}
    BlockedClasses = {billing}
    BlockedPaths = {handler, adapter}
    LowRiskPaths = {doc, web, byway}
    LastSecond = 1
    NoPlan = NoPlan
    NoBranch = NoBranch
SYMMETRY RunnerSymmetry
INVARIANTS
    TypeOK
    
    UnapprovedStaysLowRisk
    PullRequestsAllowed
PROPERTIES
    ImplementsReviewQueue
