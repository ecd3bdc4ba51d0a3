SPECIFICATION Spec
CONSTANTS
    s1 = s1
    s2 = s2
    w1 = w1
    a = a
    b = b
    None = None
    Items = {a}
    Supervisors = {s1}
    SoloWorkers = {w1}
    NoWorker = None
    HpoItems = {}
    GatedItems = {}
    PlainItems = {a}
    LegacyItems = {}
    MaxAttempts = 2
    BatchLimit = 1
    ActiveLimit = 1
    CohortMin = 1
    MaxCrashes = 2
    MaxAgings = 1
    MaxDeferrals = 1
    MaxOperator = 1
INVARIANTS AttemptsBounded ClaimsExclusiveUntilTimeout
PROPERTIES LifecycleHolds
