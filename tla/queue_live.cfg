SPECIFICATION FairSpec
CONSTANTS
    s1 = s1
    s2 = s2
    w1 = w1
    a = a
    b = b
    None = None
    Items = {a, b}
    Supervisors = {s1}
    SoloWorkers = {}
    NoWorker = None
    HpoItems = {b}
    GatedItems = {a}
    PlainItems = {}
    LegacyItems = {}
    MaxAttempts = 2
    BatchLimit = 1
    ActiveLimit = 2
    CohortMin = 2
    MaxCrashes = 1
    MaxAgings = 0
    MaxDeferrals = 1
    MaxOperator = 0
PROPERTIES EveryItemResolves
