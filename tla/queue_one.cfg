SPECIFICATION Spec
CONSTANTS
    s1 = s1
    s2 = s2
    w1 = w1
    a = a
    b = b
    None = None
    Items = {a, b}
    Supervisors = {s1}
    SoloWorkers = {}
    NoWorker = None
    HpoItems = {b}
    GatedItems = {}
    PlainItems = {}
    LegacyItems = {a}
    MaxAttempts = 2
    BatchLimit = 2
    ActiveLimit = 2
    CohortMin = 1
    MaxCrashes = 1
    MaxAgings = 1
    MaxDeferrals = 1
    MaxOperator = 1
INVARIANTS TypeOK AwaitingHasEvidence FinishedIsEvaluated
PROPERTIES KeptUntilEvaluated
