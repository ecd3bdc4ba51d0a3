SPECIFICATION Spec
CONSTANTS
    s1 = s1
    w1 = w1
    p1 = p1
    p2 = p2
    Studies = {s1}
    Supervisors = {w1}
    Periods = {p1, p2}
    NoPeriod = NoPeriod
    Nobody = Nobody
    MaxJobs = 1
    MaxCrashes = 0
    MaxOverruns = 0
    MaxImports = 1
    MaxOperator = 0
INVARIANTS
    ValidatedOnUnseenPeriod
