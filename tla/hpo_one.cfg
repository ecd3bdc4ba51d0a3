SPECIFICATION FairSpec
CONSTANTS
    s1 = s1
    w1 = w1
    p1 = p1
    p2 = p2
    Studies = {s1}
    Supervisors = {w1}
    Periods = {p1, p2}
    NoPeriod = NoPeriod
    Nobody = Nobody
    MaxJobs = 2
    MaxCrashes = 1
    MaxOverruns = 0
    MaxImports = 2
    MaxOperator = 1
INVARIANTS
    AnalysisHasJob
    ParkedHasNoTrials
    PartitionsDisjoint
PROPERTIES
    DecisionStands
    FinishedIsHandedOver
    TrialsAreAnalyzed
