SPECIFICATION FairSpec
CONSTANTS
    e1 = e1
    r1 = r1
    r2 = r2
    Experiments = {e1}
    Runs = {r1}
    RunOf <- MCRunOf
    Finished = {r1}
    analyzer = analyzer
    sanitizer = sanitizer
    Evaluators = {analyzer, sanitizer}
    Analyzer = analyzer
    Supervisor = Supervisor
    Cli = Cli
    NoJudgement = NoJudgement
    NoEvidence = NoEvidence
    BatchSize = 1
    CliLimit = 1
    MaxJudgements = 2
    MaxFaults = 1
INVARIANTS
    VerdictsAreRevised
    LatestVerdictInEvidence
    DeliveredIsStored
    CopiesBounded
    ReadyMeansRemembered
PROPERTIES
    PromiseHolds
    InitEnds
    InitRemembers
CHECK_DEADLOCK FALSE
