SPECIFICATION FairSpec
CONSTANTS
    a = a
    b = b
    c = c
    d = d
    x = x
    y = y
    ruleA = ruleA
    ruleB = ruleB
    w1 = w1
    w2 = w2
    k1 = k1
    k2 = k2
    Supervisors = {w1}
    Cli = Cli
    Cohorts = {k1, k2}
    NoCohort = NoCohort
    Ideas = {b}
    Rules = {ruleA, ruleB}
    Routes = {x}
    RuleOf <- MCRuleOf
    RoutesOf <- OneRoute
    LeadOf <- OneLead
    Revisions = {b}
    NonEntry = {}
    NoIdea = NoIdea
    PValues = {30}
    FdrLevel = 50
    Requested = 1
    Limit = 1
    LowWatermark = 4
    MaxEvents = 2
INVARIANTS
    OneLease
PROPERTIES
    PlanningEnds
    PassedChainsResolve
CHECK_DEADLOCK FALSE
