SPECIFICATION Spec
CONSTANTS
    a = a
    b = b
    c = c
    d = d
    x = x
    y = y
    ruleA = ruleA
    ruleB = ruleB
    w1 = w1
    k1 = k1
    Supervisors = {w1}
    Cli = Cli
    Cohorts = {k1}
    NoCohort = NoCohort
    Ideas = {a, c}
    Rules = {ruleA, ruleB}
    Routes = {x, y}
    RuleOf <- MCRuleOf
    RoutesOf <- WideRoutes
    LeadOf <- WideLead
    Revisions = {c}
    NonEntry = {}
    NoIdea = NoIdea
    PValues = {30, 45, 200}
    FdrLevel = 50
    Requested = 2
    Limit = 1
    LowWatermark = 4
    MaxEvents = 1
INVARIANTS
    EarnedBaselines
    FamilyAgrees
    ActiveIsComplete
PROPERTIES
    ReleasesFit
CHECK_DEADLOCK FALSE
