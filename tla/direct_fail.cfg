SPECIFICATION FairSpec
CONSTANTS
    e1 = e1
    e2 = e2
    None = None
    Executors = {e1}
    MaxSessions = 5
    MaxPolls = 1
    CircuitLimit = 3
    MaxCrashes = 1
    MaxLost = 1
    MaxForgotten = 1
    MaxTimeouts = 0
    MaxOperator = 2
INVARIANTS NoOrphanWithoutCrash EvidenceIsReal RunsMatchRequest
PROPERTIES ItemSettles
CHECK_DEADLOCK FALSE
