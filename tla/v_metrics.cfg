SPECIFICATION Spec
CONSTANTS
    e1 = e1
    e2 = e2
    None = None
    Executors = {e1}
    MaxSessions = 3
    MaxPolls = 2
    CircuitLimit = 2
    MaxCrashes = 0
    MaxLost = 0
    MaxForgotten = 0
    MaxTimeouts = 0
    MaxOperator = 0
INVARIANT MetricsExact
CHECK_DEADLOCK FALSE
