SPECIFICATION Spec
CONSTANTS
    e1 = e1
    e2 = e2
    None = None
    Executors = {e1, e2}
    MaxSessions = 3
    MaxPolls = 2
    CircuitLimit = 2
    MaxCrashes = 0
    MaxLost = 0
    MaxForgotten = 1
    MaxTimeouts = 1
    MaxOperator = 0
SYMMETRY Symmetry
INVARIANTS OneReplacement
PROPERTIES RunKeepsCheckpoint
CHECK_DEADLOCK FALSE
