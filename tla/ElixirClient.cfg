SPECIFICATION Spec
CONSTANTS
    c1 = c1
    c2 = c2
    Callers = {c1, c2}
    NThreads = 2
    max_restarts = 2
    MaxFaults = 2
PROPERTY Recovers
PROPERTY OldServersEnd
CHECK_DEADLOCK FALSE
