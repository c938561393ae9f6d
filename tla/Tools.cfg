SPECIFICATION Spec
CONSTANTS
    p1 = p1
    p2 = p2
    p3 = p3
    Procs = {p1, p2, p3}
    Parser = p1
    BodyLen <- MCBodyLen
    MAX_THREADS = 2
INVARIANT AcceptsUsage
INVARIANT PairMatches
INVARIANT SignedModuleLoads
CHECK_DEADLOCK FALSE
