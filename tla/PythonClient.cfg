SPECIFICATION FairSpec
CONSTANTS
    Callers = {k1}
    NConns = 1
    MaxRestarts = 1
    MaxPause = 2
    MaxCommands = 1
    MaxGens = 3
CHECK_DEADLOCK FALSE
INVARIANT CurrentQueuesServed
INVARIANT RestartsBounded
PROPERTY NothingLeft
