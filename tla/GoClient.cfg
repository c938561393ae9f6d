SPECIFICATION FairSpec
CONSTANTS
    Callers = {a}
    NConns = 1
    MoreConns = TRUE
    ChanCap = 1
    MaxCommands = 4
    MaxGens = 2
    MaxCrashes = 1
INVARIANTS
    OwnResponse
    AtMostOneServer
PROPERTIES
    CommandEnds
    DeadConnectionNoticed
    FirstRestartServes
CHECK_DEADLOCK FALSE
