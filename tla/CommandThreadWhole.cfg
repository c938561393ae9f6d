SPECIFICATION FairSpec
CONSTANTS
    LineKinds = {"text", "?quit", "?reset", "?stat"}
    IdleShutdown = TRUE
    MayFail = FALSE
    CheckInterval = 2
    MaxIncreases = 1
    MaxUsage = 2
    MaxPipeline = 1
    MaxRuntimes = 3
INVARIANT
    CommandStateReleased
PROPERTIES
    CloseEndsServer
    IdleInterpreterShutDown
