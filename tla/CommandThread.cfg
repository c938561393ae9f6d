SPECIFICATION Spec
CONSTANTS
    LineKinds = {"text", "cut", "?quit", "?reset", "?stat"}
    IdleShutdown = TRUE
    MayFail = TRUE
    CheckInterval = 1
    MaxIncreases = 0
    MaxUsage = 1
    MaxPipeline = 1
    MaxRuntimes = 3
INVARIANTS
    ParserInSync
    OkMeansWholeQuery
    ReplacementSafe
    CleanExit
PROPERTY
    ImplementsCommandService
