SPECIFICATION FairSpec
CONSTANTS
    NThreads = 2
    InitMayFail = TRUE
    AnyThread = TRUE
    MaxBg = 1
INVARIANTS
    ReadyMeansReported
    FailureIsReported
    DestroyedAfterJoin
PROPERTIES
    StartupCompletes
    StopEndsProcess
