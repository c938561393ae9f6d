SPECIFICATION FilesSpec
CONSTANTS
    NThreads = 2
    DebugBuild = TRUE
    MaxInterpreters = 3
    MaxLoads = 4
INVARIANTS
    ReadsFindMapping
    MappingsReleasedOnce
