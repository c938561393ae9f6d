SPECIFICATION FairSpec
CONSTANTS
    MaxCommands = 3
    MaxMessages = 2
INVARIANTS
    ResultIsTheAnswer
    LinesInSync
PROPERTY
    EveryWaitEnds
