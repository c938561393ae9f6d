SPECIFICATION FairSpec
CONSTANTS
    Threads = {t1, t2, t3}
    Uids = {0, 1, 5}
    NBits = 2
    MaxTries = 2
    MaxCalls = 3
INVARIANTS
    RefcountAccounting
    SeqlockInv
    UnracedHitIsStable
    QuiescentCacheAccepts
PROPERTY
    QueryTerminates
