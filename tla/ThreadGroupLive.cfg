\* Two joiners and a well-behaved thread function: joins return.
CONSTANTS
    Clients = {c1, c2}
    NoOne = NoOne
    MaxThreads = 2
    MaxCpus = 1
    Targets = {0, 2}
    SizeMod = 3
    Impatient = {}
    StartMayFail = FALSE
    FnMayThrow = FALSE
    StopFnMayThrow = FALSE
    CopyMayThrow = {"started"}
    JoinMayThrow = FALSE
SPECIFICATION FairSpec
INVARIANTS
    NoAbandonedJoin
PROPERTIES
    JoinReturns
    LockIsReleased
