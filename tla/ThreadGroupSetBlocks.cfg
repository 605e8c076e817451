\* Requesting all threads to stop may spin forever.
CONSTANTS
    Clients = {c1}
    NoOne = NoOne
    MaxThreads = 2
    MaxCpus = 1
    Targets = {0, 1}
    SizeMod = 3
    Impatient = {}
    StartMayFail = FALSE
    FnMayThrow = FALSE
    StopFnMayThrow = FALSE
    CopyMayThrow = {"started"}
    JoinMayThrow = FALSE
SPECIFICATION FairSpec
PROPERTIES
    RequestAllStopReturns
