\* A thread function that throws keeps join waiting forever.
CONSTANTS
    Clients = {c1}
    NoOne = NoOne
    MaxThreads = 1
    MaxCpus = 1
    Targets = {0, 1}
    SizeMod = 3
    Impatient = {}
    StartMayFail = FALSE
    FnMayThrow = TRUE
    StopFnMayThrow = FALSE
    CopyMayThrow = {"started"}
    JoinMayThrow = FALSE
SPECIFICATION FairSpec
PROPERTIES
    JoinReturnsOnceAllExited
