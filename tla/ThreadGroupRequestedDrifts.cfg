\* The count of requested threads is not what its comment says.
CONSTANTS
    Clients = {c1}
    NoOne = NoOne
    MaxThreads = 2
    MaxCpus = 1
    Targets = {0, 2}
    SizeMod = 4
    Impatient = {}
    StartMayFail = FALSE
    FnMayThrow = FALSE
    StopFnMayThrow = FALSE
    CopyMayThrow = {"started"}
    JoinMayThrow = FALSE
SPECIFICATION Spec
INVARIANTS
    RequestedCountsUnasked
