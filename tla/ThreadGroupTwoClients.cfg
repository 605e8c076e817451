\* Two clients, two threads in the group's life, one or two cpus.
CONSTANTS
    Clients = {c1, c2}
    NoOne = NoOne
    MaxThreads = 2
    MaxCpus = 2
    Targets = {0, 2}
    SizeMod = 3
    Impatient = {c1, c2}
    StartMayFail = TRUE
    FnMayThrow = TRUE
    StopFnMayThrow = TRUE
    CopyMayThrow = {"started", "exiting", "joining", "joined"}
    JoinMayThrow = TRUE
SYMMETRY ClientSymmetry
SPECIFICATION Spec
INVARIANTS
    TypeOK
    NotYetJoinedCounted
    OneJoinerPerThread
    NoThreadIsLost
    Consistent
PROPERTIES
    JoinTellsTheTruth
    StopFnCalledWhenProvided
    StatesMoveForward
    ImplementsPool
