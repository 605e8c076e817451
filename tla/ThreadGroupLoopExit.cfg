\* Another client stores the target after both comparisons and before the assertion reads it.
CONSTANTS
    Clients = {c1, c2}
    NoOne = NoOne
    MaxThreads = 2
    MaxCpus = 1
    Targets = {0, 2}
    SizeMod = 4
    Impatient = {}
    StartMayFail = FALSE
    FnMayThrow = FALSE
    StopFnMayThrow = FALSE
    CopyMayThrow = {"started"}
    JoinMayThrow = FALSE
SPECIFICATION Spec
INVARIANTS
    LoopExitAssertion
