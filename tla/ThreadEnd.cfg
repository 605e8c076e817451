\* The thread reads its object after it has dropped its reference.
CONSTANTS
    Clients = {c1}
    ExitCodes = {0}
    Threw = Threw
    Nothing = Nothing
SPECIFICATION Spec
INVARIANTS
    AliveAtTheEnd
CHECK_DEADLOCK FALSE
