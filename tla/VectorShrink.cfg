\* resize to fewer elements, by a user who avoids every other pitfall.
CONSTANTS
    Values = {d, x}
    Default = d
    Raw = Raw
    MaxSize = 2
    Vectors = {v1}
    That = That
    MayThrow = TRUE
    Avoided = {"regrow", "own", "shorter", "unborn"}
SPECIFICATION Spec
INVARIANTS
    SlotsHoldElements
CHECK_DEADLOCK FALSE
