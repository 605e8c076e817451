\* The clock is set back to before the start of the program.
CONSTANTS
    ClockModulus = 32
    ClockStart = 2
    Earliest = 1
    Latest = 6
    MostRun = 5
SPECIFICATION WatchSpec
INVARIANTS
    NeverNegative
CHECK_DEADLOCK FALSE
