\* A relock never returns on POSIX.
CONSTANTS
    Threads = {t1, t2}
    NoOne = NoOne
    Objects = {o1, o2}
    Win32 = FALSE
    MayRelock = TRUE
SPECIFICATION MutexFairSpec
PROPERTIES
    RelockThrows
CHECK_DEADLOCK FALSE
