\* One part in turn: a thread with two clients, a mutex, a sleep, an atomic.
CONSTANTS
    t1 = t1
    t2 = t2
    \* Thread
    Clients = {c1, c2}
    ExitCodes = {0, 1}
    Threw = Threw
    Nothing = Nothing
    \* Mutex: three threads, with room for two mutex_lock objects each
    Threads = {t1, t2, t3}
    NoOne = NoOne
    Objects = {m1, m2}
    Win32 = TRUE
    MayRelock = TRUE
    \* Sleep: a second of three nanoseconds, milliseconds of two, and Sleep takes two of them at a time
    PerSecond = 3
    PerMs = 2
    MostMs = 2
    MaxSleep = 7
    \* Atomic: two bits of T in a representation of four
    Workers <- TwoThreads
    TValues = 4
    ReprValues = 16
    Rounds = 3
    NotLooping = NotLooping
SPECIFICATION PartsSpec
INVARIANTS
    PartsTypeOK
    RefsCounted
    HandlesAccounted
    NoOwnerOnEntry
    LockObjectsTellOwner
    SleepsLongEnough
    SleepsNoLonger
    LosesNoIncrement
PROPERTIES
    KeepsPromise
    JoinReturns
    ImplementsLock
    LockReturns
    LoopsEnd
