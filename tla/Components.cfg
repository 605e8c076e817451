\* Each component in turn: the builds and the ways of use that module MCComponents names.
CONSTANTS
    t1 = t1  t2 = t2
    v1 = v1  v2 = v2
    a1 = a1  a2 = a2  b1 = b1
    \* Elements, Vector
    Values = {d, x}
    Default = d
    Raw = Raw
    MaxSize = 2
    Vectors = {v1, v2}
    That = That
    MayThrow = TRUE
    Avoided = {"shrink", "regrow", "own", "shorter", "unborn"}
    \* Rptr
    Users = {t1, t2}
    Locals = {a1, a2, b1}
    Objects = {o1, o2}
    UserOf <- ThreadOfLocal
    Null = Null  MovedFrom = MovedFrom  Gone = Gone  Loose = Loose  NoWork = NoWork
    Debug = TRUE
    Careful = TRUE
    \* Permutation: sizes reach the limit of their type in two more than MaxIndex
    Perms = {v1, v2}
    MaxIndex = 3
    Modulus = 5
    \* Optional
    Opts = {v1, v2}
    Tmp = Tmp  Third = Third  Moved = Moved
    MaySelf = FALSE
    \* Utf8: the octets and scalar values on both sides of each limit in the code
    Octets = {0, 65, 127, 128, 143, 144, 159, 160, 191, 192, 193, 194, 223, 224, 237, 238, 239, 240,
              244, 245, 247, 248, 255}
    Scalars = {0, 65, 127, 128, 2047, 2048, 55295, 57344, 65535, 65536, 1114111}
    Asserts = FALSE
    \* Stopwatch: the clock starts at 2, and is not set back before that
    ClockModulus = 32
    ClockStart = 2
    Earliest = 2
    Latest = 6
    MostRun = 5
    \* HostInfo
    Kinds = {"configured", "available"}
    Counts = {1, 2}
    MaxAge = 1
    AgeModulus = 16
    MaxTime = 2
    Nobody = Nobody
    \* Affinity
    Callers = {t1, t2}
    Masks = {{0}, {0, 1}, {1, 2}}
    MostIndex = 2
    Anywhere = Anywhere
SPECIFICATION PartsSpec
INVARIANTS
    PartsTypeOK
    SlotsHoldElements
    NoFaults
    OutcomeAsPromised
    ExistsWhilePointedTo
    SourceOutlivesTarget
    MutuallyInverse
    RotateRotates
    
    
    AcceptsWhatIsWritten
    TimeAddsUp
    AnswersAreRecent
    SpreadsOut
    AnyIndexBinds
