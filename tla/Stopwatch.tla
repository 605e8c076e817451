----------------------------- MODULE Stopwatch -----------------------------
(***************************************************************************)
(* qak::stopwatch and the clock it reads, which counts unsigned            *)
(* nanoseconds from the start of the program.  The wall clock only goes    *)
(* forward; real time may be set back, while the stopwatch runs or before. *)
(***************************************************************************)
EXTENDS Integers

CONSTANTS
    ClockModulus,   \* 2^64
    ClockStart,     \* what the system's clock says when the program starts
    Earliest,       \* the earliest that the system's clock is set back to
    Latest,         \* bound: the latest that it goes to
    MostRun         \* bound: how long the stopwatch runs

StopwatchAssumption ==
    /\ ClockModulus \in Nat /\ ClockStart \in Nat /\ Earliest \in Nat /\ Latest \in Nat
    /\ MostRun \in Nat /\ ClockStart <= Latest
    /\ 2 * (Latest + MostRun) < ClockModulus

VARIABLES
    systemClock,    \* what clock_gettime returns
    stopped,        \* stopped
    accum,          \* accum_ns, signed
    started,        \* started_ns, unsigned
    ran,            \* how long it ran in fact since it was last set, in forward time
    taken,          \* how much of that reset has returned
    setBack         \* whether the clock has ever been set back

watchVars == <<systemClock, stopped, accum, started, ran, taken, setBack>>

\* The value of an int64_t with the bits of u.
Signed(u) == LET low == u % ClockModulus IN IF 2 * low < ClockModulus THEN low ELSE low - ClockModulus

\* read_time_source(timesrc): clock_gettime_ns less the offset of the program's start.
Reading == (systemClock - ClockStart) % ClockModulus

\* started_ns < now ? now - started_ns : 0
\* Mutant: without the comparison.
SinceUnchecked(now) == (now - started) % ClockModulus

Since(now) == IF started < now THEN now - started ELSE 0

\* What is added to accum_ns when the stopwatch stops, is reset or is read.
Accumulated == Signed(accum + Since(Reading))

elapsed_ns == IF stopped THEN accum ELSE Accumulated

\* stopwatch(stopped_in), with one of the clocks that count nanoseconds; for any other the constructor
\* throws and there is no stopwatch.
WatchInit ==
    /\ systemClock = ClockStart
    /\ stopped \in BOOLEAN /\ accum = 0
    /\ started = IF stopped THEN 0 ELSE Reading
    /\ ran = 0 /\ taken = 0 /\ setBack = FALSE

start ==
    /\ stopped
    /\ stopped' = FALSE /\ started' = Reading
    /\ UNCHANGED <<systemClock, accum, ran, taken, setBack>>

\* A negative time is refused before anything is changed.
restart(ns) ==
    /\ 0 <= ns
    /\ accum' = ns /\ stopped' = FALSE /\ started' = Reading
    /\ ran' = ns /\ taken' = 0
    /\ UNCHANGED <<systemClock, setBack>>

stop ==
    /\ ~stopped
    /\ accum' = Accumulated /\ started' = 0 /\ stopped' = TRUE
    /\ UNCHANGED <<systemClock, ran, taken, setBack>>

\* Mutant: the time since the start is returned, and counted again.
NotStartedAgain == started

\* What reset sets started_ns to.
StartedAgain == IF stopped THEN started ELSE Reading

\* reset()
stopwatch_reset ==
    /\ taken' = taken + elapsed_ns
    /\ accum' = 0 /\ started' = StartedAgain
    /\ UNCHANGED <<systemClock, stopped, ran, setBack>>

----------------------------------------------------------------------------
(* The clock.                                                              *)

ClockTicks ==
    /\ systemClock < Latest /\ (stopped \/ ran < MostRun)
    /\ systemClock' = systemClock + 1
    /\ ran' = IF stopped THEN ran ELSE ran + 1
    /\ UNCHANGED <<stopped, accum, started, taken, setBack>>

SetBack(to) ==
    /\ Earliest <= to /\ to < systemClock
    /\ systemClock' = to /\ setBack' = TRUE
    /\ UNCHANGED <<stopped, accum, started, ran, taken>>

WatchNext ==
    \/ start \/ stop \/ stopwatch_reset \/ ClockTicks
    \/ \E ns \in -1..MostRun : restart(ns)
    \/ \E to \in 0..Latest : SetBack(to)

WatchSpec == WatchInit /\ [][WatchNext]_watchVars

----------------------------------------------------------------------------
(* Properties.                                                             *)

\* By a clock that is never set back, what reset has returned and what the stopwatch shows
\* add up to the time it ran since it was started over: no time is lost or counted twice where
\* it is stopped, started and reset.  A clock that is set back takes time away from the stopwatch
\* at most, it never adds any.
TimeAddsUp ==
    /\ taken + elapsed_ns <= ran
    /\ ~setBack => taken + elapsed_ns = ran

\* "Sometimes clocks can jump backwards. We can't return perfect accuracy if that happens, but we can
\* at least avoid returning a negative value." (stopwatch.cxx, line 105)
NeverNegative == elapsed_ns >= 0

WatchTypeOK ==
    /\ systemClock \in 0..Latest /\ started \in 0..(ClockModulus - 1) /\ accum \in Int
    /\ stopped \in BOOLEAN /\ setBack \in BOOLEAN
    /\ ran \in 0..MostRun /\ taken \in Int
=============================================================================
