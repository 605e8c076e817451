------------------------------- MODULE Sleep -------------------------------
(***************************************************************************)
(* this_thread::sleep_ns, on POSIX a loop around clock_nanosleep that a    *)
(* signal may interrupt, on Win32 a loop around Sleep, which takes at most *)
(* so many milliseconds at a time.                                         *)
(***************************************************************************)
EXTENDS Integers

CONSTANTS
    PerSecond,  \* nanoseconds in a second
    PerMs,      \* nanoseconds in a millisecond
    MostMs,     \* the milliseconds of one call of Sleep, 2^30
    MaxSleep    \* bound: the longest sleep asked for

SleepAssumption ==
    /\ MaxSleep \in Nat
    /\ PerSecond \in Nat \ {0} /\ PerMs \in Nat \ {0} /\ MostMs \in Nat \ {0}

VARIABLES
    posix,      \* the build: QAK_API_POSIX, otherwise QAK_API_WIN32
    doing,      \* where the thread is: "awake", "asleep", "interrupted", "returned" or "threw"
    asked,      \* the nanoseconds asked for
    slept,      \* those that have passed since
    request,    \* POSIX: the timespec requested; Win32: ms_remain as nsec
    remaining,  \* POSIX: the timespec that an interrupted call leaves
    errno       \* "EINTR", or another error that some call has had; clock_nanosleep leaves it alone

sleepVars == <<posix, doing, asked, slept, request, remaining, errno>>

Zero == [sec |-> 0, nsec |-> 0]

\* s = ns / 10^9, ns -= s * 10^9
Timespec(ns) ==
    LET s == ns \div PerSecond IN [sec |-> s, nsec |-> ns - s * PerSecond]

Nanoseconds(t) == t.sec * PerSecond + t.nsec

\* Mutant: the milliseconds are rounded down.
MsRoundedDown(ns) == ns \div PerMs

\* ms_remain: rounded up.
Milliseconds(ns) == LET ms == ns \div PerMs IN IF ms * PerMs < ns THEN ms + 1 ELSE ms

Errors == {"EINTR", "other"}

SleepInit ==
    /\ posix \in BOOLEAN /\ doing = "awake" /\ asked = 0 /\ slept = 0
    /\ request = Zero /\ remaining = Zero /\ errno \in Errors

\* A call; one for no time at all returns at once.
Sleep(ns) ==
    /\ doing \in {"awake", "returned", "threw"}
    /\ asked' = ns /\ slept' = 0
    /\ doing' = IF 0 < ns THEN "asleep" ELSE "returned"
    /\ request' = IF posix THEN Timespec(ns) ELSE [sec |-> 0, nsec |-> Milliseconds(ns)]
    /\ remaining' = Zero
    /\ UNCHANGED errno

\* Other calls that the thread makes have an error.
OtherError(e) ==
    /\ doing \in {"awake", "returned", "threw"}
    /\ errno' = e
    /\ UNCHANGED <<doing, asked, slept, request, remaining>>

----------------------------------------------------------------------------
(* POSIX.                                                                  *)

WakesUp ==
    /\ posix /\ doing = "asleep"
    /\ slept' = slept + Nanoseconds(request)
    /\ doing' = "returned"
    /\ UNCHANGED <<asked, request, remaining, errno>>

\* clock_nanosleep returns EINTR and what is left of the time.
IsInterrupted(ns) ==
    /\ posix /\ doing = "asleep" /\ ns < Nanoseconds(request)
    /\ slept' = slept + ns
    /\ remaining' = Timespec(Nanoseconds(request) - ns)
    /\ doing' = "interrupted"
    /\ UNCHANGED <<asked, request, errno>>

\* Mutant: the whole time is requested again.
RequestAgain == request

NextRequest == remaining

\* switch (errno), which is what an earlier call has left there.
Resumes ==
    /\ doing = "interrupted" /\ errno = "EINTR"
    /\ request' = NextRequest /\ remaining' = Zero /\ doing' = "asleep"
    /\ UNCHANGED <<asked, slept, errno>>

Fails ==
    /\ doing = "interrupted" /\ errno # "EINTR"
    /\ doing' = "threw"
    /\ UNCHANGED <<asked, slept, request, remaining, errno>>

----------------------------------------------------------------------------
(* Win32.                                                                  *)

\* Mutant: Sleep is given all that remains, in 32 bits.
SleepAll(ms) == ms % (MostMs + 1)

ToSleep(ms) == IF ms < MostMs THEN ms ELSE MostMs

SleepChunk ==
    /\ ~posix /\ doing = "asleep"
    /\ LET ms == ToSleep(request.nsec) IN
          /\ slept' = slept + ms * PerMs
          /\ request' = [sec |-> 0, nsec |-> request.nsec - ms]
          /\ doing' = IF request.nsec = ms THEN "returned" ELSE "asleep"
    /\ UNCHANGED <<asked, remaining, errno>>

SleepNext ==
    /\ \/ WakesUp \/ Resumes \/ Fails \/ SleepChunk
       \/ \E ns \in 0..MaxSleep : Sleep(ns) \/ IsInterrupted(ns)
       \/ \E e \in Errors : OtherError(e)
    /\ UNCHANGED posix

SleepSpec == SleepInit /\ [][SleepNext]_sleepVars

----------------------------------------------------------------------------
(* Properties.                                                             *)

\* "Suspends the calling thread for at least the specified time duration" (thread.hxx): a sleep that
\* returns has lasted as long as asked for, also in several parts.
SleepsLongEnough == doing = "returned" => slept >= asked

\* However often it is interrupted, a sleep on POSIX never lasts longer than asked for, and one on
\* Win32 never a whole millisecond longer.
SleepsNoLonger == slept < asked + (IF posix THEN 1 ELSE PerMs)

SleepTypeOK ==
    /\ posix \in BOOLEAN /\ doing \in {"awake", "asleep", "interrupted", "returned", "threw"}
    /\ asked \in 0..MaxSleep /\ slept \in Nat
    /\ request \in [sec : Nat, nsec : Nat] /\ remaining \in [sec : Nat, nsec : Nat]
    /\ posix => request.nsec < PerSecond
    /\ errno \in Errors
=============================================================================
