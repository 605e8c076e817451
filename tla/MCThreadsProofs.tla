-------------------------- MODULE MCThreadsProofs --------------------------
(***************************************************************************)
(* Proofs about Sleep and Atomic, and about all of MCThreads: what its run *)
(* checks on a small instance holds for every value of the constants.      *)
(***************************************************************************)
EXTENDS MCThreads, ThreadProofs, MutexProofs, TLAPS

----------------------------------------------------------------------------
(* Remainders.                                                             *)

\* Division with a remainder.
LEMMA DivMod ==
    ASSUME NEW m \in Nat \ {0}, NEW x \in Int
    PROVE  x \div m \in Int /\ x % m \in 0..(m - 1) /\ x = (x \div m) * m + (x % m)
  OBVIOUS

LEMMA Divides ==
    ASSUME NEW m \in Nat \ {0}, NEW x \in Int
    PROVE  \E q \in Int : \E r \in 0..(m - 1) : x % m = r /\ x = q * m + r
  <1>1. x \div m \in Int /\ x % m \in 0..(m - 1) /\ x = (x \div m) * m + (x % m)
    BY DivMod
  <1> QED
    BY ONLY <1>1, ZenonT(20)

\* There is only one remainder.
LEMMA ModUnique ==
    ASSUME NEW m \in Nat \ {0}, NEW q \in Int, NEW r \in 0..(m - 1)
    PROVE  (q * m + r) % m = r
  OBVIOUS

\* A number within the modulus is its own remainder.
LEMMA ModWithin ==
    ASSUME NEW m \in Nat \ {0}, NEW x \in 0..(m - 1)
    PROVE  x % m = x
  BY ModUnique

----------------------------------------------------------------------------
(* Sleep.                                                                  *)

\* A timespec stands for the time that it was made of.
LEMMA TimespecIsExact ==
    ASSUME SleepAssumption, NEW ns \in Nat
    PROVE  /\ Timespec(ns).sec \in Int /\ Timespec(ns).nsec \in Int
           /\ Nanoseconds(Timespec(ns)) = ns
  <1>1. PICK s \in Int : s = ns \div PerSecond
    BY DivMod DEF SleepAssumption
  <1>2. PICK p \in Int : p = s * PerSecond
    BY <1>1 DEF SleepAssumption
  <1>3. Timespec(ns) = [sec |-> s, nsec |-> ns - p]
    BY <1>1, <1>2 DEF Timespec
  <1>4. Nanoseconds(Timespec(ns)) = p + (ns - p)
    BY <1>2, <1>3 DEF Nanoseconds
  <1> QED
    BY <1>1, <1>2, <1>3, <1>4

\* Milliseconds are rounded up, by less than one.
LEMMA MillisecondsRoundUp ==
    ASSUME SleepAssumption, NEW ns \in Nat
    PROVE  /\ Milliseconds(ns) \in Nat /\ Milliseconds(ns) * PerMs \in Nat
           /\ ns <= Milliseconds(ns) * PerMs /\ Milliseconds(ns) * PerMs < ns + PerMs
           /\ 0 < ns => 0 < Milliseconds(ns)
  <1>1. PICK per \in Nat \ {0} : per = PerMs
    BY DEF SleepAssumption
  <1>2. PICK q \in Int : q = ns \div per
    BY DivMod
  <1>3. PICK r \in 0..(per - 1) : ns = q * per + r
    <2>1. ns % per \in 0..(per - 1) /\ ns = (ns \div per) * per + (ns % per)
      BY DivMod
    <2> QED
      BY <1>2, <2>1
  <1>4. Milliseconds(ns) = IF q * per < ns THEN q + 1 ELSE q
    BY <1>1, <1>2 DEF Milliseconds
  <1>5. q \in Nat
    BY <1>3
  <1>6. (q + 1) * per = q * per + per /\ q * per \in Nat
    BY <1>5
  <1>7. CASE r = 0
    <2>1. Milliseconds(ns) = q /\ q * per = ns
      BY <1>3, <1>4, <1>6, <1>7
    <2>2. 0 < ns => 0 < q
      BY <1>5, <2>1
    <2> QED
      BY <1>1, <1>5, <2>1, <2>2
  <1>8. CASE r # 0
    <2>1. Milliseconds(ns) = q + 1 /\ (q + 1) * per = ns - r + per
      BY <1>3, <1>4, <1>6, <1>8
    <2> QED
      BY <1>1, <1>3, <1>5, <1>8, <2>1
  <1> QED
    BY <1>7, <1>8

SleepTypes ==
    /\ posix \in BOOLEAN /\ asked \in Nat /\ slept \in Nat
    /\ doing \in {"awake", "asleep", "interrupted", "returned", "threw"}

\* What has passed and what is still requested make up what was asked for.
PosixInv ==
    /\ doing = "asleep" => Nanoseconds(request) \in Nat /\ slept + Nanoseconds(request) = asked
    /\ doing = "interrupted" =>
           Nanoseconds(remaining) \in Nat /\ slept + Nanoseconds(remaining) = asked
    /\ doing = "returned" => slept = asked
    /\ slept <= asked

Win32Inv ==
    /\ doing # "interrupted"
    /\ doing = "asleep" => /\ request.nsec \in Nat \ {0}
                           /\ slept + request.nsec * PerMs = Milliseconds(asked) * PerMs
    /\ doing = "returned" => slept = Milliseconds(asked) * PerMs
    /\ slept < asked + PerMs

SleepInv == SleepTypes /\ (posix => PosixInv) /\ (~posix => Win32Inv)

\* A call, for some time or for none.
LEMMA SleepKeeps ==
    ASSUME SleepAssumption, SleepInv, NEW ns \in Nat, Sleep(ns), UNCHANGED posix PROVE SleepInv'
  <1>1. asked' = ns /\ slept' = 0 /\ doing' = IF 0 < ns THEN "asleep" ELSE "returned"
    BY DEF Sleep
  <1>2. SleepTypes'
    BY <1>1 DEF SleepInv, SleepTypes
  <1>3. CASE posix
    <2>1. request' = Timespec(ns)
      BY <1>3 DEF Sleep
    <2>2. Nanoseconds(request)' = ns
      BY <2>1, TimespecIsExact DEF Nanoseconds
    <2>3. PosixInv'
      BY <1>1, <2>2 DEF PosixInv
    <2> QED
      BY <1>2, <1>3, <2>3 DEF SleepInv
  <1>4. CASE ~posix
    <2>1. request'.nsec = Milliseconds(ns)
      BY <1>4 DEF Sleep
    <2>2. PICK ms \in Nat : ms = Milliseconds(ns)
      BY MillisecondsRoundUp
    <2>3. ms * PerMs \in Nat /\ (0 < ns => 0 < ms) /\ ms * PerMs < ns + PerMs /\ ns <= ms * PerMs
      BY <2>2, MillisecondsRoundUp
    <2>4. PerMs \in Nat \ {0}
      BY DEF SleepAssumption
    <2>5. Milliseconds(asked)' = ms
      BY <1>1, <2>2 DEF Milliseconds
    <2>6. ns = 0 => ms * PerMs = 0
      <3>1. SUFFICES ASSUME ns = 0 PROVE ms * PerMs = 0
        OBVIOUS
      <3>2. ms * PerMs < PerMs
        BY <2>3, <2>4, <3>1
      <3>3. ms = 0
        BY <2>4, <3>2
      <3> QED
        BY <2>4, <3>3
    <2>7. Win32Inv'
      BY <1>1, <2>1, <2>2, <2>3, <2>4, <2>5, <2>6 DEF Win32Inv
    <2> QED
      BY <1>2, <1>4, <2>7 DEF SleepInv
  <1> QED
    BY <1>3, <1>4 DEF SleepInv, SleepTypes

LEMMA IsInterruptedKeeps ==
    ASSUME SleepAssumption, SleepInv, NEW ns \in Nat, IsInterrupted(ns), UNCHANGED posix
    PROVE  SleepInv'
  <1>1. PICK left \in Nat : left = Nanoseconds(request) /\ slept + left = asked /\ ns < left
    BY DEF IsInterrupted, SleepInv, PosixInv
  <1>2. PICK still \in Nat : still = left - ns
    BY <1>1
  <1>3. remaining' = Timespec(still)
    BY <1>1, <1>2 DEF IsInterrupted
  <1>4. Nanoseconds(remaining)' = still
    BY <1>3, TimespecIsExact DEF Nanoseconds
  <1>5. slept' = slept + ns /\ doing' = "interrupted" /\ asked' = asked /\ posix
    BY DEF IsInterrupted
  <1>6. slept \in Nat /\ asked \in Nat
    BY DEF SleepInv, SleepTypes
  <1>7. slept + ns + still = asked /\ slept + ns <= asked /\ slept + ns \in Nat
    BY <1>1, <1>2, <1>6
  <1>8. SleepTypes' /\ PosixInv'
    BY <1>4, <1>5, <1>6, <1>7 DEF SleepInv, SleepTypes, PosixInv
  <1> QED
    BY <1>5, <1>8 DEF SleepInv

LEMMA SleepChunkKeeps ==
    ASSUME SleepAssumption, SleepInv, SleepChunk, UNCHANGED posix PROVE SleepInv'
  <1>1. PICK per \in Nat \ {0} : per = PerMs
    BY DEF SleepAssumption
  <1>2. PICK left \in Nat \ {0} : left = request.nsec /\ slept + left * per = Milliseconds(asked) * per
    BY <1>1 DEF SleepChunk, SleepInv, Win32Inv
  <1>3. PICK ms \in Nat : ms = ToSleep(left) /\ ms <= left
    BY DEF ToSleep, SleepAssumption
  <1>4. /\ slept' = slept + ms * per /\ request'.nsec = left - ms
        /\ doing' = IF left = ms THEN "returned" ELSE "asleep"
        /\ asked' = asked /\ ~posix
    BY <1>1, <1>2, <1>3 DEF SleepChunk
  <1>5. slept \in Nat /\ asked \in Nat
    BY DEF SleepInv, SleepTypes
  <1>6. PICK whole \in Nat : whole = Milliseconds(asked) * per /\ whole < asked + per
    BY <1>1, <1>5, MillisecondsRoundUp
  <1>7. PICK done \in Nat : done = ms * per
    BY <1>1
  <1>8. PICK rest \in Nat : rest = (left - ms) * per
    <2>1. left - ms \in Nat
      BY <1>3
    <2> QED
      BY <2>1
  <1>9. left * per = done + rest
    BY <1>7, <1>8
  <1>10. slept + done + rest = whole /\ slept + done < asked + per
    BY <1>2, <1>5, <1>6, <1>9
  <1>11. left = ms => rest = 0
    BY <1>8
  <1>12. Milliseconds(asked)' = Milliseconds(asked)
    BY <1>4 DEF Milliseconds
  <1>13. SleepTypes'
    BY <1>4, <1>5, <1>7 DEF SleepInv, SleepTypes
  <1>14. Win32Inv'
    <2>1. slept' = slept + done /\ slept + done \in Nat
      BY <1>4, <1>5, <1>7
    <2>2. CASE left = ms
      <3>1. slept + done = whole
        BY <1>5, <1>10, <1>11, <2>2
      <3> QED
        BY <1>1, <1>4, <1>6, <1>10, <1>12, <2>1, <2>2, <3>1 DEF Win32Inv
    <2>3. CASE left # ms
      <3>1. left - ms \in Nat \ {0}
        BY <1>3, <2>3
      <3> QED
        BY <1>1, <1>4, <1>6, <1>8, <1>10, <1>12, <2>1, <2>3, <3>1 DEF Win32Inv
    <2> QED
      BY <2>2, <2>3
  <1> QED
    BY <1>4, <1>13, <1>14 DEF SleepInv

LEMMA SleepInvNext ==
    ASSUME SleepAssumption, SleepInv, [SleepNext]_sleepVars PROVE SleepInv'
  <1>1. CASE UNCHANGED sleepVars
    BY <1>1 DEF sleepVars, SleepInv, SleepTypes, PosixInv, Win32Inv, Nanoseconds, Milliseconds
  <1>2. CASE SleepNext
    <2>1. UNCHANGED posix
      BY <1>2 DEF SleepNext
    <2>2. CASE WakesUp
      BY <2>1, <2>2 DEF WakesUp, SleepInv, SleepTypes, PosixInv
    <2>3. CASE Resumes
      BY <2>1, <2>3 DEF Resumes, NextRequest, SleepInv, SleepTypes, PosixInv, Win32Inv, Nanoseconds
    <2>4. CASE Fails
      BY <2>1, <2>4 DEF Fails, SleepInv, SleepTypes, PosixInv, Win32Inv
    <2>5. CASE SleepChunk
      BY <2>1, <2>5, SleepChunkKeeps
    <2>6. CASE \E ns \in 0..MaxSleep : Sleep(ns)
      BY <2>1, <2>6, SleepKeeps DEF SleepAssumption
    <2>7. CASE \E ns \in 0..MaxSleep : IsInterrupted(ns)
      BY <2>1, <2>7, IsInterruptedKeeps DEF SleepAssumption
    <2>8. CASE \E e \in Errors : OtherError(e)
      BY <2>1, <2>8 DEF OtherError, SleepInv, SleepTypes, PosixInv, Win32Inv, Nanoseconds, Milliseconds
    <2> QED
      BY <1>2, <2>2, <2>3, <2>4, <2>5, <2>6, <2>7, <2>8 DEF SleepNext
  <1> QED
    BY <1>1, <1>2

LEMMA SleepInvInit == ASSUME SleepAssumption, SleepInit PROVE SleepInv
  BY DEF SleepAssumption, SleepInit, SleepInv, SleepTypes, PosixInv, Win32Inv

LEMMA SleepInvHolds == ASSUME SleepAssumption PROVE SleepSpec => []SleepInv
  <1>1. SleepInit => SleepInv
    BY SleepInvInit
  <1>2. SleepInv /\ [SleepNext]_sleepVars => SleepInv'
    BY SleepInvNext
  <1> QED
    BY <1>1, <1>2, PTL DEF SleepSpec

\* A sleep that returns has lasted as long as was asked for, however often a signal has interrupted
\* it and in however many calls of Sleep (thread.cxx:731-783).
THEOREM SleepLastsLongEnough == ASSUME SleepAssumption PROVE SleepSpec => []SleepsLongEnough
  <1>1. SleepInv => SleepsLongEnough
    <2> SUFFICES ASSUME SleepInv, doing = "returned" PROVE slept >= asked
      BY DEF SleepsLongEnough
    <2>1. slept \in Nat /\ asked \in Nat
      BY DEF SleepInv, SleepTypes
    <2>2. CASE posix
      BY <2>1, <2>2 DEF SleepInv, PosixInv
    <2>3. CASE ~posix
      BY <2>1, <2>3, MillisecondsRoundUp DEF SleepInv, Win32Inv
    <2> QED
      BY <2>2, <2>3
  <1> QED
    BY <1>1, SleepInvHolds, PTL

\* It never lasts longer on POSIX, and never a whole millisecond longer on Win32.
THEOREM SleepLastsNoLonger == ASSUME SleepAssumption PROVE SleepSpec => []SleepsNoLonger
  <1>1. SleepInv => SleepsNoLonger
    BY DEF SleepInv, SleepTypes, PosixInv, Win32Inv, SleepsNoLonger
  <1> QED
    BY <1>1, SleepInvHolds, PTL

\* Also what is left of an interrupted sleep is a timespec.
SleepTyped == SleepTypeOK /\ (posix => remaining.nsec < PerSecond)

\* What a timespec is made of.
LEMMA TimespecIsTyped ==
    ASSUME SleepAssumption, NEW ns \in Nat
    PROVE  Timespec(ns) \in [sec : Nat, nsec : Nat] /\ Timespec(ns).nsec < PerSecond
  <1>1. PICK per \in Nat \ {0} : per = PerSecond
    BY DEF SleepAssumption
  <1>2. PICK s \in Int : \E r \in 0..(per - 1) : s = ns \div per /\ ns = s * per + r
    <2>1. ns \div per \in Int /\ ns % per \in 0..(per - 1) /\ ns = (ns \div per) * per + (ns % per)
      BY DivMod
    <2> QED
      BY <2>1, Zenon
  <1>3. PICK r \in 0..(per - 1) : s = ns \div per /\ ns = s * per + r
    BY <1>2
  <1>4. s \in Nat
    <2>1. ASSUME s < 0 PROVE FALSE
      <3>1. PICK k \in Nat : s = 0 - 1 - k
        BY <2>1
      <3>2. s * per = (0 - per) - (k * per) /\ k * per \in Nat
        BY <3>1
      <3> QED
        BY <1>3, <3>2
    <2> QED
      BY <2>1
  <1>5. ns - s * per = r
    <2>1. s * per \in Int
      OBVIOUS
    <2> QED
      BY <1>3, <2>1
  <1>6. Timespec(ns) = [sec |-> s, nsec |-> r]
    BY <1>1, <1>3, <1>5 DEF Timespec
  <1> QED
    BY <1>1, <1>4, <1>6

LEMMA SleepTypedInit == ASSUME SleepAssumption, SleepInit PROVE SleepTyped
  BY DEF SleepAssumption, SleepInit, SleepTyped, SleepTypeOK, Zero

\* Both members of a timespec are counts of nanoseconds.
LEMMA NanosecondsAreNat ==
    ASSUME SleepAssumption, NEW t \in [sec : Nat, nsec : Nat] PROVE Nanoseconds(t) \in Nat
  <1>1. PICK per \in Nat : per = PerSecond
    BY DEF SleepAssumption
  <1>2. t.sec * per \in Nat
    OBVIOUS
  <1> QED
    BY <1>1, <1>2 DEF Nanoseconds

LEMMA SleepTypedNext ==
    ASSUME SleepAssumption, SleepTyped, [SleepNext]_sleepVars PROVE SleepTyped'
  <1> DEFINE Both == [sec : Nat, nsec : Nat]
  <1>0. /\ posix \in BOOLEAN /\ doing \in {"awake", "asleep", "interrupted", "returned", "threw"}
        /\ asked \in 0..MaxSleep /\ slept \in Nat /\ request \in Both /\ remaining \in Both
        /\ errno \in Errors
        /\ posix => request.nsec < PerSecond /\ remaining.nsec < PerSecond
    BY DEF SleepTyped, SleepTypeOK
  <1>z. Zero \in Both /\ Zero.nsec < PerSecond
    BY DEF Zero, SleepAssumption
  <1>1. CASE UNCHANGED sleepVars
    BY <1>1 DEF sleepVars, SleepTyped, SleepTypeOK
  <1>2. CASE WakesUp /\ UNCHANGED posix
    <2>1. slept' \in Nat
      BY <1>0, <1>2, NanosecondsAreNat DEF WakesUp
    <2> QED
      BY <1>0, <1>2, <2>1 DEF WakesUp, SleepTyped, SleepTypeOK
  <1>3. CASE (Resumes \/ Fails) /\ UNCHANGED posix
    BY <1>0, <1>z, <1>3 DEF Resumes, Fails, NextRequest, SleepTyped, SleepTypeOK
  <1>4. CASE SleepChunk /\ UNCHANGED posix
    <2>1. PICK ms \in Nat : ms = ToSleep(request.nsec) /\ ms <= request.nsec
      BY <1>0 DEF ToSleep, SleepAssumption
    <2>2. /\ ~posix /\ slept' = slept + ms * PerMs
          /\ request' = [sec |-> 0, nsec |-> request.nsec - ms]
          /\ doing' = IF request.nsec = ms THEN "returned" ELSE "asleep"
          /\ UNCHANGED <<asked, remaining, errno>>
      BY <1>4, <2>1 DEF SleepChunk
    <2>3. ms * PerMs \in Nat
      BY DEF SleepAssumption
    <2>4. slept' \in Nat /\ request' \in Both
      BY <1>0, <2>1, <2>2, <2>3
    <2> QED
      BY <1>0, <1>4, <2>2, <2>4 DEF SleepTyped, SleepTypeOK
  <1>5. ASSUME NEW ns \in 0..MaxSleep, Sleep(ns), UNCHANGED posix PROVE SleepTyped'
    <2>1. ns \in Nat
      BY DEF SleepAssumption
    <2>2. Milliseconds(ns) \in Nat
      BY <2>1, MillisecondsRoundUp
    <2>3. request' \in Both /\ (posix => request'.nsec < PerSecond)
      BY <1>5, <2>1, <2>2, TimespecIsTyped DEF Sleep
    <2> QED
      BY <1>0, <1>z, <1>5, <2>3 DEF Sleep, SleepTyped, SleepTypeOK
  <1>6. ASSUME NEW ns \in 0..MaxSleep, IsInterrupted(ns), UNCHANGED posix PROVE SleepTyped'
    <2>1. ns \in Nat
      BY DEF SleepAssumption
    <2>2. PICK left \in Nat : left = Nanoseconds(request) - ns
      BY <1>0, <1>6, <2>1, NanosecondsAreNat DEF IsInterrupted
    <2>3. remaining' \in Both /\ remaining'.nsec < PerSecond
      BY <1>6, <2>2, TimespecIsTyped DEF IsInterrupted
    <2> QED
      BY <1>0, <1>6, <2>1, <2>3 DEF IsInterrupted, SleepTyped, SleepTypeOK
  <1>7. ASSUME NEW e \in Errors, OtherError(e), UNCHANGED posix PROVE SleepTyped'
    BY <1>0, <1>7 DEF OtherError, SleepTyped, SleepTypeOK
  <1> QED
    BY <1>1, <1>2, <1>3, <1>4, <1>5, <1>6, <1>7 DEF SleepNext

\* What a sleep asks for, what is left of it and what has passed are times, and the timespec of POSIX
\* never has a second's worth of nanoseconds (thread.cxx).
LEMMA SleepIsTyped == ASSUME SleepAssumption PROVE SleepSpec => []SleepTypeOK
  <1>1. SleepTyped => SleepTypeOK
    BY DEF SleepTyped
  <1> QED
    BY <1>1, SleepTypedInit, SleepTypedNext, PTL DEF SleepSpec

----------------------------------------------------------------------------
(* Atomic.                                                                 *)

\* Numbers that are the same T.
Same(a, b) == \E q \in Int : a = b + q * TValues

\* The widths: a T has a sign, and a representation holds a whole number of T's.
LEMMA Widths ==
    ASSUME AtomicAssumption
    PROVE  /\ TValues \in Nat \ {0} /\ ReprValues \in Nat \ {0}
           /\ \E h \in Nat \ {0} : TValues = 2 * h /\ TValues \div 2 = h
           /\ \E c \in Int : ReprValues = c * TValues
  <1>1. TValues \in Nat \ {0} /\ ReprValues \in Nat \ {0}
    BY DEF AtomicAssumption
  <1>2. \E h \in Nat \ {0} : TValues = 2 * h /\ TValues \div 2 = h
    <2>1. PICK h \in Int : h = TValues \div 2
      BY <1>1, DivMod
    <2>2. TValues = (TValues \div 2) * 2 + (TValues % 2)
      BY <1>1, DivMod
    <2>3. TValues = 2 * h
      BY <2>1, <2>2 DEF AtomicAssumption
    <2> QED
      BY <1>1, <2>1, <2>3
  <1>3. \E c \in Int : ReprValues = c * TValues
    <2>1. PICK c \in Int : c = ReprValues \div TValues
      BY <1>1, DivMod
    <2>2. ReprValues = (ReprValues \div TValues) * TValues + (ReprValues % TValues)
      BY <1>1, DivMod
    <2>3. c * TValues \in Int
      BY <1>1
    <2>4. ReprValues = c * TValues
      BY <2>1, <2>2, <2>3 DEF AtomicAssumption
    <2> QED
      BY <2>4
  <1> QED
    BY <1>1, <1>2, <1>3

LEMMA SameSum ==
    ASSUME AtomicAssumption, NEW a \in Int, NEW b \in Int, NEW d \in Int, Same(a, b)
    PROVE  Same(a + d, b + d)
  <1>1. PICK q \in Int : a = b + q * TValues
    BY DEF Same
  <1>2. PICK p \in Int : p = q * TValues
    BY Widths
  <1>3. a + d = b + d + p
    BY <1>1, <1>2
  <1> QED
    BY <1>2, <1>3 DEF Same

LEMMA SameTwice ==
    ASSUME AtomicAssumption, NEW a \in Int, NEW b \in Int, NEW c \in Int, Same(a, b), Same(b, c)
    PROVE  Same(a, c)
  <1>1. PICK q \in Int : a = b + q * TValues
    BY DEF Same
  <1>2. PICK r \in Int : b = c + r * TValues
    BY DEF Same
  <1>3. (r + q) * TValues = r * TValues + q * TValues /\ r * TValues \in Int /\ q * TValues \in Int
    BY Widths
  <1>4. a = c + (r + q) * TValues
    BY <1>1, <1>2, <1>3
  <1> QED
    BY <1>4 DEF Same

LEMMA SameBack ==
    ASSUME AtomicAssumption, NEW a \in Int, NEW b \in Int, Same(a, b) PROVE Same(b, a)
  <1>1. PICK q \in Int : a = b + q * TValues
    BY DEF Same
  <1>2. (0 - q) * TValues = 0 - q * TValues /\ q * TValues \in Int
    BY Widths
  <1>3. b = a + (0 - q) * TValues
    BY <1>1, <1>2
  <1> QED
    BY <1>3 DEF Same

\* A T loads as itself, and as nothing else.
LEMMA LoadedIsSame ==
    ASSUME AtomicAssumption, NEW u \in Int
    PROVE  Loaded(u) \in TRange /\ Loaded(u) \in Int /\ Same(Loaded(u), u)
  <1>1. PICK h \in Nat \ {0} : TValues = 2 * h /\ TValues \div 2 = h
    BY Widths
  <1>2. \E q \in Int : \E r \in 0..(TValues - 1) : u % TValues = r /\ u = q * TValues + r
    <2>1. TValues \in Nat \ {0}
      BY Widths
    <2> QED
      BY <2>1, Divides, ZenonT(20)
  <1>3. PICK q \in Int : \E r \in 0..(TValues - 1) : u % TValues = r /\ u = q * TValues + r
    BY <1>2
  <1>4. PICK low \in 0..(TValues - 1) : u % TValues = low /\ u = q * TValues + low
    BY <1>3
  <1>5. PICK p \in Int : p = q * TValues
    BY <1>1
  <1>6. u = p + low
    BY <1>4, <1>5
  <1>7. Loaded(u) = IF low < h THEN low ELSE low - TValues
    BY <1>1, <1>4 DEF Loaded
  <1>8. Loaded(u) \in TRange /\ Loaded(u) \in Int
    BY <1>1, <1>7 DEF TRange
  <1>9. CASE low < h
    <2>1. (0 - q) * TValues = 0 - p
      BY <1>1, <1>5
    <2>2. low = u + (0 - q) * TValues
      BY <1>1, <1>6, <2>1
    <2> QED
      BY <1>7, <1>8, <1>9, <2>2 DEF Same
  <1>10. CASE ~(low < h)
    <2>1. (0 - q - 1) * TValues = 0 - p - TValues
      BY <1>1, <1>5
    <2>2. low - TValues = u + (0 - q - 1) * TValues
      BY <1>1, <1>6, <2>1
    <2>3. 0 - q - 1 \in Int
      OBVIOUS
    <2> QED
      BY <1>7, <1>8, <1>10, <2>2, <2>3 DEF Same
  <1> QED
    BY <1>8, <1>9, <1>10

LEMMA SameIsEqual ==
    ASSUME AtomicAssumption, NEW v \in TRange, NEW w \in TRange, Same(v, w) PROVE v = w
  <1>1. PICK h \in Nat \ {0} : TValues = 2 * h /\ TValues \div 2 = h
    BY Widths
  <1>2. v \in (0 - h)..(h - 1) /\ w \in (0 - h)..(h - 1)
    BY <1>1 DEF TRange
  <1>3. PICK q \in Int : v = w + q * TValues
    BY DEF Same
  <1>4. CASE q >= 1
    <2>1. q * TValues = (q - 1) * TValues + TValues /\ (q - 1) * TValues >= 0
      BY <1>1, <1>4
    <2>2. PICK p \in Int : p = q * TValues /\ p >= TValues
      BY <1>1, <2>1
    <2> QED
      BY <1>1, <1>2, <1>3, <2>2
  <1>5. CASE q <= 0 - 1
    <2>1. q * TValues = (q + 1) * TValues - TValues /\ (q + 1) * TValues <= 0
      BY <1>1, <1>5
    <2>2. PICK p \in Int : p = q * TValues /\ p <= 0 - TValues
      BY <1>1, <2>1
    <2> QED
      BY <1>1, <1>2, <1>3, <2>2
  <1>6. CASE q = 0
    BY <1>1, <1>2, <1>3, <1>6
  <1> QED
    BY <1>4, <1>5, <1>6

LEMMA LoadedOfSame ==
    ASSUME AtomicAssumption, NEW u \in Int, NEW v \in TRange, Same(u, v) PROVE Loaded(u) = v
  <1>1. v \in Int
    BY Widths DEF TRange
  <1> QED
    BY <1>1, LoadedIsSame, SameTwice, SameIsEqual

\* Where a representation wraps, a T wraps too.
LEMMA ReprIsSame ==
    ASSUME AtomicAssumption, NEW x \in Int
    PROVE  x % ReprValues \in 0..(ReprValues - 1) /\ x % ReprValues \in Int /\ Same(x % ReprValues, x)
  <1>1. PICK c \in Int : ReprValues = c * TValues
    BY Widths
  <1>2. ReprValues \in Nat \ {0} /\ TValues \in Nat
    BY Widths
  <1>3. PICK k \in Int : \E r \in 0..(ReprValues - 1) : x % ReprValues = r /\ x = k * ReprValues + r
    BY <1>2, Divides, ZenonT(20)
  <1>4. PICK r \in 0..(ReprValues - 1) : x % ReprValues = r /\ x = k * ReprValues + r
    BY <1>3
  <1>5. PICK p \in Int : p = k * c
    OBVIOUS
  <1>6. k * ReprValues = p * TValues
    BY <1>1, <1>2, <1>5
  <1>7. (0 - p) * TValues = 0 - p * TValues /\ p * TValues \in Int /\ 0 - p \in Int
    BY <1>2
  <1>8. r = x + (0 - p) * TValues
    BY <1>2, <1>4, <1>6, <1>7
  <1>9. Same(r, x)
    BY <1>7, <1>8 DEF Same
  <1>10. r \in Int
    BY <1>2
  <1> QED
    BY <1>4, <1>9, <1>10

\* What is stored is what is loaded.
LEMMA LoadedStored ==
    ASSUME AtomicAssumption, NEW v \in TRange
    PROVE  Stored(v) \in 0..(ReprValues - 1) /\ Loaded(Stored(v)) = v
  <1>1. v \in Int
    BY Widths DEF TRange
  <1> QED
    BY <1>1, ReprIsSame, LoadedOfSame DEF Stored

\* Stored, and then incremented or decremented, is stored as if it were all one.
LEMMA StoredSum ==
    ASSUME AtomicAssumption, NEW v \in Int, NEW d \in Int
    PROVE  (Stored(v) + d) % ReprValues = Stored(v + d)
  <1>1. ReprValues \in Nat \ {0}
    BY Widths
  <1>2. PICK k \in Int : \E r \in 0..(ReprValues - 1) : v % ReprValues = r /\ v = k * ReprValues + r
    BY <1>1, Divides, ZenonT(20)
  <1>3. PICK r \in 0..(ReprValues - 1) : v % ReprValues = r /\ v = k * ReprValues + r
    BY <1>2
  <1>4. r + d \in Int
    BY <1>1
  <1>5. PICK j \in Int : \E t \in 0..(ReprValues - 1) :
            (r + d) % ReprValues = t /\ r + d = j * ReprValues + t
    BY <1>1, <1>4, Divides, ZenonT(20)
  <1>6. PICK t \in 0..(ReprValues - 1) : (r + d) % ReprValues = t /\ r + d = j * ReprValues + t
    BY <1>5
  <1>7. (k + j) * ReprValues = k * ReprValues + j * ReprValues
    BY <1>1
  <1>8. PICK n \in Int : n = k + j
    OBVIOUS
  <1>9. v + d = n * ReprValues + t
    <2>1. k * ReprValues \in Int /\ j * ReprValues \in Int
      BY <1>1
    <2> QED
      BY <1>1, <1>3, <1>6, <1>7, <1>8, <2>1
  <1>10. (n * ReprValues + t) % ReprValues = t
    BY <1>1, ModUnique
  <1> QED
    BY <1>3, <1>6, <1>9, <1>10 DEF Stored

AtomicTypes ==
    /\ repr \in Int /\ balance \in Int /\ strayed \in BOOLEAN
    /\ expected \in [Workers -> TRange \cup {NotLooping}]

\* The balance is, as a T, what is loaded.
Balanced == Same(balance, repr)

\* What is loaded would be stored as it is.
SignKept == ~strayed => repr = Stored(Loaded(repr))

AtomicInv == AtomicTypes /\ Balanced /\ SignKept

LEMMA ZeroIsT == ASSUME AtomicAssumption PROVE 0 \in TRange
  BY Widths DEF TRange

\* What an operation stores is what it loads, as it is.
LEMMA StoresWell ==
    ASSUME AtomicAssumption, NEW v \in TRange, NEW b \in Int, Same(b, v)
    PROVE  /\ Stored(v) \in Int /\ Same(b, Stored(v))
           /\ Stored(v) = Stored(Loaded(Stored(v)))
  <1>1. v \in Int
    BY Widths DEF TRange
  <1>2. Stored(v) \in Int /\ Same(v, Stored(v))
    BY <1>1, ReprIsSame, SameBack DEF Stored
  <1> QED
    BY <1>1, <1>2, SameTwice, LoadedStored

LEMMA AtomicInvInit == ASSUME AtomicAssumption, AtomicInit PROVE AtomicInv
  <1>1. Same(0, 0)
    <2>1. 0 = 0 + 0 * TValues
      BY Widths
    <2> QED
      BY <2>1 DEF Same
  <1>2. Stored(0) \in Int /\ Same(0, Stored(0)) /\ Stored(0) = Stored(Loaded(Stored(0)))
    BY <1>1, ZeroIsT, StoresWell
  <1>3. AtomicTypes
    <2>1. expected \in [Workers -> TRange \cup {NotLooping}] /\ strayed \in BOOLEAN
      BY Zenon DEF AtomicInit
    <2>2. repr = Stored(0) /\ balance = 0
      BY Zenon DEF AtomicInit
    <2>3. repr \in Int /\ balance \in Int
      BY <1>2, <2>2
    <2> QED
      BY <2>1, <2>3 DEF AtomicTypes
  <1>4. Balanced
    BY <1>2 DEF AtomicInit, Balanced, Same
  <1>5. SignKept
    BY <1>2 DEF AtomicInit, SignKept
  <1> QED
    BY <1>3, <1>4, <1>5 DEF AtomicInv

\* One more or one less.
LEMMA CountKeeps ==
    ASSUME AtomicAssumption, AtomicInv, NEW d \in Int,
           repr' = (repr + d) % ReprValues, balance' = balance + d,
           strayed' = (strayed \/ Loaded(repr) + d \notin TRange), UNCHANGED expected
    PROVE  AtomicInv'
  <1>1. repr \in Int /\ balance \in Int /\ repr + d \in Int /\ balance + d \in Int /\ Same(balance, repr)
    BY DEF AtomicInv, AtomicTypes, Balanced
  <1>2. repr' \in Int /\ Same(repr', repr + d)
    BY <1>1, ReprIsSame
  <1>3. Same(balance', repr')
    BY <1>1, <1>2, SameSum, SameBack, SameTwice
  <1>4. ASSUME ~strayed' PROVE repr' = Stored(Loaded(repr'))
    <2>1. PICK v \in TRange : v = Loaded(repr) /\ repr = Stored(v) /\ v + d \in TRange
      BY <1>1, <1>4, LoadedIsSame DEF AtomicInv, SignKept
    <2>2. v \in Int
      BY Widths DEF TRange
    <2>3. repr' = Stored(v + d)
      BY <2>1, <2>2, StoredSum
    <2> QED
      BY <2>1, <2>3, LoadedStored
  <1>5. AtomicTypes'
    BY <1>1, <1>2 DEF AtomicInv, AtomicTypes
  <1>6. Balanced'
    BY <1>3 DEF Balanced, Same
  <1>7. SignKept'
    BY <1>4 DEF SignKept, Loaded, Stored
  <1> QED
    BY <1>5, <1>6, <1>7 DEF AtomicInv

\* A T is stored.
LEMMA StoreKeeps ==
    ASSUME AtomicAssumption, AtomicInv, NEW v \in TRange, Same(balance', v), balance' \in Int,
           repr' = Stored(v), strayed' = FALSE, expected' \in [Workers -> TRange \cup {NotLooping}]
    PROVE  AtomicInv'
  <1>1. Stored(v) \in Int /\ Same(balance', Stored(v)) /\ Stored(v) = Stored(Loaded(Stored(v)))
    BY StoresWell
  <1>2. AtomicTypes'
    BY <1>1 DEF AtomicTypes
  <1>3. Balanced'
    BY <1>1 DEF Balanced, Same
  <1>4. SignKept'
    BY <1>1 DEF SignKept, Loaded, Stored
  <1> QED
    BY <1>2, <1>3, <1>4 DEF AtomicInv

\* compare_exchange puts in one more than the T that it has matched.
LEMMA ExchangesKeeps ==
    ASSUME AtomicAssumption, AtomicInv, NEW t \in Workers, Exchanges(t) PROVE AtomicInv'
  <1>1. PICK e \in TRange : e = expected[t] /\ repr = Stored(e)
    BY DEF Exchanges, Matches, AtomicInv, AtomicTypes
  <1>2. e \in Int /\ balance \in Int /\ repr \in Int /\ Same(balance, repr)
    BY Widths DEF TRange, AtomicInv, AtomicTypes, Balanced
  <1>3. Same(repr, e)
    BY <1>1, <1>2, ReprIsSame DEF Stored
  <1>4. Same(balance + 1, e + 1)
    BY <1>2, <1>3, SameTwice, SameSum
  <1>5. e + 1 \in Int /\ balance + 1 \in Int
    BY <1>2
  <1>6. PICK v \in TRange : v = Loaded(e + 1) /\ v \in Int /\ Same(v, e + 1)
    BY <1>5, LoadedIsSame
  <1>7. Same(balance + 1, v)
    BY <1>4, <1>5, <1>6, SameBack, SameTwice
  <1>8. repr' = Stored(v) /\ balance' = balance + 1 /\ strayed' = FALSE
    BY <1>1, <1>6 DEF Exchanges
  <1>9. expected' \in [Workers -> TRange \cup {NotLooping}]
    BY DEF Exchanges, AtomicInv, AtomicTypes
  <1> QED
    BY <1>5, <1>7, <1>8, <1>9, StoreKeeps

\* exchange(0) takes what there is, and so many T's are left as were put in and did not fit.
LEMMA ExchangeKeeps ==
    ASSUME AtomicAssumption, AtomicInv, NEW t \in Workers, Exchange(t) PROVE AtomicInv'
  <1>1. balance \in Int /\ repr \in Int /\ Same(balance, repr)
    BY DEF AtomicInv, AtomicTypes, Balanced
  <1>2. PICK v \in Int : v = Loaded(repr) /\ Same(v, repr)
    BY <1>1, LoadedIsSame
  <1>3. Same(balance, v)
    BY <1>1, <1>2, SameBack, SameTwice
  <1>4. Same(balance - v, 0)
    <2>1. PICK q \in Int : balance = v + q * TValues
      BY <1>3 DEF Same
    <2>2. q * TValues \in Int
      BY Widths
    <2>3. balance - v = 0 + q * TValues
      BY <1>1, <1>2, <2>1, <2>2
    <2> QED
      BY <2>3 DEF Same
  <1>5. balance' = balance - v /\ repr' = Stored(0) /\ strayed' = FALSE /\ expected' = expected
    BY <1>2 DEF Exchange
  <1>6. balance - v \in Int
    BY <1>1, <1>2
  <1>7. expected' \in [Workers -> TRange \cup {NotLooping}]
    BY <1>5 DEF AtomicInv, AtomicTypes
  <1> QED
    BY <1>4, <1>5, <1>6, <1>7, ZeroIsT, StoreKeeps

LEMMA AtomicInvNext ==
    ASSUME AtomicAssumption, AtomicInv, [AtomicNext]_atomicVars PROVE AtomicInv'
  <1>1. CASE UNCHANGED atomicVars
    BY <1>1 DEF atomicVars, AtomicInv, AtomicTypes, Balanced, SignKept, Same, Loaded, Stored
  <1>2. ASSUME NEW t \in Workers, Increment(t) PROVE AtomicInv'
    BY <1>2, CountKeeps DEF Increment
  <1>3. ASSUME NEW t \in Workers, Decrement(t) PROVE AtomicInv'
    <2>1. repr - 1 = repr + (0 - 1) /\ balance - 1 = balance + (0 - 1)
      BY DEF AtomicInv, AtomicTypes
    <2>2. Loaded(repr) - 1 = Loaded(repr) + (0 - 1)
      BY LoadedIsSame DEF AtomicInv, AtomicTypes
    <2>3. /\ repr' = (repr + (0 - 1)) % ReprValues /\ balance' = balance + (0 - 1)
          /\ strayed' = (strayed \/ Loaded(repr) + (0 - 1) \notin TRange) /\ UNCHANGED expected
      BY <1>3, <2>1, <2>2 DEF Decrement
    <2>4. 0 - 1 \in Int
      OBVIOUS
    <2> QED
      BY <2>3, <2>4, CountKeeps
  <1>4. ASSUME NEW t \in Workers, Exchange(t) PROVE AtomicInv'
    BY <1>4, ExchangeKeeps
  <1>5. ASSUME NEW t \in Workers, Load(t) \/ ExchangeFails(t) PROVE AtomicInv'
    <2>1. UNCHANGED <<repr, balance, strayed>> /\ expected' = [expected EXCEPT ![t] = Loaded(repr)]
      BY <1>5 DEF Load, ExchangeFails, Corrected
    <2>2. AtomicTypes'
      BY <2>1, LoadedIsSame DEF AtomicInv, AtomicTypes
    <2> QED
      BY <2>1, <2>2 DEF AtomicInv, Balanced, SignKept, Same, Loaded, Stored
  <1>6. ASSUME NEW t \in Workers, NEW v \in TRange, Store(t, v) PROVE AtomicInv'
    <2>1. v \in Int
      BY Widths DEF TRange
    <2>2. Same(v, v)
      <3>1. v = v + 0 * TValues
        BY <2>1, Widths
      <3> QED
        BY <3>1 DEF Same
    <2>3. repr' = Stored(v) /\ balance' = v /\ strayed' = FALSE /\ expected' = expected
      BY <1>6 DEF Store
    <2>4. expected' \in [Workers -> TRange \cup {NotLooping}]
      BY <2>3 DEF AtomicInv, AtomicTypes
    <2> QED
      BY <2>1, <2>2, <2>3, <2>4, StoreKeeps
  <1>7. ASSUME NEW t \in Workers, Exchanges(t) PROVE AtomicInv'
    BY <1>7, ExchangesKeeps
  <1> QED
    BY <1>1, <1>2, <1>3, <1>4, <1>5, <1>6, <1>7 DEF AtomicNext

\* No ++, --, exchange or loop of compare_exchange of any thread loses what another has put in or
\* takes it twice, for every T and every representation at least as wide (atomic.hxx:124-348).
THEOREM AtomicLosesNoIncrement == ASSUME AtomicAssumption PROVE AtomicSpec => []LosesNoIncrement
  <1>1. AtomicInit => AtomicInv
    BY AtomicInvInit
  <1>2. AtomicInv /\ [AtomicNext]_atomicVars => AtomicInv'
    BY AtomicInvNext
  <1>3. AtomicInv => LosesNoIncrement
    <2> SUFFICES ASSUME AtomicInv PROVE LosesNoIncrement
      OBVIOUS
    <2>1. balance \in Int /\ repr \in Int /\ Same(balance, repr)
      BY DEF AtomicInv, AtomicTypes, Balanced
    <2>2. PICK v \in Int : v = Loaded(repr) /\ Same(v, repr)
      BY <2>1, LoadedIsSame
    <2>3. Same(balance, v)
      BY <2>1, <2>2, SameBack, SameTwice
    <2>4. PICK q \in Int : balance = v + q * TValues
      BY <2>3 DEF Same
    <2>5. TValues \in Nat \ {0} /\ q * TValues \in Int /\ 0 \in 0..(TValues - 1)
      BY Widths
    <2>6. balance - v = q * TValues + 0
      BY <2>1, <2>2, <2>4, <2>5
    <2>7. (q * TValues + 0) % TValues = 0
      BY <2>5, ModUnique
    <2> QED
      BY <2>2, <2>6, <2>7 DEF AtomicInv, SignKept, LosesNoIncrement
  <1> QED
    BY <1>1, <1>2, <1>3, PTL DEF AtomicSpec

\* A thread in its loop has an operation left, the one it is making.
AtomicTyped == AtomicTypeOK /\ \A t \in Workers : expected[t] # NotLooping => rounds[t] > 0

\* Whatever is stored fits the representation.
LEMMA ReprFits ==
    ASSUME AtomicAssumption, NEW v \in Int PROVE v % ReprValues \in 0 .. (ReprValues - 1)
  BY DEF AtomicAssumption

LEMMA AtomicTypedInit == ASSUME AtomicAssumption, AtomicInit PROVE AtomicTyped
  <1>1. repr \in 0 .. (ReprValues - 1)
    BY ReprFits DEF AtomicInit, Stored
  <1>2. /\ expected \in [Workers -> TRange \cup {NotLooping}] /\ strayed \in BOOLEAN
        /\ \A t \in Workers : expected[t] = NotLooping
    BY Zenon DEF AtomicInit
  <1>3. balance \in Int /\ rounds \in [Workers -> 0 .. Rounds]
    BY DEF AtomicInit, AtomicAssumption
  <1> QED
    BY <1>1, <1>2, <1>3 DEF AtomicTyped, AtomicTypeOK

LEMMA AtomicTypedNext ==
    ASSUME AtomicAssumption, AtomicTyped, [AtomicNext]_atomicVars PROVE AtomicTyped'
  <1>0. /\ repr \in Int /\ expected \in [Workers -> TRange \cup {NotLooping}]
        /\ rounds \in [Workers -> 0 .. Rounds] /\ balance \in Int /\ strayed \in BOOLEAN
        /\ \A t \in Workers : expected[t] # NotLooping => rounds[t] > 0
        /\ Rounds \in Nat
    BY DEF AtomicTyped, AtomicTypeOK, AtomicAssumption
  <1>r. Loaded(repr) \in TRange /\ Loaded(repr) \in Int
    BY <1>0, LoadedIsSame
  <1>1. CASE UNCHANGED atomicVars
    BY <1>1 DEF atomicVars, AtomicTyped, AtomicTypeOK
  <1>2. ASSUME NEW t \in Workers, rounds[t] > 0, Done(t), repr' \in 0 .. (ReprValues - 1), balance' \in Int,
               strayed' \in BOOLEAN,
               \/ expected[t] = NotLooping /\ UNCHANGED expected
               \/ expected' = [expected EXCEPT ![t] = NotLooping]
        PROVE  AtomicTyped'
    <2>1. rounds' \in [Workers -> 0 .. Rounds] /\ \A u \in Workers \ {t} : rounds'[u] = rounds[u]
      BY <1>0, <1>2 DEF Done
    <2>2. /\ expected' \in [Workers -> TRange \cup {NotLooping}]
          /\ expected'[t] = NotLooping /\ \A u \in Workers \ {t} : expected'[u] = expected[u]
      BY <1>0, <1>2
    <2> QED
      BY <1>0, <1>2, <2>1, <2>2 DEF AtomicTyped, AtomicTypeOK
  <1>3. ASSUME NEW t \in Workers, Increment(t) \/ Decrement(t) PROVE AtomicTyped'
    <2>1. repr' \in 0 .. (ReprValues - 1) /\ balance' \in Int
      <3>1. repr + 1 \in Int /\ repr - 1 \in Int
        BY <1>0
      <3> QED
        BY <1>0, <1>3, <3>1, ReprFits DEF Increment, Decrement
    <2>2. strayed' \in BOOLEAN
      BY <1>3, Zenon DEF Increment, Decrement
    <2> QED
      BY <1>2, <1>3, <2>1, <2>2 DEF Increment, Decrement, Outside
  <1>4. ASSUME NEW t \in Workers, Exchange(t) PROVE AtomicTyped'
    <2>1. repr' \in 0 .. (ReprValues - 1) /\ balance' \in Int
      BY <1>0, <1>r, <1>4, ReprFits DEF Exchange, Stored
    <2> QED
      BY <1>2, <1>4, <2>1 DEF Exchange, Outside
  <1>5. ASSUME NEW t \in Workers, NEW v \in TRange, Store(t, v) PROVE AtomicTyped'
    <2>1. repr' \in 0 .. (ReprValues - 1) /\ balance' \in Int
      <3>1. v \in Int
        BY Widths DEF TRange
      <3> QED
        BY <1>5, <3>1, ReprFits DEF Store, Stored
    <2> QED
      BY <1>2, <1>5, <2>1 DEF Store, Outside
  <1>6. ASSUME NEW t \in Workers, Exchanges(t) PROVE AtomicTyped'
    <2>1. PICK e \in TRange : e = expected[t]
      BY <1>0, <1>6 DEF Exchanges
    <2>2. e + 1 \in Int
      BY Widths DEF TRange
    <2>3. Loaded(e + 1) \in Int
      BY <2>2, LoadedIsSame
    <2>4. repr' \in 0 .. (ReprValues - 1) /\ balance' \in Int
      BY <1>0, <1>6, <2>1, <2>3, ReprFits DEF Exchanges, Stored
    <2> QED
      BY <1>0, <1>2, <1>6, <2>4 DEF Exchanges
  <1>7. ASSUME NEW t \in Workers, Load(t) \/ ExchangeFails(t) PROVE AtomicTyped'
    <2>1. expected' = [expected EXCEPT ![t] = Loaded(repr)] /\ UNCHANGED <<repr, rounds, balance, strayed>>
      BY <1>7 DEF Load, ExchangeFails, Corrected
    <2>2. rounds[t] > 0
      BY <1>0, <1>7 DEF Load, ExchangeFails, Outside
    <2> QED
      BY <1>0, <1>r, <2>1, <2>2 DEF AtomicTyped, AtomicTypeOK
  <1> QED
    BY <1>1, <1>3, <1>4, <1>5, <1>6, <1>7 DEF AtomicNext

\* The representation never leaves its type, nor the expected value of a loop T (atomic.hxx).
LEMMA AtomicIsTyped == ASSUME AtomicAssumption PROVE AtomicSpec => []AtomicTypeOK
  <1>1. AtomicTyped => AtomicTypeOK
    BY DEF AtomicTyped
  <1> QED
    BY <1>1, AtomicTypedInit, AtomicTypedNext, PTL DEF AtomicSpec
----------------------------------------------------------------------------
(* The mutex on POSIX, where lock does not look whether its thread has it. *)

Posix == INSTANCE MutexProofs WITH Win32 <- FALSE, MayRelock <- FALSE

\* What MCThreads takes from Mutex is what the proofs are about.
LEMMA PosixAdvances ==
    ASSUME NEW t \in Threads, MP!Advance(t) PROVE Posix!Advance(t)
  <1>1. MP!EnterBlocking(t) => Posix!EnterBlocking(t)
    BY DEF MP!EnterBlocking, Posix!EnterBlocking, MP!OsAdmits, Posix!OsAdmits, MP!OsEnter, Posix!OsEnter,
           MP!Goto, Posix!Goto
  <1>2. MP!FindsItRelocked(t) => Posix!FindsItRelocked(t)
    BY DEF MP!FindsItRelocked, MP!Relocked
  <1>3. MP!LeavesAndThrows(t) => Posix!LeavesAndThrows(t)
    BY DEF MP!LeavesAndThrows, Posix!LeavesAndThrows, MP!OsLeave, Posix!OsLeave, MP!Goto, Posix!Goto
  <1>4. MP!Locks(t) => Posix!Locks(t)
    BY DEF MP!Locks, Posix!Locks, MP!Relocked, Posix!Relocked, MP!Put, Posix!Put, MP!Goto, Posix!Goto
  <1>5. MP!TryFails(t) => Posix!TryFails(t)
    BY DEF MP!TryFails, Posix!TryFails, MP!OsAdmits, Posix!OsAdmits, MP!Goto, Posix!Goto
  <1>6. MP!TryEnters(t) => Posix!TryEnters(t)
    BY DEF MP!TryEnters, Posix!TryEnters, MP!OsAdmits, Posix!OsAdmits, MP!OsEnter, Posix!OsEnter,
           MP!Goto, Posix!Goto
  <1>7. MP!Leaves(t) => Posix!Leaves(t)
    BY DEF MP!Leaves, Posix!Leaves, MP!OsLeave, Posix!OsLeave, MP!Goto, Posix!Goto
  <1> QED
    BY <1>1, <1>2, <1>3, <1>4, <1>5, <1>6, <1>7 DEF MP!Advance, Posix!Advance

LEMMA PosixNext == MP!MutexNext => Posix!MutexNext
  <1>1. ASSUME NEW t \in Threads PROVE MP!CallLock(t) => Posix!CallLock(t)
    BY DEF MP!CallLock, Posix!CallLock, MP!HasRoom, Posix!HasRoom, MP!Holds, Posix!Holds,
           MP!Idle, Posix!Idle, MP!Goto, Posix!Goto
  <1>2. ASSUME NEW t \in Threads PROVE MP!CallTryLock(t) => Posix!CallTryLock(t)
    BY DEF MP!CallTryLock, Posix!CallTryLock, MP!HasRoom, Posix!HasRoom, MP!TryGoesTo, Posix!TryGoesTo,
           MP!Idle, Posix!Idle, MP!Goto, Posix!Goto
  <1>3. ASSUME NEW t \in Threads, NEW o \in Objects
        PROVE  (MP!DestroyNull(t, o) => Posix!DestroyNull(t, o)) /\ (MP!Destroy(t, o) => Posix!Destroy(t, o))
    BY DEF MP!DestroyNull, Posix!DestroyNull, MP!Destroy, Posix!Destroy, MP!ClearOwner, Posix!ClearOwner,
           MP!Put, Posix!Put, MP!Idle, Posix!Idle, MP!Goto, Posix!Goto
  <1>4. ASSUME NEW t \in Threads, NEW o \in Objects, NEW q \in Objects
        PROVE  MP!Move(t, o, q) => Posix!Move(t, o, q)
    BY DEF MP!Move, Posix!Move, MP!MoveObject, Posix!MoveObject, MP!Idle, Posix!Idle
  <1>5. ASSUME NEW t \in Threads PROVE MP!ThreadNext(t) => Posix!ThreadNext(t)
    BY <1>1, <1>2, <1>3, <1>4, PosixAdvances DEF MP!ThreadNext, Posix!ThreadNext
  <1> QED
    BY <1>5 DEF MP!MutexNext, Posix!MutexNext

PosixSpec == MutexInit /\ [][MP!MutexNext]_mutexVars

LEMMA PosixRuns == PosixSpec => Posix!MutexSpec
  <1>1. MutexInit => Posix!MutexInit
    BY DEF MutexInit, Posix!MutexInit
  <1>2. [MP!MutexNext]_mutexVars => [Posix!MutexNext]_Posix!mutexVars
    BY PosixNext DEF mutexVars, Posix!mutexVars
  <1> QED
    BY <1>1, <1>2, PTL DEF PosixSpec, Posix!MutexSpec

LEMMA PosixKeeps ==
    PosixSpec => [](MutexTypeOK /\ NoOwnerOnEntry /\ LockObjectsTellOwner)
  <1>0. Posix!MutexAssumption
    BY PartsAssumption DEF PartsAssumption, MP!MutexAssumption, Posix!MutexAssumption
  <1>1. Posix!MutexTypeOK => MutexTypeOK
    BY DEF MutexTypeOK, Posix!MutexTypeOK, ObjectStates, Posix!ObjectStates, Pcs, Posix!Pcs, Idle, Posix!Idle
  <1>2. Posix!NoOwnerOnEntry => NoOwnerOnEntry
    BY DEF NoOwnerOnEntry, Posix!NoOwnerOnEntry, Relocked, Posix!Relocked
  <1>3. Posix!LockObjectsTellOwner => LockObjectsTellOwner
    BY DEF LockObjectsTellOwner, Posix!LockObjectsTellOwner, Holds, Posix!Holds
  <1> QED
    BY <1>0, <1>1, <1>2, <1>3, PosixRuns, Posix!MutexTypes, Posix!NoOwnerFound, Posix!OwnerIsTold, PTL

LEMMA PosixIsALock == PosixSpec => ImplementsLock
  <1>0. Posix!MutexAssumption
    BY PartsAssumption DEF PartsAssumption, MP!MutexAssumption, Posix!MutexAssumption
  <1>1. Posix!LockedBy = LockedBy /\ Posix!LockedBy' = LockedBy'
    BY DEF LockedBy, Posix!LockedBy, Holds, Posix!Holds
  <1>2. Posix!AbstractLock!Constructed => AbstractLock!Constructed
    BY <1>1 DEF AbstractLock!Constructed, Posix!AbstractLock!Constructed
  <1>3. [Posix!AbstractLock!ChangesHands]_Posix!LockedBy => [AbstractLock!ChangesHands]_LockedBy
    BY <1>1 DEF AbstractLock!ChangesHands, Posix!AbstractLock!ChangesHands,
                AbstractLock!Acquires, Posix!AbstractLock!Acquires,
                AbstractLock!Releases, Posix!AbstractLock!Releases
  <1> QED
    BY <1>0, <1>2, <1>3, PosixRuns, Posix!MutexIsALock, PTL
    DEF ImplementsLock, Posix!ImplementsLock, AbstractLock!Promised, Posix!AbstractLock!Promised

----------------------------------------------------------------------------
(* The parts, one of which a behaviour of MCThreads chooses.               *)

LEMMA PartsRun == PartsSpec => PartsInit /\ [][PartsNext]_partsVars
  BY PTL DEF PartsSpec

\* Whatever is chosen, a behaviour of MCThreads is one of a thread, of a sleep and of an atomic.
LEMMA PartsAreThread == PartsSpec => Spec
  <1>1. PartsInit => Init
    BY DEF PartsInit
  <1>2. [PartsNext]_partsVars => [Next]_vars
    BY DEF PartsNext, partsVars, ThreadRuns, MutexRuns, SleepRuns, AtomicRuns, Finished
  <1> QED
    BY <1>1, <1>2, PartsRun, PTL DEF Spec

LEMMA PartsAreSleep == PartsSpec => SleepSpec
  <1>1. PartsInit => SleepInit
    BY DEF PartsInit
  <1>2. [PartsNext]_partsVars => [SleepNext]_sleepVars
    BY DEF PartsNext, partsVars, ThreadRuns, MutexRuns, SleepRuns, AtomicRuns, Finished
  <1> QED
    BY <1>1, <1>2, PartsRun, PTL DEF SleepSpec

LEMMA PartsAreAtomic == PartsSpec => AtomicSpec
  <1>1. PartsInit => AtomicInit
    BY DEF PartsInit
  <1>2. [PartsNext]_partsVars => [AtomicNext]_atomicVars
    BY DEF PartsNext, partsVars, ThreadRuns, MutexRuns, SleepRuns, AtomicRuns, Finished
  <1> QED
    BY <1>1, <1>2, PartsRun, PTL DEF AtomicSpec

OnPosix == part = "mutexPosix"

\* It is one of a mutex, on the platform that is chosen for all of it.
LEMMA PartsAreMutex == PartsSpec => MutexSpec \/ PosixSpec
  <1>1. PartsInit => MutexInit
    BY DEF PartsInit
  <1>2. [PartsNext]_partsVars /\ OnPosix => OnPosix' /\ [MP!MutexNext]_mutexVars
    BY DEF PartsNext, partsVars, ThreadRuns, MutexRuns, SleepRuns, AtomicRuns, Finished, OnPosix
  <1>3. [PartsNext]_partsVars /\ ~OnPosix => ~OnPosix' /\ [MutexNext]_mutexVars
    BY DEF PartsNext, partsVars, ThreadRuns, MutexRuns, SleepRuns, AtomicRuns, Finished, OnPosix
  <1> QED
    BY <1>1, <1>2, <1>3, PartsRun, PTL DEF MutexSpec, PosixSpec

LEMMA MutexPartKeeps == PartsSpec => [](MutexTypeOK /\ NoOwnerOnEntry /\ LockObjectsTellOwner)
  <1>1. MutexAssumption
    BY PartsAssumption DEF PartsAssumption
  <1> QED
    BY <1>1, PartsAreMutex, PosixKeeps, MutexTypes, NoOwnerFound, OwnerIsTold, PTL

\* Every variable of a thread, a mutex, a sleep and an atomic keeps its range, in each build and way
\* of use that MCThreads chooses from (thread.cxx, mutex.cxx, atomic.hxx).
THEOREM PartsTyped == PartsSpec => []PartsTypeOK
  <1>1. SleepAssumption /\ AtomicAssumption
    BY PartsAssumption DEF PartsAssumption
  <1>2. TypeOK /\ MutexTypeOK /\ SleepTypeOK /\ AtomicTypeOK => PartsTypeOK
    BY DEF PartsTypeOK
  <1> QED
    BY <1>1, <1>2, PartsAreThread, ThreadTypes, MutexPartKeeps, PartsAreSleep, SleepIsTyped,
       PartsAreAtomic, AtomicIsTyped, PTL

\* All invariants that the run of MCThreads checks on its instance hold of the very specification it
\* checks, for any threads, clients and bounds: references and handles are counted, locks tell
\* their owner, sleeps last as long as they should, and no increment is lost.
THEOREM PartsKeepInvariants ==
    PartsSpec => [](/\ RefsCounted /\ HandlesAccounted /\ NoOwnerOnEntry /\ LockObjectsTellOwner
                    /\ SleepsLongEnough /\ SleepsNoLonger /\ LosesNoIncrement)
  <1>1. SleepAssumption /\ AtomicAssumption
    BY PartsAssumption DEF PartsAssumption
  <1> QED
    BY <1>1, PartsAreThread, CountIsRight, HandlesClosedOnce, MutexPartKeeps,
       PartsAreSleep, SleepLastsLongEnough, SleepLastsNoLonger,
       PartsAreAtomic, AtomicLosesNoIncrement, PTL

\* In every behaviour of MCThreads the thread keeps what its promise says, and the mutex, on both
\* platforms, is the abstract lock.
THEOREM PartsImplement == PartsSpec => KeepsPromise /\ ImplementsLock
  <1>1. MutexAssumption
    BY PartsAssumption DEF PartsAssumption
  <1> QED
    BY <1>1, PartsAreThread, ThreadKeepsPromise, PartsAreMutex, MutexIsALock, PosixIsALock, PTL

=============================================================================
