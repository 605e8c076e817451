------------------------- MODULE MCComponentsProofs -------------------------
(***************************************************************************)
(* Proofs about Stopwatch, HostInfo, Affinity and Utf8, and about all of   *)
(* MCComponents: what its run checks on a small instance holds for every   *)
(* value of the constants.                                                 *)
(***************************************************************************)
EXTENDS MCComponents, VectorProofs, RptrProofs, ContainerProofs, FiniteSetTheorems, SequenceTheorems, TLAPS

----------------------------------------------------------------------------
(* Remainders.                                                             *)

\* Division with a remainder.
LEMMA DivMod ==
    ASSUME NEW m \in Nat \ {0}, NEW x \in Int
    PROVE  x \div m \in Int /\ x % m \in 0..(m - 1) /\ x = (x \div m) * m + (x % m)
  OBVIOUS

LEMMA Divides ==
    ASSUME NEW m \in Nat \ {0}, NEW x \in Int
    PROVE  \E q \in Int : \E r \in 0..(m - 1) : x % m = r /\ x = q * m + r
  <1>1. x \div m \in Int /\ x % m \in 0..(m - 1) /\ x = (x \div m) * m + (x % m)
    BY DivMod
  <1> QED
    BY ONLY <1>1, ZenonT(20)

\* There is only one remainder.
LEMMA ModUnique ==
    ASSUME NEW m \in Nat \ {0}, NEW q \in Int, NEW r \in 0..(m - 1)
    PROVE  (q * m + r) % m = r
  OBVIOUS

\* A number within the modulus is its own remainder.
LEMMA ModWithin ==
    ASSUME NEW m \in Nat \ {0}, NEW x \in 0..(m - 1)
    PROVE  x % m = x
  BY ModUnique

----------------------------------------------------------------------------
(* Stopwatch.                                                              *)

Elapsed == systemClock - ClockStart

\* What the stopwatch will add to accum_ns when it is stopped.
Running == IF started < Elapsed THEN Elapsed - started ELSE 0

\* The clock is not set back before the start of the program.
WatchTypes ==
    /\ systemClock \in Int /\ Elapsed \in 0..Latest
    /\ stopped \in BOOLEAN /\ setBack \in BOOLEAN
    /\ accum \in Nat /\ taken \in Nat /\ ran \in 0..MostRun
    /\ started \in 0..Latest

\* What reset has returned and what the stopwatch shows is not more than the time it ran.
NothingAdded ==
    /\ stopped => taken + accum <= ran
    /\ ~stopped => taken + accum + Running <= ran

NoneMissing ==
    /\ ~setBack /\ stopped => taken + accum = ran
    /\ ~setBack /\ ~stopped => started <= Elapsed /\ taken + accum + (Elapsed - started) = ran

WatchInv == WatchTypes /\ NothingAdded /\ NoneMissing

\* The clock reads as the time since the program started.
LEMMA ReadingIsElapsed ==
    ASSUME StopwatchAssumption, WatchInv PROVE Reading = Elapsed
  BY ModWithin DEF StopwatchAssumption, WatchInv, WatchTypes, NothingAdded, NoneMissing, Elapsed, Reading

\* The time shown fits in a signed number.
LEMMA AccumulatedFits ==
    ASSUME StopwatchAssumption, WatchInv, ~stopped
    PROVE  Accumulated = accum + Running /\ Running \in Nat
  <1>1. Running \in Nat
    BY DEF Running, WatchInv, WatchTypes, NothingAdded, NoneMissing
  <1>2. accum + Running \in 0..MostRun
    BY <1>1 DEF WatchInv, WatchTypes, NothingAdded, NoneMissing, StopwatchAssumption
  <1>3. PICK x : x = accum + Running
    OBVIOUS
  <1>4. x % ClockModulus = x /\ 2 * x < ClockModulus
    BY <1>2, <1>3, ModWithin DEF StopwatchAssumption
  <1>5. Signed(x) = x
    BY <1>4 DEF Signed
  <1> QED
    BY <1>1, <1>3, <1>5, ReadingIsElapsed DEF Accumulated, Since, Running

\* A stopwatch that was just made.
LEMMA WatchInvInit == ASSUME StopwatchAssumption, WatchInit PROVE WatchInv
  <1>1. Elapsed = 0
    BY DEF Elapsed, WatchInit, StopwatchAssumption
  <1>2. Reading = 0
    BY <1>1, ModWithin DEF Reading, Elapsed, StopwatchAssumption
  <1>3. started = 0 /\ accum = 0 /\ taken = 0 /\ ran = 0 /\ setBack = FALSE /\ stopped \in BOOLEAN
    BY <1>2 DEF WatchInit
  <1>4. Running = 0
    BY <1>1, <1>3 DEF Running
  <1>5. systemClock \in Int /\ 0 \in 0..Latest /\ 0 \in 0..MostRun
    BY DEF WatchInit, StopwatchAssumption
  <1>6. WatchTypes
    BY <1>1, <1>3, <1>5 DEF WatchTypes
  <1>7. NothingAdded
    BY <1>3, <1>4 DEF NothingAdded
  <1>8. NoneMissing
    BY <1>1, <1>3 DEF NoneMissing
  <1> QED
    BY <1>6, <1>7, <1>8 DEF WatchInv

\* An earlier reading of the clock adds less.
LEMMA EarlierIsLess ==
    ASSUME NEW since \in Int, NEW before \in Int, NEW after \in Int, after <= before,
           NEW sum \in Int, NEW bound \in Int,
           sum + (IF since < before THEN before - since ELSE 0) <= bound
    PROVE  sum + (IF since < after THEN after - since ELSE 0) <= bound
  OBVIOUS

\* What the calls and the clock do to it.
LEMMA WatchInvNext ==
    ASSUME StopwatchAssumption, ClockStart <= Earliest, WatchInv, [WatchNext]_watchVars
    PROVE  WatchInv'
  <1>1. Reading = Elapsed
    BY ReadingIsElapsed
  <1>2. Running = IF started < Elapsed THEN Elapsed - started ELSE 0
    BY DEF Running
  <1>3. Running' = IF started' < Elapsed' THEN Elapsed' - started' ELSE 0
    BY DEF Running
  <1>4. CASE start
    <2>1. Elapsed' = Elapsed
      BY <1>4 DEF start, Elapsed
    <2>2. started' = Elapsed /\ Running' = 0
      BY <1>1, <1>3, <1>4, <2>1 DEF start, WatchInv, WatchTypes, NothingAdded, NoneMissing
    <2>4. WatchTypes'
      BY <1>4, <2>1, <2>2 DEF start, WatchInv, WatchTypes
    <2>5. NothingAdded'
      BY <1>4, <2>1, <2>2 DEF start, WatchInv, WatchTypes, NothingAdded
    <2>6. NoneMissing'
      BY <1>4, <2>1, <2>2 DEF start, WatchInv, WatchTypes, NoneMissing
    <2> QED
      BY <2>4, <2>5, <2>6 DEF WatchInv
  <1>5. CASE \E ns \in -1..MostRun : restart(ns)
    <2>1. PICK ns \in 0..MostRun : restart(ns)
      BY <1>5 DEF restart, StopwatchAssumption
    <2>2. Elapsed' = Elapsed
      BY <2>1 DEF restart, Elapsed
    <2>3. started' = Elapsed /\ Running' = 0
      BY <1>1, <1>3, <2>1, <2>2 DEF restart, WatchInv, WatchTypes, NothingAdded, NoneMissing
    <2>4. WatchTypes'
      <3>1. ns \in Nat /\ accum' = ns /\ ran' = ns /\ taken' = 0 /\ stopped' = FALSE
        BY <2>1 DEF restart, StopwatchAssumption
      <3>2. UNCHANGED <<systemClock, setBack>>
        BY <2>1 DEF restart
      <3> QED
        BY <2>2, <2>3, <3>1, <3>2 DEF WatchInv, WatchTypes
    <2>5. NothingAdded'
      BY <2>1, <2>2, <2>3 DEF restart, WatchInv, WatchTypes, NothingAdded, StopwatchAssumption
    <2>6. NoneMissing'
      BY <2>1, <2>2, <2>3 DEF restart, WatchInv, WatchTypes, NoneMissing, StopwatchAssumption
    <2> QED
      BY <2>4, <2>5, <2>6 DEF WatchInv
  <1>6. CASE stop
    <2>1. Elapsed' = Elapsed /\ accum' = accum + Running /\ Running \in Nat
      BY <1>6, AccumulatedFits DEF stop, Elapsed
    <2> QED
      BY <1>2, <1>3, <1>6, <2>1 DEF stop, WatchInv, WatchTypes, NothingAdded, NoneMissing, StopwatchAssumption
  <1>7. CASE stopwatch_reset
    <2>1. Elapsed' = Elapsed
      BY <1>7 DEF stopwatch_reset, Elapsed
    <2>2. CASE stopped
      BY <1>3, <1>7, <2>1, <2>2 DEF stopwatch_reset, StartedAgain, elapsed_ns, WatchInv, WatchTypes,
                                     NothingAdded, NoneMissing
    <2>3. CASE ~stopped
      <3>1. taken' = taken + (accum + Running) /\ Running \in Nat
        BY <1>7, <2>3, AccumulatedFits DEF stopwatch_reset, elapsed_ns
      <3> QED
        BY <1>1, <1>2, <1>3, <1>7, <2>1, <2>3, <3>1
           DEF stopwatch_reset, StartedAgain, WatchInv, WatchTypes, NothingAdded, NoneMissing
    <2> QED
      BY <2>2, <2>3 DEF WatchInv, WatchTypes, NothingAdded, NoneMissing
  <1>8. CASE ClockTicks
    <2>1. Elapsed' = Elapsed + 1 /\ Elapsed + 1 <= Latest
      BY <1>8 DEF ClockTicks, Elapsed, WatchInv, WatchTypes, NothingAdded, NoneMissing, StopwatchAssumption
    <2> QED
      BY <1>2, <1>3, <1>8, <2>1
      DEF ClockTicks, WatchInv, WatchTypes, NothingAdded, NoneMissing, StopwatchAssumption
  <1>9. CASE \E to \in 0..Latest : SetBack(to)
    <2>1. PICK to \in 0..Latest : SetBack(to)
      BY <1>9
    <2>2. Elapsed' \in 0..Latest /\ Elapsed' <= Elapsed
      BY <2>1 DEF SetBack, Elapsed, WatchInv, WatchTypes, NothingAdded, NoneMissing, StopwatchAssumption
    <2>4. WatchTypes'
      BY <2>1, <2>2 DEF SetBack, WatchInv, WatchTypes, StopwatchAssumption
    <2>5. NothingAdded'
      <3>1. UNCHANGED <<stopped, accum, started, ran, taken>>
        BY <2>1 DEF SetBack
      <3>2. accum \in Int /\ taken \in Int /\ ran \in Int /\ started \in Int /\ stopped \in BOOLEAN
        BY DEF WatchInv, WatchTypes, StopwatchAssumption
      <3>3. PICK before \in Int : before = Elapsed
        BY DEF WatchInv, WatchTypes, StopwatchAssumption
      <3>4. PICK after \in Int : after = Elapsed' /\ after <= before
        BY <2>2, <3>3 DEF StopwatchAssumption
      <3>5. CASE stopped
        BY <3>1, <3>5 DEF WatchInv, NothingAdded
      <3>6. CASE ~stopped
        <4>1. taken + accum + (IF started < before THEN before - started ELSE 0) <= ran
          BY <1>2, <3>3, <3>6 DEF WatchInv, NothingAdded
        <4>2. taken + accum \in Int
          BY <3>2
        <4>3. taken + accum + (IF started < after THEN after - started ELSE 0) <= ran
          BY <3>2, <3>3, <3>4, <4>1, <4>2, EarlierIsLess
        <4> QED
          BY <1>3, <3>1, <3>4, <3>6, <4>3 DEF NothingAdded
      <3> QED
        BY <3>2, <3>5, <3>6
    <2>6. NoneMissing'
      BY <1>2, <1>3, <2>1, <2>2 DEF SetBack, WatchInv, WatchTypes, NoneMissing, StopwatchAssumption
    <2> QED
      BY <2>4, <2>5, <2>6 DEF WatchInv
  <1>10. CASE UNCHANGED watchVars
    BY <1>2, <1>3, <1>10 DEF watchVars, WatchInv, WatchTypes, NothingAdded, NoneMissing, Elapsed
  <1> QED
    BY <1>4, <1>5, <1>6, <1>7, <1>8, <1>9, <1>10 DEF WatchNext

\* By a clock that is never set back, what reset has returned and what the stopwatch shows add up to
\* the time it ran; a clock that is set back, though not before the start of the program, only
\* takes time away (stopwatch.cxx:105-110).
THEOREM StopwatchAddsUp ==
    ASSUME StopwatchAssumption, ClockStart <= Earliest PROVE WatchSpec => []TimeAddsUp
  <1>1. WatchInit => WatchInv
    BY WatchInvInit
  <1>2. WatchInv /\ [WatchNext]_watchVars => WatchInv'
    BY WatchInvNext
  <1>3. WatchInv => TimeAddsUp
    <2> SUFFICES ASSUME WatchInv PROVE TimeAddsUp
      OBVIOUS
    <2>1. CASE stopped
      BY <2>1 DEF WatchInv, WatchTypes, NothingAdded, NoneMissing, TimeAddsUp, elapsed_ns
    <2>2. CASE ~stopped
      <3>1. elapsed_ns = accum + Running /\ Running \in Nat
        BY <2>2, AccumulatedFits DEF elapsed_ns
      <3>2. taken + elapsed_ns = taken + accum + Running
        BY <3>1 DEF WatchInv, WatchTypes, NothingAdded, NoneMissing
      <3>3. ~setBack => Running = Elapsed - started
        BY <2>2 DEF Running, WatchInv, WatchTypes, NothingAdded, NoneMissing
      <3> QED
        BY <2>2, <3>2, <3>3 DEF WatchInv, WatchTypes, NothingAdded, NoneMissing, TimeAddsUp
    <2> QED
      BY <2>1, <2>2 DEF WatchInv, WatchTypes, NothingAdded, NoneMissing
  <1> QED
    BY <1>1, <1>2, <1>3, PTL DEF WatchSpec

\* The clock reads as an unsigned number, and the times that it is worked with are numbers.
LEMMA ReadingIsUnsigned ==
    ASSUME StopwatchAssumption, WatchTypeOK
    PROVE  Reading \in 0..(ClockModulus - 1) /\ Accumulated \in Int /\ elapsed_ns \in Int
  <1>1. ClockModulus \in Nat \ {0} /\ systemClock - ClockStart \in Int
    BY DEF StopwatchAssumption, WatchTypeOK
  <1>2. Reading \in 0..(ClockModulus - 1)
    BY <1>1, DivMod DEF Reading
  <1>3. PICK sum \in Int : sum = accum + Since(Reading)
    <2>1. PICK read \in Int : read = Reading
      BY <1>1, <1>2
    <2>2. started \in Int /\ accum \in Int
      BY <1>1 DEF WatchTypeOK
    <2>3. Since(read) \in Int
      BY <2>2 DEF Since
    <2> QED
      BY <2>1, <2>2, <2>3
  <1>4. sum % ClockModulus \in Int
    BY <1>1, DivMod
  <1>5. Accumulated \in Int
    BY <1>1, <1>3, <1>4 DEF Accumulated, Signed
  <1> QED
    BY <1>2, <1>5 DEF elapsed_ns, WatchTypeOK

LEMMA WatchTypedInit == ASSUME StopwatchAssumption, WatchInit PROVE WatchTypeOK
  <1>1. ClockModulus \in Nat \ {0} /\ systemClock - ClockStart \in Int
    BY DEF StopwatchAssumption, WatchInit
  <1>2. Reading \in 0..(ClockModulus - 1)
    BY <1>1, DivMod DEF Reading
  <1>3. 0 \in 0..(ClockModulus - 1) /\ 0 \in 0..MostRun /\ ClockStart \in 0..Latest
    BY DEF StopwatchAssumption
  <1>4. started \in 0..(ClockModulus - 1)
    BY <1>2, <1>3 DEF WatchInit
  <1>5. stopped \in BOOLEAN /\ setBack \in BOOLEAN
    BY DEF WatchInit
  <1> QED
    BY <1>3, <1>4, <1>5 DEF WatchInit, WatchTypeOK

LEMMA WatchTypedNext ==
    ASSUME StopwatchAssumption, WatchTypeOK, [WatchNext]_watchVars PROVE WatchTypeOK'
  <1>1. Reading \in 0..(ClockModulus - 1) /\ Accumulated \in Int /\ elapsed_ns \in Int
    BY ReadingIsUnsigned
  <1>2. 0 \in 0..(ClockModulus - 1) /\ 0 \in Int
    BY DEF StopwatchAssumption
  <1>3. CASE start
    BY <1>1, <1>3 DEF start, WatchTypeOK
  <1>4. CASE stop
    BY <1>1, <1>2, <1>4 DEF stop, WatchTypeOK
  <1>5. CASE stopwatch_reset
    <2>1. taken' \in Int /\ started' \in 0..(ClockModulus - 1)
      BY <1>1, <1>5 DEF stopwatch_reset, StartedAgain, WatchTypeOK
    <2> QED
      BY <1>2, <1>5, <2>1 DEF stopwatch_reset, WatchTypeOK
  <1>6. CASE ClockTicks
    BY <1>6 DEF ClockTicks, WatchTypeOK, StopwatchAssumption
  <1>7. ASSUME NEW ns \in -1..MostRun, restart(ns) PROVE WatchTypeOK'
    <2>1. ns \in Int /\ ns \in 0..MostRun
      BY <1>7 DEF restart, StopwatchAssumption
    <2>2. /\ accum' = ns /\ ran' = ns /\ taken' = 0 /\ stopped' = FALSE
          /\ started' = Reading /\ systemClock' = systemClock /\ setBack' = setBack
      BY <1>7 DEF restart
    <2>3. setBack' \in BOOLEAN /\ systemClock' \in 0..Latest
      BY <2>2 DEF WatchTypeOK
    <2> QED
      BY <1>1, <1>2, <2>1, <2>2, <2>3 DEF WatchTypeOK
  <1>8. ASSUME NEW to \in 0..Latest, SetBack(to) PROVE WatchTypeOK'
    BY <1>8 DEF SetBack, WatchTypeOK
  <1>9. CASE UNCHANGED watchVars
    BY <1>9 DEF watchVars, WatchTypeOK
  <1> QED
    BY <1>3, <1>4, <1>5, <1>6, <1>7, <1>8, <1>9 DEF WatchNext

\* However the clock is set, the times that the stopwatch keeps are numbers of their types
\* (stopwatch.hxx).
LEMMA WatchIsTyped == ASSUME StopwatchAssumption PROVE WatchSpec => []WatchTypeOK
  BY WatchTypedInit, WatchTypedNext, PTL DEF WatchSpec

----------------------------------------------------------------------------
(* HostInfo.                                                               *)

HostTypes ==
    /\ time \in Nat /\ time <= MaxTime /\ now \in Nat /\ now <= time
    /\ asking \in Kinds \cup {Nobody}
    /\ cpus \in [Kinds -> Counts]
    /\ seen \in [Kinds -> [Counts -> Int]]
    /\ stamp \in [Kinds -> Int] /\ cached \in [Kinds -> Int]

\* Nothing is seen later than now, and what there is, is seen now.
SeenSoFar ==
    \A k \in Kinds :
        /\ \A n \in Counts : seen[k][n] <= time
        /\ seen[k][cpus[k]] = time

\* What is in the cache was so when it was put there, or later.
Kept(k) ==
    /\ stamp[k] \in Nat /\ stamp[k] <= MaxTime
    /\ cached[k] \in Counts /\ seen[k][cached[k]] >= stamp[k]

CacheIsTrue == \A k \in Kinds : stamp[k] = FirstStamp \/ Kept(k)

ToldIsRecent == told.kind \in Kinds /\ told.now \in Int /\ AnswersAreRecent

HostInv == HostTypes /\ SeenSoFar /\ CacheIsTrue /\ ToldIsRecent

\* The time that the program begins with is as old as 2 * MaxAge, at any time.
LEMMA FirstStampIsOld ==
    ASSUME HostInfoAssumption, NEW t \in Nat, t <= MaxTime
    PROVE  (t - FirstStamp) % AgeModulus > MaxAge
  <1>1. AgeModulus \in Nat \ {0} /\ MaxAge \in Nat \ {0} /\ AgeModulus - 2 * MaxAge \in 0..(AgeModulus - 1)
    BY DEF HostInfoAssumption
  <1>2. 0 - 2 * MaxAge = (0 - 1) * AgeModulus + (AgeModulus - 2 * MaxAge)
    BY <1>1
  <1>3. FirstStamp = AgeModulus - 2 * MaxAge
    <2>1. PICK r \in 0..(AgeModulus - 1) : r = AgeModulus - 2 * MaxAge
      BY <1>1
    <2>2. ((0 - 1) * AgeModulus + r) % AgeModulus = r
      BY <1>1, ModUnique
    <2> QED
      BY <1>2, <2>1, <2>2 DEF FirstStamp
  <1>4. t + 2 * MaxAge \in 0..(AgeModulus - 1)
    BY DEF HostInfoAssumption
  <1>5. PICK r \in 0..(AgeModulus - 1) : r = t + 2 * MaxAge
    BY <1>4
  <1>6. ((0 - 1) * AgeModulus + r) % AgeModulus = r
    BY <1>1, ModUnique
  <1>7. t - FirstStamp = (0 - 1) * AgeModulus + r
    BY <1>1, <1>3, <1>5
  <1>8. r > MaxAge
    BY <1>1, <1>5
  <1> QED
    BY <1>6, <1>7, <1>8

\* A time that is not stale is at most MaxAge ago.
LEMMA FreshIsRecent ==
    ASSUME HostInfoAssumption, NEW t \in Nat, t <= MaxTime, NEW s \in Nat, s <= MaxTime,
           (t - s) % AgeModulus <= MaxAge
    PROVE  s >= t - MaxAge
  <1> SUFFICES ASSUME t - s > MaxAge PROVE FALSE
    BY DEF HostInfoAssumption
  <1>1. AgeModulus \in Nat \ {0} /\ MaxAge \in Nat
    BY DEF HostInfoAssumption
  <1>2. PICK d \in 0..(AgeModulus - 1) : d = t - s /\ d > MaxAge
    BY DEF HostInfoAssumption
  <1>3. d % AgeModulus = d
    BY <1>1, ModWithin
  <1> QED
    BY <1>1, <1>2, <1>3

LEMMA HostInvInit == ASSUME HostInfoAssumption, HostInit PROVE HostInv
  <1>1. FirstStamp \in Int /\ Never \in Int /\ Never <= 0
    BY DivMod DEF FirstStamp, Never, HostInfoAssumption
  <1>2. cpus \in [Kinds -> Counts] /\ time = 0 /\ now = 0 /\ 0 <= MaxTime
    BY DEF HostInit, HostInfoAssumption
  <1>3. \A k \in Kinds : \A n \in Counts : seen[k][n] = IF n = cpus[k] THEN 0 ELSE Never
    BY DEF HostInit
  <1>4. HostTypes
    BY <1>1, <1>2 DEF HostInit, HostTypes
  <1>5. SeenSoFar
    BY <1>1, <1>2, <1>3 DEF SeenSoFar
  <1>6. CacheIsTrue
    BY DEF HostInit, CacheIsTrue
  <1>7. ToldIsRecent
    <2>1. PICK k \in Kinds : told = [kind |-> k, count |-> cpus[k], now |-> 0]
      BY DEF HostInit
    <2>2. seen[k][cpus[k]] = 0 /\ cpus[k] \in Counts
      BY <1>2, <1>3
    <2>3. 0 >= 0 - MaxAge
      BY DEF HostInfoAssumption
    <2> QED
      BY <2>1, <2>2, <2>3 DEF ToldIsRecent, AnswersAreRecent
  <1> QED
    BY <1>4, <1>5, <1>6, <1>7 DEF HostInv

\* What is known stays true while the system goes on: what was seen at some time is not unseen.
LEMMA StaysTrue ==
    ASSUME HostInfoAssumption, HostInv, seen' \in [Kinds -> [Counts -> Int]],
           \A k \in Kinds : \A n \in Counts : seen'[k][n] >= seen[k][n],
           UNCHANGED <<stamp, cached, told>>
    PROVE  CacheIsTrue' /\ ToldIsRecent'
  <1>1. CacheIsTrue'
    <2> SUFFICES ASSUME NEW k \in Kinds, stamp[k] # FirstStamp PROVE Kept(k)'
      BY DEF CacheIsTrue
    <2>1. Kept(k)
      BY DEF HostInv, CacheIsTrue
    <2>2. PICK n \in Counts : n = cached[k]
      BY <2>1 DEF Kept
    <2>3. PICK before \in Int : before = seen[k][n]
      BY DEF HostInv, HostTypes
    <2>4. PICK after \in Int : after = seen'[k][n] /\ after >= before
      BY <2>3
    <2> QED
      BY <2>1, <2>2, <2>3, <2>4 DEF Kept
  <1>2. ToldIsRecent'
    <2>1. PICK n \in Counts : n = told.count
      BY DEF HostInv, ToldIsRecent, AnswersAreRecent
    <2>2. PICK k \in Kinds : k = told.kind
      BY DEF HostInv, ToldIsRecent
    <2>3. PICK before \in Int : before = seen[k][n]
      BY DEF HostInv, HostTypes
    <2>4. PICK after \in Int : after = seen'[k][n] /\ after >= before
      BY <2>3
    <2>5. PICK least \in Int : least = told.now - MaxAge
      BY DEF HostInv, ToldIsRecent, HostInfoAssumption
    <2>6. before >= least
      BY <2>1, <2>2, <2>3, <2>5 DEF HostInv, ToldIsRecent, AnswersAreRecent
    <2> QED
      BY <2>1, <2>2, <2>4, <2>5, <2>6 DEF HostInv, ToldIsRecent, AnswersAreRecent
  <1> QED
    BY <1>1, <1>2

LEMMA TimePassesKeeps ==
    ASSUME HostInfoAssumption, HostInv, TimePasses PROVE HostInv'
  <1>1. \A k \in Kinds : \A n \in Counts :
            seen'[k][n] = IF n = cpus[k] THEN time + 1 ELSE seen[k][n]
    BY DEF TimePasses, HostInv, HostTypes
  <1>2. time \in Nat /\ time' = time + 1 /\ time + 1 <= MaxTime
    BY DEF TimePasses, HostInv, HostTypes, HostInfoAssumption
  <1>3. seen' \in [Kinds -> [Counts -> Int]]
    <2>1. \A k \in Kinds : [seen[k] EXCEPT ![cpus[k]] = time + 1] \in [Counts -> Int]
      BY <1>2 DEF HostInv, HostTypes
    <2> QED
      BY <2>1 DEF TimePasses
  <1>4. \A k \in Kinds : \A n \in Counts : seen[k][n] \in Int /\ seen[k][n] <= time
    BY DEF HostInv, HostTypes, SeenSoFar
  <1>5. \A k \in Kinds : cpus[k] \in Counts
    BY DEF HostInv, HostTypes
  <1>6. UNCHANGED <<cpus, stamp, cached, asking, now, told>>
    BY DEF TimePasses
  <1>7. HostTypes'
    BY <1>2, <1>3, <1>6 DEF HostInv, HostTypes
  <1>8. SeenSoFar'
    BY <1>1, <1>2, <1>4, <1>5, <1>6 DEF SeenSoFar
  <1>9. CacheIsTrue' /\ ToldIsRecent'
    BY <1>1, <1>2, <1>3, <1>4, <1>6, StaysTrue
  <1> QED
    BY <1>7, <1>8, <1>9 DEF HostInv

LEMMA CpuCountChangesKeeps ==
    ASSUME HostInfoAssumption, HostInv,
           NEW k \in Kinds, NEW n \in Counts, CpuCountChanges(k, n)
    PROVE  HostInv'
  <1>1. time \in Int
    BY DEF HostInv, HostTypes
  <1>2. seen' \in [Kinds -> [Counts -> Int]] /\ cpus' \in [Kinds -> Counts]
    BY <1>1 DEF CpuCountChanges, HostInv, HostTypes
  <1>3. \A j \in Kinds : \A m \in Counts :
            seen'[j][m] = IF j = k /\ m = n THEN time ELSE seen[j][m]
    BY DEF CpuCountChanges, HostInv, HostTypes
  <1>4. \A j \in Kinds : cpus'[j] = IF j = k THEN n ELSE cpus[j]
    BY DEF CpuCountChanges, HostInv, HostTypes
  <1>5. \A j \in Kinds : \A m \in Counts : seen[j][m] \in Int /\ seen[j][m] <= time
    BY DEF HostInv, HostTypes, SeenSoFar
  <1>6. UNCHANGED <<time, stamp, cached, asking, now, told>>
    BY DEF CpuCountChanges
  <1>7. HostTypes'
    BY <1>2, <1>6 DEF HostInv, HostTypes
  <1>8. SeenSoFar'
    <2> SUFFICES ASSUME NEW j \in Kinds
                 PROVE  /\ \A m \in Counts : seen'[j][m] <= time
                        /\ seen'[j][cpus'[j]] = time
      BY <1>6 DEF SeenSoFar
    <2>1. cpus[j] \in Counts /\ seen[j][cpus[j]] = time
      BY DEF HostInv, HostTypes, SeenSoFar
    <2> QED
      BY <1>1, <1>3, <1>4, <1>5, <2>1
  <1>9. CacheIsTrue' /\ ToldIsRecent'
    BY <1>1, <1>2, <1>3, <1>5, <1>6, StaysTrue
  <1> QED
    BY <1>7, <1>8, <1>9 DEF HostInv

\* A cache that is not stale holds what there was in the last MaxAge.
LEMMA CacheAnswers ==
    ASSUME HostInfoAssumption, HostInv, asking # Nobody, ~Stale(asking)
    PROVE  cached[asking] \in Counts /\ seen[asking][cached[asking]] >= now - MaxAge
  <1>1. asking \in Kinds /\ now \in Nat /\ now <= MaxTime
    BY DEF HostInv, HostTypes, HostInfoAssumption
  <1>2. PICK s \in Int : s = stamp[asking]
    BY <1>1 DEF HostInv, HostTypes
  <1>3. AgeModulus \in Nat \ {0} /\ MaxAge \in Nat /\ now - s \in Int
    BY <1>1, <1>2 DEF HostInfoAssumption
  <1>4. (now - s) % AgeModulus <= MaxAge
    <2>1. PICK age \in Int : age = (now - s) % AgeModulus
      BY <1>3, DivMod
    <2>2. ~(MaxAge < age)
      BY <1>2, <2>1 DEF Stale, Age
    <2> QED
      BY <1>3, <2>1, <2>2
  <1>5. s # FirstStamp
    <2>1. SUFFICES ASSUME s = FirstStamp PROVE FALSE
      OBVIOUS
    <2>2. PICK age \in Int : age = (now - s) % AgeModulus
      BY <1>3, DivMod
    <2>3. age > MaxAge
      BY <1>1, <2>1, <2>2, FirstStampIsOld
    <2> QED
      BY <1>3, <1>4, <2>2, <2>3
  <1>6. Kept(asking)
    BY <1>1, <1>2, <1>5 DEF HostInv, CacheIsTrue
  <1>7. s \in Nat /\ s <= MaxTime
    BY <1>2, <1>6 DEF Kept
  <1>8. s >= now - MaxAge
    BY <1>1, <1>4, <1>7, FreshIsRecent
  <1>9. PICK n \in Counts : n = cached[asking]
    BY <1>6 DEF Kept
  <1>10. PICK when \in Int : when = seen[asking][n] /\ when >= s
    BY <1>1, <1>2, <1>6, <1>9 DEF Kept, HostInv, HostTypes
  <1> QED
    BY <1>1, <1>3, <1>8, <1>9, <1>10

\* What the calls do: the others but the answers leave what was told.
LEMMA AnswerFromCacheKeeps ==
    ASSUME HostInfoAssumption, HostInv, AnswerFromCache PROVE HostInv'
  <1>1. asking \in Kinds /\ asking # Nobody /\ ~Stale(asking) /\ now \in Nat /\ time \in Nat
    BY DEF AnswerFromCache, HostInv, HostTypes
  <1>2. told' = [kind |-> asking, count |-> cached[asking], now |-> now]
    BY DEF AnswerFromCache, Return
  <1>3. UNCHANGED <<time, cpus, seen, stamp, cached>> /\ asking' = Nobody /\ now' = 0
    BY DEF AnswerFromCache, Return
  <1>4. HostTypes' /\ SeenSoFar' /\ CacheIsTrue'
    BY <1>1, <1>3 DEF HostInv, HostTypes, SeenSoFar, CacheIsTrue, Kept
  <1>5. ToldIsRecent'
    BY <1>1, <1>2, <1>3, CacheAnswers DEF ToldIsRecent, AnswersAreRecent
  <1> QED
    BY <1>4, <1>5 DEF HostInv

LEMMA AskSystemKeeps ==
    ASSUME HostInfoAssumption, HostInv, AskSystem PROVE HostInv'
  <1>1. PICK k \in Kinds : k = asking
    BY DEF AskSystem, HostInv, HostTypes
  <1>2. PICK n \in Counts : n = cpus[k]
    BY <1>1 DEF HostInv, HostTypes
  <1>3. now \in Nat /\ time \in Nat /\ now <= time /\ now <= MaxTime
    BY DEF HostInv, HostTypes, HostInfoAssumption
  <1>4. seen[k][n] = time /\ n \in Int
    BY <1>2 DEF HostInv, SeenSoFar, HostInfoAssumption
  <1>5. stamp' = [stamp EXCEPT ![k] = now] /\ cached' = [cached EXCEPT ![k] = n]
    BY <1>1, <1>2 DEF AskSystem
  <1>6. told' = [kind |-> k, count |-> n, now |-> now]
    BY <1>1, <1>2 DEF AskSystem, Return
  <1>7. UNCHANGED <<time, cpus, seen>> /\ asking' = Nobody /\ now' = 0
    BY DEF AskSystem, Return
  <1>8. HostTypes'
    BY <1>3, <1>4, <1>5, <1>7 DEF HostInv, HostTypes
  <1>9. SeenSoFar'
    BY <1>7 DEF HostInv, SeenSoFar
  <1>10. CacheIsTrue'
    <2> SUFFICES ASSUME NEW j \in Kinds PROVE stamp'[j] = FirstStamp \/ Kept(j)'
      BY DEF CacheIsTrue
    <2>1. CASE j = k
      BY <1>3, <1>4, <1>5, <1>7, <2>1 DEF HostInv, HostTypes, Kept
    <2>2. CASE j # k
      BY <1>5, <1>7, <2>2 DEF HostInv, HostTypes, CacheIsTrue, Kept
    <2> QED
      BY <2>1, <2>2
  <1>11. ToldIsRecent'
    BY <1>3, <1>4, <1>6, <1>7 DEF ToldIsRecent, AnswersAreRecent, HostInfoAssumption
  <1> QED
    BY <1>8, <1>9, <1>10, <1>11 DEF HostInv

LEMMA HostInvNext ==
    ASSUME HostInfoAssumption, HostInv, [HostNext]_hostVars PROVE HostInv'
  <1>1. CASE TimePasses
    BY <1>1, TimePassesKeeps
  <1>2. CASE AnswerFromCache
    BY <1>2, AnswerFromCacheKeeps
  <1>3. CASE AskSystem
    BY <1>3, AskSystemKeeps
  <1>4. CASE SystemFails
    BY <1>4 DEF SystemFails, StampOnFailure, HostInv, HostTypes, SeenSoFar, CacheIsTrue, Kept,
                ToldIsRecent, AnswersAreRecent
  <1>5. CASE \E k \in Kinds : Enter(k)
    <2>1. PICK k \in Kinds : Enter(k)
      BY <1>5
    <2>2. UNCHANGED <<time, cpus, seen, stamp, cached, told>> /\ asking' = k /\ now' = time
      BY <2>1 DEF Enter
    <2>3. HostTypes'
      BY <2>2 DEF HostInv, HostTypes
    <2> QED
      BY <2>2, <2>3 DEF HostInv, SeenSoFar, CacheIsTrue, Kept, ToldIsRecent, AnswersAreRecent
  <1>6. CASE \E k \in Kinds : \E n \in Counts : CpuCountChanges(k, n)
    BY <1>6, CpuCountChangesKeeps
  <1>7. CASE UNCHANGED hostVars
    BY <1>7 DEF hostVars, HostInv, HostTypes, SeenSoFar, CacheIsTrue, Kept, ToldIsRecent,
                AnswersAreRecent
  <1> QED
    BY <1>1, <1>2, <1>3, <1>4, <1>5, <1>6, <1>7 DEF HostNext

\* What cnt_cpus_configured and cnt_cpus_available return was so within fc_max_sysconf_age_ns of the
\* call, from the first call on, whenever cpus come and go and sysconf fails (host_info.cxx:43-121).
THEOREM HostInfoAnswersAreRecent ==
    ASSUME HostInfoAssumption PROVE HostSpec => []AnswersAreRecent
  <1>1. HostInit => HostInv
    BY HostInvInit
  <1>2. HostInv /\ [HostNext]_hostVars => HostInv'
    BY HostInvNext
  <1>3. HostInv => AnswersAreRecent
    BY DEF HostInv, ToldIsRecent
  <1> QED
    BY <1>1, <1>2, <1>3, PTL DEF HostSpec

LEMMA HostTypedInit == ASSUME HostInfoAssumption, HostInit PROVE HostTypeOK
  <1>1. 0 \in Times /\ Counts \subseteq Nat
    BY DEF HostInfoAssumption, Times
  <1>2. PICK k \in Kinds : told = [kind |-> k, count |-> cpus[k], now |-> 0]
    BY DEF HostInit
  <1>3. told \in [kind : Kinds, count : Counts \cup {0}, now : Times]
    BY <1>1, <1>2 DEF HostInit
  <1>4. seen \in [Kinds -> [Counts -> Times \cup {Never}]]
    BY <1>1 DEF HostInit
  <1>5. stamp \in [Kinds -> Times \cup {FirstStamp}] /\ cached \in [Kinds -> Counts \cup {0}]
    BY DEF HostInit
  <1> QED
    BY <1>1, <1>3, <1>4, <1>5 DEF HostInit, HostTypeOK

\* The owner of the mutex returns what the cache or the system has answered, and how it leaves the cache.
LEMMA ReturnIsTyped ==
    ASSUME HostTypeOK, NEW n \in Counts \cup {0}, asking # Nobody, Return(n), 0 \in Times,
           stamp' \in [Kinds -> Times \cup {FirstStamp}], cached' \in [Kinds -> Counts \cup {0}]
    PROVE  HostTypeOK'
  <1>1. told' \in [kind : Kinds, count : Counts \cup {0}, now : Times]
    BY DEF HostTypeOK, Return
  <1>2. asking' \in Kinds \cup {Nobody} /\ now' \in Times /\ UNCHANGED <<time, cpus, seen>>
    BY DEF Return
  <1> QED
    BY <1>1, <1>2 DEF HostTypeOK

LEMMA HostTypedNext ==
    ASSUME HostInfoAssumption, HostTypeOK, [HostNext]_hostVars PROVE HostTypeOK'
  <1>0. 0 \in Times
    BY DEF HostInfoAssumption, Times
  <1>1. CASE TimePasses
    <2>1. time' \in Times
      BY <1>1 DEF TimePasses, Times, HostTypeOK, HostInfoAssumption
    <2>2. seen' \in [Kinds -> [Counts -> Times \cup {Never}]]
      BY <1>1, <2>1 DEF TimePasses, HostTypeOK
    <2> QED
      BY <1>1, <2>1, <2>2 DEF TimePasses, HostTypeOK
  <1>2. ASSUME asking # Nobody, AnswerFromCache PROVE HostTypeOK'
    <2>1. cached[asking] \in Counts \cup {0}
      BY <1>2 DEF HostTypeOK
    <2> QED
      BY <1>0, <1>2, <2>1, ReturnIsTyped DEF AnswerFromCache, HostTypeOK
  <1>3. ASSUME asking # Nobody, AskSystem PROVE HostTypeOK'
    <2>1. /\ cpus[asking] \in Counts
          /\ stamp' \in [Kinds -> Times \cup {FirstStamp}] /\ cached' \in [Kinds -> Counts \cup {0}]
      BY <1>3 DEF AskSystem, HostTypeOK
    <2> QED
      BY <1>0, <1>3, <2>1, ReturnIsTyped DEF AskSystem
  <1>4. CASE SystemFails
    BY <1>0, <1>4 DEF SystemFails, StampOnFailure, HostTypeOK
  <1>5. ASSUME NEW k \in Kinds, Enter(k) PROVE HostTypeOK'
    BY <1>5 DEF Enter, HostTypeOK
  <1>6. ASSUME NEW k \in Kinds, NEW n \in Counts, CpuCountChanges(k, n) PROVE HostTypeOK'
    <2>1. cpus' \in [Kinds -> Counts] /\ seen' \in [Kinds -> [Counts -> Times \cup {Never}]]
      BY <1>6 DEF CpuCountChanges, HostTypeOK
    <2> QED
      BY <1>6, <2>1 DEF CpuCountChanges, HostTypeOK
  <1>7. CASE UNCHANGED hostVars
    BY <1>7 DEF hostVars, HostTypeOK
  <1> QED
    BY <1>1, <1>2, <1>3, <1>4, <1>5, <1>6, <1>7 DEF HostNext, AnswerFromCache, AskSystem

\* No call asks, is told or leaves in the cache what is not a number of cpus or a time (host_info.cxx).
LEMMA HostIsTyped == ASSUME HostInfoAssumption PROVE HostSpec => []HostTypeOK
  BY HostTypedInit, HostTypedNext, PTL DEF HostSpec

----------------------------------------------------------------------------
(* Finite sets of numbers.                                                 *)

\* A set of natural numbers has a least element.
LEMMA HasLeast ==
    ASSUME NEW S \in SUBSET Nat, S # {} PROVE \E x \in S : \A y \in S : x <= y
  <1>1. IsWellFoundedOn({ss \in Nat \X Nat : ss[1] < ss[2]}, Nat)
    BY NatLessThanWellFounded, Zenon DEF OpToRel
  <1>2. PICK R : R = {ss \in Nat \X Nat : ss[1] < ss[2]} /\ IsWellFoundedOn(R, Nat)
    BY <1>1
  <1>3. \E x \in S : \A y \in S : <<y, x>> \notin R
    BY <1>2, WFMin, ZenonT(20)
  <1>4. \A x \in Nat : \A y \in Nat : y < x => <<y, x>> \in R
    BY <1>2
  <1>5. PICK x \in S : \A y \in S : <<y, x>> \notin R
    BY <1>3
  <1>6. ASSUME NEW y \in S PROVE x <= y
    <2>1. x \in Nat /\ y \in Nat
      OBVIOUS
    <2>2. ~(y < x)
      BY <1>4, <1>5, <2>1
    <2> QED
      BY <2>1, <2>2
  <1> QED
    BY <1>6

\* How many cpus of a mask come before a cpu.
Before(S, c) == {x \in S : x < c}

LEMMA RankIsNat ==
    ASSUME NEW S \in SUBSET Nat, IsFiniteSet(S), NEW c
    PROVE  Cardinality(Before(S, c)) \in Nat /\ IsFiniteSet(Before(S, c))
  <1>1. Before(S, c) \subseteq S
    BY DEF Before
  <1> QED
    BY <1>1, FS_Subset, FS_CardinalityType

\* No two cpus of the mask have as many before them.
LEMMA RankIsUnique ==
    ASSUME NEW S \in SUBSET Nat, IsFiniteSet(S), NEW c \in S, NEW d \in S,
           Cardinality(Before(S, c)) = Cardinality(Before(S, d))
    PROVE  c = d
  <1>1. ASSUME NEW a \in S, NEW b \in S, a < b
        PROVE  Cardinality(Before(S, a)) < Cardinality(Before(S, b))
    <2>1. Before(S, a) \subseteq Before(S, b)
      <3>1. \A x \in S : x < a => x < b
        BY <1>1
      <3> QED
        BY <3>1 DEF Before
    <2>2. a \in Before(S, b) /\ a \notin Before(S, a)
      <3>1. a \in Nat /\ ~(a < a)
        OBVIOUS
      <3> QED
        BY <1>1, <3>1 DEF Before
    <2>3. Cardinality(Before(S, a)) <= Cardinality(Before(S, b))
      BY <2>1, RankIsNat, FS_Subset
    <2>4. Cardinality(Before(S, a)) # Cardinality(Before(S, b))
      BY <2>1, <2>2, RankIsNat, FS_Subset
    <2> QED
      BY <2>3, <2>4, RankIsNat
  <1>2. Cardinality(Before(S, c)) \in Nat
    BY RankIsNat
  <1>3. ~(c < d) /\ ~(d < c)
    BY <1>1, <1>2
  <1> QED
    BY <1>3

\* There is one with just so many before it, for every number less than there are cpus.
LEMMA RankExists ==
    ASSUME NEW S \in SUBSET Nat, IsFiniteSet(S), NEW n \in Nat, n < Cardinality(S)
    PROVE  \E c \in S : Cardinality(Before(S, c)) = n
  <1> DEFINE Missing == {i \in Nat : i < Cardinality(S) /\ \A c \in S : Cardinality(Before(S, c)) # i}
  <1> SUFFICES ASSUME Missing # {} PROVE FALSE
    OBVIOUS
  <1>1. PICK i \in Missing : \A j \in Missing : i <= j
    <2>1. Missing \in SUBSET Nat
      OBVIOUS
    <2> HIDE DEF Missing
    <2> QED
      BY <2>1, HasLeast
  <1>2. i \in Nat /\ i < Cardinality(S) /\ \A c \in S : Cardinality(Before(S, c)) # i
    OBVIOUS
  <1>3. Cardinality(S) \in Nat
    BY FS_CardinalityType
  <1>4. ASSUME NEW B \in SUBSET S, Cardinality(B) = i, \A b \in B : \A x \in S \ B : b < x
        PROVE  FALSE
    <2>1. S \ B # {}
      <3>1. B # S
        BY <1>2, <1>3, <1>4
      <3> QED
        BY <3>1
    <2>2. S \ B \in SUBSET Nat
      OBVIOUS
    <2>3. PICK d \in S \ B : \A y \in S \ B : d <= y
      BY <2>1, <2>2, HasLeast
    <2>4. Before(S, d) = B
      <3>1. d \in Nat
        OBVIOUS
      <3>2. ASSUME NEW x \in S PROVE x < d <=> x \in B
        <4>1. x \in Nat
          OBVIOUS
        <4>2. x \notin B => d <= x
          BY <2>3
        <4>3. x \in B => x < d
          BY <1>4
        <4> QED
          BY <3>1, <4>1, <4>2, <4>3
      <3> QED
        BY <3>2 DEF Before
    <2> QED
      BY <1>2, <1>4, <2>3, <2>4
  <1>5. CASE i = 0
    BY <1>4, <1>5, FS_EmptySet
  <1>6. CASE i # 0
    <2>1. i - 1 \in Nat /\ i - 1 < Cardinality(S) /\ ~(i <= i - 1)
      BY <1>2, <1>3, <1>6
    <2>2. i - 1 \notin Missing
      BY <1>1, <2>1
    <2>3. PICK c \in S : Cardinality(Before(S, c)) = i - 1
      BY <2>1, <2>2
    <2>4. c \notin Before(S, c)
      BY DEF Before
    <2>5. Cardinality(Before(S, c) \cup {c}) = i
      <3>1. IsFiniteSet(Before(S, c))
        BY RankIsNat
      <3>2. Cardinality(Before(S, c) \cup {c}) = Cardinality(Before(S, c)) + 1
        BY <2>4, <3>1, FS_AddElement
      <3> QED
        BY <1>2, <2>3, <3>2
    <2>6. Before(S, c) \cup {c} \in SUBSET S
      BY DEF Before
    <2>7. \A b \in Before(S, c) \cup {c} : \A x \in S \ (Before(S, c) \cup {c}) : b < x
      BY DEF Before
    <2> QED
      BY <1>4, <2>5, <2>6, <2>7
  <1> QED
    BY <1>5, <1>6

----------------------------------------------------------------------------
(* Affinity.                                                               *)

\* What remains of a number is no more than the number.
LEMMA RemainderIsNoMore ==
    ASSUME NEW n \in Nat \ {0}, NEW i \in Nat PROVE i % n \in 0..i
  <1>1. CASE i < n
    BY <1>1, ModWithin
  <1>2. CASE n <= i
    BY <1>2, DivMod
  <1> QED
    BY <1>1, <1>2

\* The reduced index and the place that it has led to belong to each other, whatever has come or gone.
BoundWell(t) ==
    boundBy[t] # Anywhere =>
        /\ posix => place[t] = boundBy[t].index
        /\ ~posix => /\ place[t] \in boundBy[t].among
                     /\ Cardinality(Before(boundBy[t].among, place[t])) = boundBy[t].index

\* The cpu chosen is the one of that rank among those that the call goes by.
ChosenWell(t) ==
    at[t].step = "chosen" =>
        /\ at[t].cpu \in at[t].among
        /\ Cardinality(Before(at[t].among, at[t].cpu)) = at[t].index

\* A call whose cpus are all still there does not throw, and leaves the thread on one that is there.
CallGoesWell(t) ==
    /\ at[t].step = "counted" => at[t].index < Cardinality(at[t].among)
    /\ ~gone[t] =>
        /\ at[t].among \subseteq available
        /\ at[t].step # "threw"
        /\ at[t].step = "returned" =>
              /\ posix /\ at[t].among = 0 .. (Cardinality(at[t].among) - 1) => place[t] \in available
              /\ ~posix => place[at[t].subject] \in available

AffinityWell == \A t \in Callers : BoundWell(t) /\ ChosenWell(t) /\ CallGoesWell(t)

CallsTyped ==
    [step : {"out", "counted", "chosen", "returned", "threw"}, subject : Callers,
     index : 0 .. MostIndex, cpu : Cpus \cup {0}, among : Masks]

Bindings == [index : 0 .. MostIndex, among : Masks]

LEMMA AffinityTypedInit == ASSUME AffinityAssumption, AffinityInit PROVE AffinityTypeOK
  <1>1. 0 \in 0 .. MostIndex
    BY DEF AffinityAssumption
  <1>2. at \in [Callers -> CallsTyped]
    BY <1>1 DEF AffinityInit, CallsTyped
  <1> QED
    BY <1>2 DEF AffinityInit, AffinityTypeOK, CallsTyped

\* What is counted is a set of cpus that the process may have, so there are some.
LEMMA CountedIsPositive ==
    ASSUME AffinityAssumption, NEW mask \in Masks
    PROVE  Cardinality(mask) \in Nat \ {0} /\ mask \subseteq Nat /\ IsFiniteSet(mask)
  <1>1. mask \subseteq Nat /\ mask # {} /\ IsFiniteSet(mask)
    BY DEF AffinityAssumption
  <1> QED
    BY <1>1, FS_CardinalityType, FS_EmptySet

\* The index is taken modulo the number of cpus, which makes it no larger.
LEMMA ReducedIsLess ==
    ASSUME AffinityAssumption, AffinityTypeOK, NEW wanted \in 0 .. MostIndex
    PROVE  Reduced(wanted) \in 0 .. MostIndex /\ Reduced(wanted) < Told
  <1>1. Counted \in Masks
    BY DEF AffinityTypeOK, Counted
  <1>2. PICK n \in Nat \ {0} : n = Told
    BY <1>1, CountedIsPositive DEF Told
  <1>3. wanted \in Nat /\ wanted <= MostIndex /\ MostIndex \in Nat
    BY DEF AffinityAssumption
  <1>4. wanted % n \in 0 .. (n - 1)
    BY <1>3
  <1>5. wanted % n \in 0 .. wanted
    BY <1>3, RemainderIsNoMore
  <1> QED
    BY <1>2, <1>3, <1>4, <1>5 DEF Reduced

LEMMA FinishIsTyped ==
    ASSUME AffinityAssumption, at \in [Callers -> CallsTyped], NEW t \in Callers,
           NEW step \in {"returned", "threw"}, Finishes(t, step)
    PROVE  /\ at' \in [Callers -> CallsTyped]
           /\ at'[t].step = step /\ at'[t].subject = at[t].subject /\ at'[t].among = at[t].among
           /\ \A u \in Callers \ {t} : at'[u] = at[u]
  <1>1. 0 \in 0 .. MostIndex /\ at[t].subject \in Callers /\ at[t].among \in Masks
    BY DEF AffinityAssumption, CallsTyped
  <1>2. PICK end : end = [step |-> step, subject |-> at[t].subject, index |-> 0,
                          cpu |-> 0, among |-> at[t].among]
    OBVIOUS
  <1>3. end \in CallsTyped /\ end.step = step /\ end.subject = at[t].subject /\ end.among = at[t].among
    BY <1>1, <1>2 DEF CallsTyped
  <1>4. at' = [at EXCEPT ![t] = end]
    BY <1>2 DEF Finishes
  <1> QED
    BY <1>3, <1>4

LEMMA BindingIsTyped ==
    ASSUME AffinityTypeOK, NEW t \in Callers, NEW u \in Callers, NEW cpu \in Cpus, Binds(t, u, cpu)
    PROVE  /\ place' \in [Callers -> Cpus \cup {Anywhere}]
           /\ boundBy' \in [Callers -> Bindings \cup {Anywhere}]
           /\ place'[u] = cpu
           /\ boundBy'[u].index = at[t].index /\ boundBy'[u].among = at[t].among
           /\ \A s \in Callers \ {u} : place'[s] = place[s] /\ boundBy'[s] = boundBy[s]
  <1>1. at[t].index \in 0 .. MostIndex /\ at[t].among \in Masks
    BY DEF AffinityTypeOK
  <1>2. PICK binding : binding = [index |-> at[t].index, among |-> at[t].among]
    OBVIOUS
  <1>3. binding \in Bindings /\ binding.index = at[t].index /\ binding.among = at[t].among
    BY <1>1, <1>2 DEF Bindings
  <1>4. boundBy \in [Callers -> Bindings \cup {Anywhere}] /\ place \in [Callers -> Cpus \cup {Anywhere}]
    BY DEF AffinityTypeOK, Bindings
  <1>5. boundBy' = [boundBy EXCEPT ![u] = binding] /\ place' = [place EXCEPT ![u] = cpu]
    BY <1>2 DEF Binds
  <1> QED
    BY <1>3, <1>4, <1>5

\* What the choice of a cpu does to the call.
LEMMA ChoiceIsTyped ==
    ASSUME AffinityTypeOK, NEW t \in Callers, NEW cpu \in available,
           at' = [at EXCEPT ![t].step = "chosen", ![t].cpu = cpu, ![t].among = available]
    PROVE  /\ at' \in [Callers -> CallsTyped]
           /\ at'[t].step = "chosen" /\ at'[t].cpu = cpu /\ at'[t].among = available
           /\ at'[t].index = at[t].index
           /\ \A u \in Callers \ {t} : at'[u] = at[u]
  <1>1. at \in [Callers -> CallsTyped] /\ available \in Masks /\ cpu \in Cpus
    BY DEF AffinityTypeOK, CallsTyped, Cpus
  <1>2. PICK old \in CallsTyped : old = at[t]
    BY <1>1
  <1>3. PICK new : new = [old EXCEPT !.step = "chosen", !.cpu = cpu, !.among = available]
    OBVIOUS
  <1>4. new \in CallsTyped /\ new.step = "chosen" /\ new.cpu = cpu /\ new.among = available
        /\ new.index = old.index
    BY <1>1, <1>3 DEF CallsTyped
  <1>5. at' = [at EXCEPT ![t] = new]
    BY <1>1, <1>2, <1>3
  <1> QED
    BY <1>1, <1>2, <1>4, <1>5

\* What the count of the cpus does to the call.
LEMMA CountIsTyped ==
    ASSUME AffinityAssumption, AffinityTypeOK, NEW t \in Callers, NEW s \in Callers,
           NEW wanted \in 0 .. MostIndex, CountsCpus(t, s, wanted)
    PROVE  /\ at' \in [Callers -> CallsTyped] /\ gone' \in [Callers -> BOOLEAN]
           /\ at'[t].step = "counted" /\ at'[t].among = Counted /\ at'[t].index = Reduced(wanted)
           /\ gone'[t] = ~(Counted \subseteq available)
           /\ \A u \in Callers \ {t} : at'[u] = at[u] /\ gone'[u] = gone[u]
  <1>1. PICK i \in 0 .. MostIndex : i = Reduced(wanted)
    BY ReducedIsLess
  <1>2. Counted \in Masks /\ at \in [Callers -> CallsTyped] /\ gone \in [Callers -> BOOLEAN]
    BY DEF AffinityTypeOK, Counted, CallsTyped
  <1>3. PICK new : new = [step |-> "counted", subject |-> s, index |-> i, cpu |-> 0, among |-> Counted]
    OBVIOUS
  <1>4. new \in CallsTyped /\ new.step = "counted" /\ new.among = Counted /\ new.index = i
    BY <1>2, <1>3 DEF CallsTyped
  <1>5. at' = [at EXCEPT ![t] = new]
    BY <1>1, <1>3 DEF CountsCpus
  <1>6. gone' = [gone EXCEPT ![t] = ~(Counted \subseteq available)]
    BY DEF CountsCpus
  <1>7. \A u \in Callers \ {t} : at'[u] = at[u] /\ gone'[u] = gone[u]
    BY <1>2, <1>5, <1>6
  <1> QED
    BY <1>1, <1>2, <1>4, <1>5, <1>6, <1>7

LEMMA AffinityTypedNext ==
    ASSUME AffinityAssumption, AffinityTypeOK, [AffinityNext]_affinityVars PROVE AffinityTypeOK'
  <1>0. at \in [Callers -> CallsTyped]
    BY DEF AffinityTypeOK, CallsTyped
  <1>1. CASE UNCHANGED affinityVars
    BY <1>1 DEF affinityVars, AffinityTypeOK
  <1>2. CASE AffinityNext /\ CpusChange
    BY <1>2 DEF AffinityNext, CpusChange, AffinityTypeOK
  <1>3. CASE AffinityNext /\ CacheRenewed
    BY <1>3 DEF AffinityNext, CacheRenewed, AffinityTypeOK
  <1>4. ASSUME NEW t \in Callers, NEW u \in Callers, NEW wanted \in 0 .. MostIndex,
               CountsCpus(t, u, wanted), UNCHANGED posix
        PROVE  AffinityTypeOK'
    BY <1>4, CountIsTyped DEF CountsCpus, AffinityTypeOK, CallsTyped
  <1>5. ASSUME NEW t \in Callers, SetsOwn(t), UNCHANGED posix PROVE AffinityTypeOK'
    <2>1. at' \in [Callers -> CallsTyped]
      BY <1>0, <1>5, FinishIsTyped DEF SetsOwn
    <2>2. CASE at[t].index \in available
      <3>1. at[t].index \in Cpus /\ Binds(t, t, at[t].index)
        BY <1>5, <2>2 DEF SetsOwn, AffinityTypeOK, Cpus
      <3> QED
        BY <1>5, <2>1, <3>1, BindingIsTyped DEF SetsOwn, AffinityTypeOK, CallsTyped, Bindings
    <2>3. CASE at[t].index \notin available
      BY <1>5, <2>1, <2>3 DEF SetsOwn, AffinityTypeOK, CallsTyped
    <2> QED
      BY <2>2, <2>3
  <1>6. ASSUME NEW t \in Callers, Chooses(t), UNCHANGED posix PROVE AffinityTypeOK'
    <2>1. at' \in [Callers -> CallsTyped]
      BY <1>6, ChoiceIsTyped DEF Chooses
    <2> QED
      BY <1>6, <2>1 DEF Chooses, AffinityTypeOK, CallsTyped
  <1>7. ASSUME NEW t \in Callers, FindsNone(t), UNCHANGED posix PROVE AffinityTypeOK'
    <2>1. at' \in [Callers -> CallsTyped]
      BY <1>0, <1>7, FinishIsTyped DEF FindsNone
    <2> QED
      BY <1>7, <2>1 DEF FindsNone, AffinityTypeOK, CallsTyped
  <1>8. ASSUME NEW t \in Callers, SetsMask(t), UNCHANGED posix PROVE AffinityTypeOK'
    <2>1. at' \in [Callers -> CallsTyped]
      BY <1>0, <1>8, FinishIsTyped DEF SetsMask
    <2>2. CASE at[t].cpu \in available
      <3>1. at[t].cpu \in Cpus /\ at[t].subject \in Callers
        BY <2>2 DEF AffinityTypeOK, Cpus
      <3>2. Binds(t, at[t].subject, at[t].cpu)
        BY <1>8, <2>2 DEF SetsMask
      <3> QED
        BY <1>8, <2>1, <3>1, <3>2, BindingIsTyped DEF SetsMask, AffinityTypeOK, CallsTyped, Bindings
    <2>3. CASE at[t].cpu \notin available
      BY <1>8, <2>1, <2>3 DEF SetsMask, AffinityTypeOK, CallsTyped
    <2> QED
      BY <2>2, <2>3
  <1> QED
    BY <1>1, <1>2, <1>3, <1>4, <1>5, <1>6, <1>7, <1>8 DEF AffinityNext

\* The cpus that threads are bound to are cpus, and the indexes that bind them are not beyond those
\* given, whatever cpus come and go (thread.cxx:792-852).
LEMMA AffinityIsTyped == ASSUME AffinityAssumption PROVE AffinitySpec => []AffinityTypeOK
  BY AffinityTypedInit, AffinityTypedNext, PTL DEF AffinitySpec

LEMMA AffinityWellInit == ASSUME AffinityAssumption, AffinityInit PROVE AffinityWell
  <1>1. \A t \in Callers : boundBy[t] = Anywhere /\ at[t].step = "out" /\ at[t].among = available
    BY DEF AffinityInit
  <1> QED
    BY <1>1 DEF AffinityWell, BoundWell, ChosenWell, CallGoesWell

\* A cpu that goes is noted for every call that may have counted it.
LEMMA CpusChangeKeeps ==
    ASSUME AffinityTypeOK, AffinityWell, CpusChange, UNCHANGED posix PROVE AffinityWell'
  <1>1. UNCHANGED <<posix, place, boundBy, at>>
    BY DEF CpusChange
  <1>2. \A t \in Callers : ~gone'[t] => ~gone[t] /\ available \subseteq available'
    BY DEF CpusChange
  <1> QED
    BY <1>1, <1>2 DEF AffinityWell, BoundWell, ChosenWell, CallGoesWell

LEMMA CountsCpusKeeps ==
    ASSUME AffinityAssumption, AffinityTypeOK, AffinityWell, NEW t \in Callers, NEW s \in Callers,
           NEW wanted \in 0 .. MostIndex, CountsCpus(t, s, wanted), UNCHANGED posix
    PROVE  AffinityWell'
  <1>1. UNCHANGED <<posix, available, place, boundBy>>
    BY DEF CountsCpus
  <1>2. /\ at'[t].step = "counted" /\ at'[t].among = Counted /\ at'[t].index < Cardinality(Counted)
        /\ ~gone'[t] => Counted \subseteq available
        /\ \A u \in Callers \ {t} : at'[u] = at[u] /\ gone'[u] = gone[u]
    BY CountIsTyped, ReducedIsLess DEF Told
  <1>3. ASSUME NEW u \in Callers PROVE BoundWell(u)' /\ ChosenWell(u)' /\ CallGoesWell(u)'
    <2>1. BoundWell(u) /\ ChosenWell(u) /\ CallGoesWell(u)
      BY DEF AffinityWell
    <2>2. CASE u = t
      BY <1>1, <1>2, <2>1, <2>2 DEF BoundWell, ChosenWell, CallGoesWell
    <2>3. CASE u # t
      <3>1. at'[u] = at[u] /\ gone'[u] = gone[u]
        BY <1>2, <2>3
      <3> QED
        BY <1>1, <2>1, <3>1 DEF BoundWell, ChosenWell, CallGoesWell
    <2> QED
      BY <2>2, <2>3
  <1> QED
    BY <1>3 DEF AffinityWell

\* The end of a call, which has left the thread s on the cpu that it says, or anywhere it was.
LEMMA FinishKeeps ==
    ASSUME AffinityAssumption, AffinityTypeOK, AffinityWell, NEW t \in Callers,
           NEW step \in {"returned", "threw"}, Finishes(t, step),
           UNCHANGED <<posix, available, gone>>,
           \A u \in Callers : BoundWell(u)',
           \A u \in Callers : place'[u] = place[u] \/ place'[u] \in available,
           ~gone[t] =>
               /\ step = "returned"
               /\ posix /\ at[t].among = 0 .. (Cardinality(at[t].among) - 1) => place'[t] \in available
               /\ ~posix => place'[at[t].subject] \in available
    PROVE  AffinityWell'
  <1>0. at \in [Callers -> CallsTyped]
    BY DEF AffinityTypeOK, CallsTyped
  <1>1. /\ at'[t].step = step /\ at'[t].subject = at[t].subject /\ at'[t].among = at[t].among
        /\ \A u \in Callers \ {t} : at'[u] = at[u]
    BY <1>0, FinishIsTyped
  <1>2. ASSUME NEW u \in Callers PROVE ChosenWell(u)' /\ CallGoesWell(u)'
    <2>1. ChosenWell(u) /\ CallGoesWell(u)
      BY DEF AffinityWell
    <2>2. CASE u = t
      BY <1>1, <2>1, <2>2 DEF ChosenWell, CallGoesWell
    <2>3. CASE u # t
      <3>1. at'[u] = at[u] /\ at[u].subject \in Callers
        BY <1>0, <1>1, <2>3 DEF CallsTyped
      <3> QED
        BY <2>1, <3>1 DEF ChosenWell, CallGoesWell
    <2> QED
      BY <2>2, <2>3
  <1> QED
    BY <1>2 DEF AffinityWell

\* sched_setaffinity, of the calling thread.
LEMMA SetsOwnKeeps ==
    ASSUME AffinityAssumption, AffinityTypeOK, AffinityWell, NEW t \in Callers, SetsOwn(t), UNCHANGED posix
    PROVE  AffinityWell'
  <1>1. posix /\ at[t].step = "counted" /\ Finishes(t, "returned") /\ UNCHANGED <<posix, available, gone>>
    BY DEF SetsOwn
  <1>2. PICK i \in Nat : i = at[t].index
    BY DEF AffinityTypeOK, AffinityAssumption
  <1>3. CASE i \in available
    <2>1. i \in Cpus /\ Binds(t, t, i)
      BY <1>2, <1>3 DEF SetsOwn, AffinityTypeOK, Cpus
    <2>2. /\ place'[t] = i /\ boundBy'[t].index = i
          /\ \A s \in Callers \ {t} : place'[s] = place[s] /\ boundBy'[s] = boundBy[s]
      BY <1>2, <2>1, BindingIsTyped
    <2>3. ASSUME NEW u \in Callers PROVE BoundWell(u)'
      <3>1. CASE u = t
        BY <1>1, <2>2, <3>1 DEF BoundWell
      <3>2. CASE u # t
        <4>1. place'[u] = place[u] /\ boundBy'[u] = boundBy[u] /\ BoundWell(u)
          BY <2>2, <3>2 DEF AffinityWell
        <4> QED
          BY <1>1, <4>1 DEF BoundWell
      <3> QED
        BY <3>1, <3>2
    <2>4. \A u \in Callers : place'[u] = place[u] \/ place'[u] \in available
      BY <1>3, <2>2
    <2> QED
      BY <1>1, <1>3, <2>2, <2>3, <2>4, FinishKeeps
  <1>4. CASE i \notin available
    <2>1. UNCHANGED <<place, boundBy>>
      BY <1>2, <1>4 DEF SetsOwn
    <2>2. \A u \in Callers : BoundWell(u)'
      BY <1>1, <2>1 DEF AffinityWell, BoundWell
    <2>3. ~gone[t] => at[t].among # 0 .. (Cardinality(at[t].among) - 1)
      <3> SUFFICES ASSUME ~gone[t] PROVE at[t].among # 0 .. (Cardinality(at[t].among) - 1)
        OBVIOUS
      <3>1. i < Cardinality(at[t].among) /\ at[t].among \subseteq available
        BY <1>1, <1>2 DEF AffinityWell, CallGoesWell
      <3>2. PICK n \in Nat : n = Cardinality(at[t].among)
        BY CountedIsPositive DEF AffinityTypeOK
      <3>3. i \in 0 .. (n - 1)
        BY <3>1, <3>2
      <3> QED
        BY <1>4, <3>1, <3>2, <3>3
    <2> QED
      BY <1>1, <2>1, <2>2, <2>3, FinishKeeps
  <1> QED
    BY <1>3, <1>4

\* The choice of a cpu: from here on the call goes by the mask that it has read.
LEMMA ChoosesKeeps ==
    ASSUME AffinityTypeOK, AffinityWell, NEW t \in Callers, Chooses(t), UNCHANGED posix PROVE AffinityWell'
  <1>1. PICK cpu \in available :
            StopsAt(t, cpu)
            /\ at' = [at EXCEPT ![t].step = "chosen", ![t].cpu = cpu, ![t].among = available]
    BY DEF Chooses
  <1>2. UNCHANGED <<posix, available, place, boundBy, gone>> /\ at[t].step = "counted"
    BY DEF Chooses
  <1>3. Cardinality(Before(available, cpu)) = at[t].index
    BY <1>1 DEF StopsAt, Before
  <1>4. /\ at'[t].step = "chosen" /\ at'[t].cpu = cpu /\ at'[t].among = available
        /\ at'[t].index = at[t].index
        /\ \A u \in Callers \ {t} : at'[u] = at[u]
    BY <1>1, ChoiceIsTyped
  <1>5. ASSUME NEW u \in Callers PROVE BoundWell(u)' /\ ChosenWell(u)' /\ CallGoesWell(u)'
    <2>1. BoundWell(u) /\ ChosenWell(u) /\ CallGoesWell(u)
      BY DEF AffinityWell
    <2>2. BoundWell(u)'
      BY <1>2, <2>1 DEF BoundWell
    <2>3. CASE u = t
      <3>1. ChosenWell(t)'
        BY <1>3, <1>4 DEF ChosenWell
      <3>2. CallGoesWell(t)'
        BY <1>2, <1>4 DEF CallGoesWell
      <3> QED
        BY <2>2, <2>3, <3>1, <3>2
    <2>4. CASE u # t
      <3>1. at'[u] = at[u]
        BY <1>4, <2>4
      <3> QED
        BY <1>2, <2>1, <2>2, <3>1 DEF ChosenWell, CallGoesWell
    <2> QED
      BY <2>3, <2>4
  <1> QED
    BY <1>5 DEF AffinityWell

\* The loop over the mask finds no cpu only if cpus went since they were counted.
LEMMA FindsNoneKeeps ==
    ASSUME AffinityAssumption, AffinityTypeOK, AffinityWell, NEW t \in Callers, FindsNone(t), UNCHANGED posix
    PROVE  AffinityWell'
  <1>1. /\ ~posix /\ at[t].step = "counted" /\ Finishes(t, "threw")
        /\ UNCHANGED <<posix, available, place, boundBy, gone>>
        /\ ~\E cpu \in available : StopsAt(t, cpu)
    BY DEF FindsNone
  <1>2. PICK i \in Nat : i = at[t].index
    BY DEF AffinityTypeOK, AffinityAssumption
  <1>3. gone[t]
    <2> SUFFICES ASSUME ~gone[t] PROVE FALSE
      OBVIOUS
    <2>1. i < Cardinality(at[t].among) /\ at[t].among \subseteq available
      BY <1>1, <1>2 DEF AffinityWell, CallGoesWell
    <2>2. available \subseteq Nat /\ IsFiniteSet(available)
      BY CountedIsPositive DEF AffinityTypeOK
    <2>3. Cardinality(at[t].among) <= Cardinality(available)
      BY <2>1, <2>2, FS_Subset
    <2>4. Cardinality(at[t].among) \in Nat /\ Cardinality(available) \in Nat
      BY CountedIsPositive DEF AffinityTypeOK
    <2>5. i < Cardinality(available)
      BY <2>1, <2>3, <2>4
    <2>6. PICK cpu \in available : Cardinality(Before(available, cpu)) = i
      BY <2>2, <2>5, RankExists
    <2>7. StopsAt(t, cpu)
      BY <1>2, <2>6 DEF StopsAt, Before
    <2> QED
      BY <1>1, <2>7
  <1>4. \A u \in Callers : BoundWell(u)'
    BY <1>1 DEF AffinityWell, BoundWell
  <1> QED
    BY <1>1, <1>3, <1>4, FinishKeeps

\* SetThreadAffinityMask
LEMMA SetsMaskKeeps ==
    ASSUME AffinityAssumption, AffinityTypeOK, AffinityWell, NEW t \in Callers, SetsMask(t), UNCHANGED posix
    PROVE  AffinityWell'
  <1>1. ~posix /\ at[t].step = "chosen" /\ UNCHANGED <<posix, available, gone>>
    BY DEF SetsMask
  <1>2. PICK cpu : cpu = at[t].cpu
    OBVIOUS
  <1>3. PICK s \in Callers : s = at[t].subject
    BY DEF AffinityTypeOK
  <1>4. /\ cpu \in at[t].among /\ Cardinality(Before(at[t].among, cpu)) = at[t].index
        /\ ~gone[t] => cpu \in available
    BY <1>1, <1>2 DEF AffinityWell, ChosenWell, CallGoesWell
  <1>5. CASE cpu \in available
    <2>1. Finishes(t, "returned") /\ Binds(t, s, cpu) /\ cpu \in Cpus
      BY <1>2, <1>3, <1>5 DEF SetsMask, AffinityTypeOK, Cpus
    <2>2. /\ place'[s] = cpu /\ boundBy'[s].index = at[t].index /\ boundBy'[s].among = at[t].among
          /\ \A u \in Callers \ {s} : place'[u] = place[u] /\ boundBy'[u] = boundBy[u]
      BY <2>1, BindingIsTyped
    <2>3. ASSUME NEW u \in Callers PROVE BoundWell(u)'
      <3>1. CASE u = s
        BY <1>1, <1>4, <2>2, <3>1 DEF BoundWell
      <3>2. CASE u # s
        <4>1. place'[u] = place[u] /\ boundBy'[u] = boundBy[u] /\ BoundWell(u)
          BY <2>2, <3>2 DEF AffinityWell
        <4> QED
          BY <1>1, <4>1 DEF BoundWell
      <3> QED
        BY <3>1, <3>2
    <2>4. \A u \in Callers : place'[u] = place[u] \/ place'[u] \in available
      BY <1>5, <2>2
    <2>5. place'[at[t].subject] \in available
      BY <1>3, <1>5, <2>2
    <2> QED
      BY <1>1, <2>1, <2>3, <2>4, <2>5, FinishKeeps
  <1>6. CASE cpu \notin available
    <2>1. Finishes(t, "threw") /\ UNCHANGED <<place, boundBy>>
      BY <1>2, <1>6 DEF SetsMask
    <2>2. \A u \in Callers : BoundWell(u)'
      BY <1>1, <2>1 DEF AffinityWell, BoundWell
    <2> QED
      BY <1>1, <1>4, <1>6, <2>1, <2>2, FinishKeeps
  <1> QED
    BY <1>5, <1>6

LEMMA AffinityWellNext ==
    ASSUME AffinityAssumption, AffinityTypeOK, AffinityWell, [AffinityNext]_affinityVars PROVE AffinityWell'
  <1>1. CASE UNCHANGED affinityVars
    BY <1>1 DEF affinityVars, AffinityWell, BoundWell, ChosenWell, CallGoesWell
  <1>2. CASE AffinityNext
    <2>1. UNCHANGED posix
      BY <1>2 DEF AffinityNext
    <2>2. CASE CpusChange
      BY <2>1, <2>2, CpusChangeKeeps
    <2>3. CASE CacheRenewed
      <3>1. UNCHANGED <<posix, available, place, boundBy, at, gone>>
        BY <2>1, <2>3 DEF CacheRenewed
      <3> QED
        BY <3>1 DEF AffinityWell, BoundWell, ChosenWell, CallGoesWell
    <2>4. ASSUME NEW t \in Callers, NEW s \in Callers, NEW wanted \in 0 .. MostIndex, CountsCpus(t, s, wanted)
          PROVE  AffinityWell'
      BY <2>1, <2>4, CountsCpusKeeps
    <2>5. ASSUME NEW t \in Callers, SetsOwn(t) \/ Chooses(t) \/ FindsNone(t) \/ SetsMask(t)
          PROVE  AffinityWell'
      BY <2>1, <2>5, SetsOwnKeeps, ChoosesKeeps, FindsNoneKeeps, SetsMaskKeeps
    <2> QED
      BY <1>2, <2>2, <2>3, <2>4, <2>5 DEF AffinityNext
  <1> QED
    BY <1>1, <1>2

LEMMA AffinityWellHolds == ASSUME AffinityAssumption PROVE AffinitySpec => [](AffinityTypeOK /\ AffinityWell)
  <1>1. AffinityInit => AffinityTypeOK /\ AffinityWell
    BY AffinityTypedInit, AffinityWellInit
  <1>2. AffinityTypeOK /\ AffinityWell /\ [AffinityNext]_affinityVars => (AffinityTypeOK /\ AffinityWell)'
    BY AffinityTypedNext, AffinityWellNext
  <1> QED
    BY <1>1, <1>2, PTL DEF AffinitySpec

\* Threads bound among the same cpus are on different ones if their indexes differ modulo the number
\* counted, and on the same if not, whatever cpus come and go between the count, the choice and the
\* setting of the mask (thread.cxx:792-852).
THEOREM AffinitySpreadsOut == ASSUME AffinityAssumption PROVE AffinitySpec => []SpreadsOut
  <1>1. AffinityTypeOK /\ AffinityWell => SpreadsOut
    <2> SUFFICES ASSUME AffinityTypeOK, AffinityWell, NEW t \in Callers, NEW u \in Callers,
                        boundBy[t] # Anywhere, boundBy[u] # Anywhere,
                        boundBy[t].among = boundBy[u].among
                 PROVE  place[t] = place[u] <=> boundBy[t].index = boundBy[u].index
      BY DEF SpreadsOut
    <2>1. BoundWell(t) /\ BoundWell(u)
      BY DEF AffinityWell
    <2>2. CASE posix
      BY <2>1, <2>2 DEF BoundWell
    <2>3. CASE ~posix
      <3>1. PICK mask \in Masks : mask = boundBy[t].among
        BY DEF AffinityTypeOK
      <3>2. /\ place[t] \in mask /\ Cardinality(Before(mask, place[t])) = boundBy[t].index
            /\ place[u] \in mask /\ Cardinality(Before(mask, place[u])) = boundBy[u].index
        BY <2>1, <2>3, <3>1 DEF BoundWell
      <3>3. mask \in SUBSET Nat /\ IsFiniteSet(mask)
        BY CountedIsPositive
      <3>4. PICK c \in mask, d \in mask : c = place[t] /\ d = place[u]
        BY <3>2
      <3>5. boundBy[t].index = boundBy[u].index => c = d
        <4> SUFFICES ASSUME boundBy[t].index = boundBy[u].index PROVE c = d
          OBVIOUS
        <4>1. Cardinality(Before(mask, c)) = Cardinality(Before(mask, d))
          BY <3>2, <3>4
        <4> QED
          BY <3>3, <4>1, RankIsUnique
      <3> QED
        BY <3>2, <3>4, <3>5
    <2> QED
      BY <2>2, <2>3
  <1> QED
    BY <1>1, AffinityWellHolds, PTL

\* A call binds with any index, "so it can be any value" (thread.hxx:154-155), as long as no cpu that
\* it may have counted goes away; cpus that come do no harm.
THEOREM AffinityAnyIndexBinds == ASSUME AffinityAssumption PROVE AffinitySpec => []AnyIndexBinds
  <1>1. AffinityWell => AnyIndexBinds
    <2> SUFFICES ASSUME AffinityWell, NEW t \in Callers, at[t].step \in {"returned", "threw"}, ~gone[t],
                        posix => at[t].among = 0 .. (Cardinality(at[t].among) - 1)
                 PROVE  at[t].step = "returned" /\ place[IF posix THEN t ELSE at[t].subject] \in available
      BY DEF AnyIndexBinds
    <2>1. CallGoesWell(t)
      BY DEF AffinityWell
    <2>2. at[t].step = "returned"
      BY <2>1 DEF CallGoesWell
    <2>3. CASE posix
      BY <2>1, <2>2, <2>3 DEF CallGoesWell
    <2>4. CASE ~posix
      BY <2>1, <2>2, <2>4 DEF CallGoesWell
    <2> QED
      BY <2>2, <2>3, <2>4
  <1> QED
    BY <1>1, AffinityWellHolds, PTL

----------------------------------------------------------------------------
(* Utf8.                                                                   *)

Octet == 0..255

\* The value that some octets encode, if they are at most four.
Decoded(s) ==
    IF Len(s) = 1 THEN FirstOctet(s[1]).bits
    ELSE IF Len(s) = 2 THEN FirstOctet(s[1]).bits * 64 + (s[2] % 64)
    ELSE IF Len(s) = 3 THEN (FirstOctet(s[1]).bits * 64 + (s[2] % 64)) * 64 + (s[3] % 64)
    ELSE ((FirstOctet(s[1]).bits * 64 + (s[2] % 64)) * 64 + (s[3] % 64)) * 64 + (s[4] % 64)

\* The octets of one scalar value, or of its beginning: each is in its place.
InPlace(s) == Begins(s[1]) /\ \A i \in 2..Len(s) : Continues(s[i])

\* Sixty-four at a time.
LEMMA By64 ==
    ASSUME NEW u \in Nat
    PROVE  /\ u \div 64 \in Nat /\ u % 64 \in 0..63 /\ u = (u \div 64) * 64 + (u % 64)
           /\ u \div 4096 = (u \div 64) \div 64 /\ u \div 262144 = (u \div 4096) \div 64
  <1>1. u \div 64 \in Nat /\ u % 64 \in 0..63 /\ u = (u \div 64) * 64 + (u % 64)
    BY SMTT(20)
  <1>2. u \div 4096 = (u \div 64) \div 64
    BY SMTT(20)
  <1>3. u \div 262144 = (u \div 4096) \div 64
    BY SMTT(20)
  <1> QED
    BY <1>1, <1>2, <1>3, SMTT(20)

LEMMA ContinuationContinues ==
    ASSUME NEW v \in Nat
    PROVE  /\ Continuation(v) \in Octet /\ Continues(Continuation(v))
           /\ Continuation(v) % 64 = v % 64
  BY SMTT(20) DEF Continuation, Continues, Octet

\* What the first octets of one, two, three and four say.
LEMMA FirstOfOne ==
    ASSUME NEW b \in 0..127
    PROVE  b \in Octet /\ Begins(b) /\ FirstOctet(b) = [more |-> 0, min |-> 0, bits |-> b]
  <1>1. b \div 128 = 0 /\ b % 128 = b
    BY SMTT(20)
  <1> QED
    BY <1>1, SMTT(20) DEF Octet, Begins, FirstOctet

LEMMA FirstOfTwo ==
    ASSUME NEW b \in 0..31
    PROVE  /\ 192 + b \in Octet /\ Begins(192 + b)
           /\ FirstOctet(192 + b) = [more |-> 1, min |-> 128, bits |-> b]
  <1>1. (192 + b) \div 128 = 1 /\ (192 + b) \div 32 = 6 /\ (192 + b) % 32 = b
        /\ (192 + b) \div 16 # 14 /\ (192 + b) \div 8 # 30
    BY SMTT(20)
  <1>2. PICK o \in Octet : o = 192 + b
    BY SMTT(20) DEF Octet
  <1> QED
    BY <1>1, <1>2, SMTT(20) DEF Begins, FirstOctet

LEMMA FirstOfThree ==
    ASSUME NEW b \in 0..15
    PROVE  /\ 224 + b \in Octet /\ Begins(224 + b)
           /\ FirstOctet(224 + b) = [more |-> 2, min |-> 2048, bits |-> b]
  <1>1. (224 + b) \div 128 = 1 /\ (224 + b) \div 32 = 7 /\ (224 + b) \div 16 = 14
        /\ (224 + b) % 16 = b /\ (224 + b) \div 8 # 30
    BY SMTT(20)
  <1>2. PICK o \in Octet : o = 224 + b
    BY SMTT(20) DEF Octet
  <1> QED
    BY <1>1, <1>2, SMTT(20) DEF Begins, FirstOctet

LEMMA FirstOfFour ==
    ASSUME NEW b \in 0..7
    PROVE  /\ 240 + b \in Octet /\ Begins(240 + b)
           /\ FirstOctet(240 + b) = [more |-> 3, min |-> 65536, bits |-> b]
  <1>1. (240 + b) \div 128 = 1 /\ (240 + b) \div 32 = 7 /\ (240 + b) \div 16 = 15
        /\ (240 + b) \div 8 = 30 /\ (240 + b) % 8 = b
    BY SMTT(20)
  <1>2. PICK o \in Octet : o = 240 + b
    BY SMTT(20) DEF Octet
  <1> QED
    BY <1>1, <1>2, SMTT(20) DEF Begins, FirstOctet

\* Sequences of two, three and four.
LEMMA TupleOfTwo ==
    ASSUME NEW S, NEW a \in S, NEW b \in S
    PROVE  <<a, b>> \in Seq(S) /\ Len(<<a, b>>) = 2 /\ <<a, b>>[1] = a /\ <<a, b>>[2] = b
  BY SMTT(20)

LEMMA TupleOfThree ==
    ASSUME NEW S, NEW a \in S, NEW b \in S, NEW c \in S
    PROVE  /\ <<a, b, c>> \in Seq(S) /\ Len(<<a, b, c>>) = 3
           /\ <<a, b, c>>[1] = a /\ <<a, b, c>>[2] = b /\ <<a, b, c>>[3] = c
  BY SMTT(20)

LEMMA TupleOfFour ==
    ASSUME NEW S, NEW a \in S, NEW b \in S, NEW c \in S, NEW d \in S
    PROVE  /\ <<a, b, c, d>> \in Seq(S) /\ Len(<<a, b, c, d>>) = 4
           /\ <<a, b, c, d>>[1] = a /\ <<a, b, c, d>>[2] = b
           /\ <<a, b, c, d>>[3] = c /\ <<a, b, c, d>>[4] = d
  BY SMTT(20)

\* What is written is as long as cnt_utf8_octets says and reads as the value again.
LEMMA WrittenReads ==
    ASSUME NEW sv \in Nat, is_valid(sv)
    PROVE  /\ Write(sv) \in Seq(Octet) /\ Len(Write(sv)) = cnt_utf8_octets(sv)
           /\ cnt_utf8_octets(sv) \in 1..4
           /\ InPlace(Write(sv)) /\ Decoded(Write(sv)) = sv
           /\ FirstOctet(Write(sv)[1]).more = cnt_utf8_octets(sv) - 1
           /\ FirstOctet(Write(sv)[1]).min <= sv
  <1>1. CASE sv < 128
    <2>1. sv \in 0..127 /\ cnt_utf8_octets(sv) = 1
      BY <1>1, SMTT(20) DEF cnt_utf8_octets
    <2>2. Write(sv) = <<sv>>
      BY <2>1, SMTT(20) DEF Write
    <2>3. sv \in Octet /\ Begins(sv) /\ FirstOctet(sv) = [more |-> 0, min |-> 0, bits |-> sv]
      BY <2>1, FirstOfOne, SMTT(20)
    <2> QED
      BY <2>1, <2>2, <2>3, SMTT(20) DEF InPlace, Decoded
  <1>2. CASE 128 <= sv /\ sv < 2048
    <2>1. PICK q \in 0..31 : q = sv \div 64 /\ sv = q * 64 + (sv % 64)
      BY <1>2, By64, SMTT(20)
    <2>2. PICK c \in Octet : c = Continuation(sv) /\ Continues(c) /\ c % 64 = sv % 64
      BY <1>2, ContinuationContinues, SMTT(20)
    <2>3. PICK o \in Octet : o = 192 + q /\ Begins(o) /\ FirstOctet(o) = [more |-> 1, min |-> 128, bits |-> q]
      BY FirstOfTwo, SMTT(20)
    <2>4. cnt_utf8_octets(sv) = 2
      BY <1>2, SMTT(20) DEF cnt_utf8_octets
    <2>5. Write(sv) = <<o, c>>
      BY <2>1, <2>2, <2>3, <2>4, SMTT(20) DEF Write
    <2>6. Write(sv) \in Seq(Octet) /\ Len(Write(sv)) = 2 /\ Write(sv)[1] = o /\ Write(sv)[2] = c
      <3>1. <<o, c>> \in Seq(Octet) /\ Len(<<o, c>>) = 2 /\ <<o, c>>[1] = o /\ <<o, c>>[2] = c
        BY TupleOfTwo, SMTT(20)
      <3> QED
        BY <2>5, <3>1, SMTT(20)
    <2>7. InPlace(Write(sv))
      BY <2>2, <2>3, <2>6, SMTT(20) DEF InPlace
    <2>8. Decoded(Write(sv)) = sv
      BY <2>1, <2>2, <2>3, <2>6, SMTT(20) DEF Decoded
    <2> QED
      BY <1>2, <2>3, <2>4, <2>6, <2>7, <2>8, SMTT(20)
  <1>3. CASE 2048 <= sv /\ sv < 65536
    <2>1. PICK hi \in Nat : hi = sv \div 64 /\ sv = hi * 64 + (sv % 64) /\ sv \div 4096 = hi \div 64
      BY <1>3, By64, SMTT(20)
    <2>2. PICK q \in 0..15 : q = hi \div 64 /\ hi = q * 64 + (hi % 64)
      BY <1>3, <2>1, By64, SMTT(20)
    <2>3. PICK c \in Octet : c = Continuation(sv) /\ Continues(c) /\ c % 64 = sv % 64
      BY <1>3, ContinuationContinues, SMTT(20)
    <2>4. PICK d \in Octet : d = Continuation(hi) /\ Continues(d) /\ d % 64 = hi % 64
      BY ContinuationContinues, SMTT(20)
    <2>5. PICK o \in Octet : o = 224 + q /\ Begins(o) /\ FirstOctet(o) = [more |-> 2, min |-> 2048, bits |-> q]
      BY FirstOfThree, SMTT(20)
    <2>6. cnt_utf8_octets(sv) = 3
      BY <1>3, SMTT(20) DEF cnt_utf8_octets
    <2>7. Write(sv) = <<o, d, c>>
      BY <2>1, <2>2, <2>3, <2>4, <2>5, <2>6, SMTT(20) DEF Write
    <2>8. /\ Write(sv) \in Seq(Octet) /\ Len(Write(sv)) = 3
          /\ Write(sv)[1] = o /\ Write(sv)[2] = d /\ Write(sv)[3] = c
      <3>1. /\ <<o, d, c>> \in Seq(Octet) /\ Len(<<o, d, c>>) = 3
            /\ <<o, d, c>>[1] = o /\ <<o, d, c>>[2] = d /\ <<o, d, c>>[3] = c
        BY TupleOfThree, SMTT(20)
      <3> QED
        BY <2>7, <3>1, SMTT(20)
    <2>9. InPlace(Write(sv))
      BY <2>3, <2>4, <2>5, <2>8, SMTT(20) DEF InPlace
    <2>10. Decoded(Write(sv)) = sv
      <3>1. Decoded(Write(sv)) = (q * 64 + (d % 64)) * 64 + (c % 64)
        BY <2>5, <2>8, SMTT(20) DEF Decoded
      <3>2. q * 64 + (d % 64) = hi
        BY <2>2, <2>4, SMTT(20)
      <3> QED
        BY <2>1, <2>3, <3>1, <3>2, SMTT(20)
    <2> QED
      BY <1>3, <2>5, <2>6, <2>8, <2>9, <2>10, SMTT(20)
  <1>4. CASE 65536 <= sv
    <2>1. PICK hi \in Nat : /\ hi = sv \div 64 /\ sv = hi * 64 + (sv % 64)
                           /\ sv \div 4096 = hi \div 64 /\ sv \div 262144 = (sv \div 4096) \div 64
      BY <1>4, By64, SMTT(20)
    <2>2. PICK q \in Nat : q = hi \div 64 /\ hi = q * 64 + (hi % 64)
      BY <2>1, By64, SMTT(20)
    <2>3. PICK r \in Nat : r = q \div 64 /\ q = r * 64 + (q % 64)
      BY By64, SMTT(20)
    <2>4. r \in 0..7
      BY <1>4, <2>1, <2>2, <2>3, SMTT(20) DEF is_valid
    <2>5. PICK c \in Octet : c = Continuation(sv) /\ Continues(c) /\ c % 64 = sv % 64
      BY <1>4, ContinuationContinues, SMTT(20)
    <2>6. PICK d \in Octet : d = Continuation(hi) /\ Continues(d) /\ d % 64 = hi % 64
      BY ContinuationContinues, SMTT(20)
    <2>7. PICK e \in Octet : e = Continuation(q) /\ Continues(e) /\ e % 64 = q % 64
      BY ContinuationContinues, SMTT(20)
    <2>8. PICK o \in Octet : o = 240 + r /\ Begins(o) /\ FirstOctet(o) = [more |-> 3, min |-> 65536, bits |-> r]
      BY <2>4, FirstOfFour, SMTT(20)
    <2>9. cnt_utf8_octets(sv) = 4
      BY <1>4, SMTT(20) DEF cnt_utf8_octets
    <2>10. Write(sv) = <<o, e, d, c>>
      BY <2>1, <2>2, <2>3, <2>5, <2>6, <2>7, <2>8, <2>9, SMTT(20) DEF Write
    <2>11. /\ Write(sv) \in Seq(Octet) /\ Len(Write(sv)) = 4
           /\ Write(sv)[1] = o /\ Write(sv)[2] = e /\ Write(sv)[3] = d /\ Write(sv)[4] = c
      <3>1. /\ <<o, e, d, c>> \in Seq(Octet) /\ Len(<<o, e, d, c>>) = 4
            /\ <<o, e, d, c>>[1] = o /\ <<o, e, d, c>>[2] = e
            /\ <<o, e, d, c>>[3] = d /\ <<o, e, d, c>>[4] = c
        BY TupleOfFour, SMTT(20)
      <3> QED
        BY <2>10, <3>1, SMTT(20)
    <2>12. InPlace(Write(sv))
      BY <2>5, <2>6, <2>7, <2>8, <2>11, SMTT(20) DEF InPlace
    <2>13. Decoded(Write(sv)) = sv
      <3>1. Decoded(Write(sv)) = ((r * 64 + (e % 64)) * 64 + (d % 64)) * 64 + (c % 64)
        BY <2>8, <2>11, SMTT(20) DEF Decoded
      <3>2. r * 64 + (e % 64) = q
        BY <2>3, <2>7, SMTT(20)
      <3>3. q * 64 + (d % 64) = hi
        BY <2>2, <2>6, SMTT(20)
      <3> QED
        BY <2>1, <2>5, <3>1, <3>2, <3>3, SMTT(20)
    <2> QED
      BY <1>4, <2>8, <2>9, <2>11, <2>12, <2>13, SMTT(20)
  <1> QED
    BY <1>1, <1>2, <1>3, <1>4, SMTT(20)

\* What an octet that begins a scalar value says.
Leads(b) ==
    \/ b \in 0..127 /\ FirstOctet(b) = [more |-> 0, min |-> 0, bits |-> b]
    \/ \E v \in 0..31 : b = 192 + v /\ FirstOctet(b) = [more |-> 1, min |-> 128, bits |-> v]
    \/ \E v \in 0..15 : b = 224 + v /\ FirstOctet(b) = [more |-> 2, min |-> 2048, bits |-> v]
    \/ \E v \in 0..7 : b = 240 + v /\ FirstOctet(b) = [more |-> 3, min |-> 65536, bits |-> v]

LEMMA FirstOctetSays == ASSUME NEW b \in Octet, Begins(b) PROVE Leads(b)
  <1>1. CASE b \div 128 = 0
    <2>1. b \in 0..127
      BY <1>1, SMTT(20) DEF Octet
    <2> QED
      BY <2>1, FirstOfOne, SMTT(20) DEF Leads
  <1>2. CASE b \div 32 = 6
    <2>1. PICK v \in 0..31 : b = 192 + v
      BY <1>2, SMTT(20) DEF Octet
    <2> QED
      BY <2>1, FirstOfTwo, SMTT(20) DEF Leads
  <1>3. CASE b \div 16 = 14
    <2>1. PICK v \in 0..15 : b = 224 + v
      BY <1>3, SMTT(20) DEF Octet
    <2> QED
      BY <2>1, FirstOfThree, SMTT(20) DEF Leads
  <1>4. CASE b \div 8 = 30
    <2>1. PICK v \in 0..7 : b = 240 + v
      BY <1>4, SMTT(20) DEF Octet
    <2> QED
      BY <2>1, FirstOfFour, SMTT(20) DEF Leads
  <1> QED
    BY <1>1, <1>2, <1>3, <1>4, SMTT(20) DEF Begins

LEMMA FirstOctetTypes ==
    ASSUME NEW b \in Octet, Begins(b)
    PROVE  FirstOctet(b).more \in 0..3 /\ FirstOctet(b).bits \in Nat /\ FirstOctet(b).min \in Nat
  BY FirstOctetSays, SMTT(20) DEF Leads

\* An octet that continues is 128 and its last six bits.
LEMMA ContinuesSays ==
    ASSUME NEW b \in Octet, Continues(b) PROVE \E c \in 0..63 : c = b % 64 /\ b = 128 + c
  BY SMTT(20) DEF Octet, Continues

\* One more octet is six more bits.
LEMMA DecodedGrows ==
    ASSUME NEW s \in Seq(Octet), Len(s) \in 1..3, InPlace(s), NEW b \in Octet, Continues(b)
    PROVE  /\ Append(s, b) \in Seq(Octet) /\ Len(Append(s, b)) = Len(s) + 1
           /\ Append(s, b)[1] = s[1] /\ Append(s, b)[Len(s) + 1] = b
           /\ InPlace(Append(s, b)) /\ Decoded(Append(s, b)) = Decoded(s) * 64 + (b % 64)
  <1>1. /\ Append(s, b) \in Seq(Octet) /\ Len(Append(s, b)) = Len(s) + 1
        /\ \A i \in 1..Len(s) : Append(s, b)[i] = s[i]
        /\ Append(s, b)[Len(s) + 1] = b
    BY SMTT(20)
  <1>2. InPlace(Append(s, b))
    BY <1>1, SMTT(20) DEF InPlace
  <1>3. Decoded(Append(s, b)) = Decoded(s) * 64 + (b % 64)
    <2>1. CASE Len(s) = 1
      BY <1>1, <2>1, SMTT(20) DEF Decoded
    <2>2. CASE Len(s) = 2
      BY <1>1, <2>2, SMTT(20) DEF Decoded
    <2>3. CASE Len(s) = 3
      BY <1>1, <2>3, SMTT(20) DEF Decoded
    <2> QED
      BY <2>1, <2>2, <2>3, SMTT(20)
  <1> QED
    BY <1>1, <1>2, <1>3, SMTT(20)

LEMMA DecodedOfFour ==
    ASSUME NEW s, Len(s) = 4
    PROVE  Decoded(s) = ((FirstOctet(s[1]).bits * 64 + (s[2] % 64)) * 64 + (s[3] % 64)) * 64 + (s[4] % 64)
  <1>1. Len(s) # 1 /\ Len(s) # 2 /\ Len(s) # 3
    BY SMTT(20)
  <1> QED
    BY <1>1, Zenon DEF Decoded

\* Octets of a scalar value, as many as the first one says and no longer a form than needed, are
\* what is written for the value they encode.
LEMMA ReadIsWritten ==
    ASSUME NEW s \in Seq(Octet), Len(s) \in 1..4, InPlace(s), Len(s) = FirstOctet(s[1]).more + 1,
           FirstOctet(s[1]).min <= Decoded(s)
    PROVE  s = Write(Decoded(s))
  <1>1. s[1] \in Octet /\ Begins(s[1]) /\ \A i \in 2..Len(s) : s[i] \in Octet /\ Continues(s[i])
    BY SMTT(20) DEF InPlace
  <1>2. CASE s[1] \in 0..127 /\ FirstOctet(s[1]) = [more |-> 0, min |-> 0, bits |-> s[1]]
    <2>1. PICK a \in 0..127 : a = s[1]
      BY <1>2, SMTT(20)
    <2>2. Len(s) = 1 /\ Decoded(s) = a
      BY <1>2, <2>1, SMTT(20) DEF Decoded
    <2>3. Write(a) = <<a>>
      <3>1. cnt_utf8_octets(a) = 1
        BY SMTT(20) DEF cnt_utf8_octets
      <3> QED
        BY <3>1, SMTT(20) DEF Write
    <2>4. s = <<s[1]>>
      BY <2>2, SMTT(20)
    <2> QED
      BY <2>1, <2>2, <2>3, <2>4, SMTT(20)
  <1>3. ASSUME NEW v \in 0..31, s[1] = 192 + v, FirstOctet(s[1]) = [more |-> 1, min |-> 128, bits |-> v]
        PROVE  s = Write(Decoded(s))
    <2>1. Len(s) = 2
      BY <1>3, SMTT(20)
    <2>2. PICK c \in 0..63 : c = s[2] % 64 /\ s[2] = 128 + c
      <3>1. s[2] \in Octet /\ Continues(s[2])
        BY <1>1, <2>1, SMTT(20)
      <3> QED
        BY <3>1, ContinuesSays
    <2>3. PICK u \in Nat : u = Decoded(s) /\ u = v * 64 + c /\ 128 <= u
      <3>1. Decoded(s) = v * 64 + c
        BY <1>3, <2>1, <2>2, SMTT(20) DEF Decoded
      <3> QED
        BY <1>3, <3>1, SMTT(20)
    <2>4. u < 2048 /\ u \div 64 = v /\ u % 64 = c
      BY <2>3, SMTT(20)
    <2>5. cnt_utf8_octets(u) = 2
      BY <2>3, <2>4, SMTT(20) DEF cnt_utf8_octets
    <2>6. Write(u) = <<192 + v, 128 + c>>
      BY <2>4, <2>5, SMTT(20) DEF Write, Continuation
    <2>7. s = <<s[1], s[2]>>
      BY <2>1, SMTT(20)
    <2> QED
      BY <1>3, <2>2, <2>3, <2>6, <2>7, SMTT(20)
  <1>4. ASSUME NEW v \in 0..15, s[1] = 224 + v, FirstOctet(s[1]) = [more |-> 2, min |-> 2048, bits |-> v]
        PROVE  s = Write(Decoded(s))
    <2>1. Len(s) = 3
      BY <1>4, SMTT(20)
    <2>2. PICK d \in 0..63 : d = s[2] % 64 /\ s[2] = 128 + d
      <3>1. s[2] \in Octet /\ Continues(s[2])
        BY <1>1, <2>1, SMTT(20)
      <3> QED
        BY <3>1, ContinuesSays
    <2>3. PICK c \in 0..63 : c = s[3] % 64 /\ s[3] = 128 + c
      <3>1. s[3] \in Octet /\ Continues(s[3])
        BY <1>1, <2>1, SMTT(20)
      <3> QED
        BY <3>1, ContinuesSays
    <2>4. PICK hi \in Nat : hi = v * 64 + d /\ hi < 1024
      BY SMTT(20)
    <2>5. PICK u \in Nat : u = Decoded(s) /\ u = hi * 64 + c /\ 2048 <= u
      <3>1. Decoded(s) = (FirstOctet(s[1]).bits * 64 + (s[2] % 64)) * 64 + (s[3] % 64)
        BY <2>1, SMTT(20) DEF Decoded
      <3>2. FirstOctet(s[1]).bits = v /\ FirstOctet(s[1]).min = 2048
        BY <1>4, SMTT(20)
      <3>3. Decoded(s) = (v * 64 + d) * 64 + c
        BY <2>2, <2>3, <3>1, <3>2, SMTT(20)
      <3> QED
        BY <2>4, <3>2, <3>3, SMTT(20)
    <2>6. u < 65536 /\ u \div 64 = hi /\ u % 64 = c
      BY <2>4, <2>5, SMTT(20)
    <2>7. hi \div 64 = v /\ hi % 64 = d
      BY <2>4, SMTT(20)
    <2>8. cnt_utf8_octets(u) = 3
      BY <2>5, <2>6, SMTT(20) DEF cnt_utf8_octets
    <2>9. u \div 4096 = v
      BY <2>6, <2>7, By64, SMTT(20)
    <2>10. Write(u) = <<224 + v, 128 + d, 128 + c>>
      BY <2>6, <2>7, <2>8, <2>9, SMTT(20) DEF Write, Continuation
    <2>11. s = <<s[1], s[2], s[3]>>
      BY <2>1, SMTT(20)
    <2> QED
      BY <1>4, <2>2, <2>3, <2>5, <2>10, <2>11, SMTT(20)
  <1>5. ASSUME NEW v \in 0..7, s[1] = 240 + v, FirstOctet(s[1]) = [more |-> 3, min |-> 65536, bits |-> v]
        PROVE  s = Write(Decoded(s))
    <2>1. Len(s) = 4
      BY <1>5, SMTT(20)
    <2>2. PICK e \in 0..63 : e = s[2] % 64 /\ s[2] = 128 + e
      <3>1. s[2] \in Octet /\ Continues(s[2])
        BY <1>1, <2>1, SMTT(20)
      <3> QED
        BY <3>1, ContinuesSays
    <2>3. PICK d \in 0..63 : d = s[3] % 64 /\ s[3] = 128 + d
      <3>1. s[3] \in Octet /\ Continues(s[3])
        BY <1>1, <2>1, SMTT(20)
      <3> QED
        BY <3>1, ContinuesSays
    <2>4. PICK c \in 0..63 : c = s[4] % 64 /\ s[4] = 128 + c
      <3>1. s[4] \in Octet /\ Continues(s[4])
        BY <1>1, <2>1, SMTT(20)
      <3> QED
        BY <3>1, ContinuesSays
    <2>5. PICK q \in Nat : q = v * 64 + e
      BY SMTT(20)
    <2>6. PICK hi \in Nat : hi = q * 64 + d
      BY SMTT(20)
    <2>7. PICK u \in Nat : u = Decoded(s) /\ u = hi * 64 + c /\ 65536 <= u
      <3>1. Decoded(s) = ((FirstOctet(s[1]).bits * 64 + (s[2] % 64)) * 64 + (s[3] % 64)) * 64 + (s[4] % 64)
        BY <2>1, DecodedOfFour
      <3>2. FirstOctet(s[1]).bits = v /\ FirstOctet(s[1]).min = 65536
        BY <1>5, SMTT(20)
      <3>3. Decoded(s) = ((v * 64 + e) * 64 + d) * 64 + c
        BY <2>2, <2>3, <2>4, <3>1, <3>2, SMTT(20)
      <3> QED
        BY <2>5, <2>6, <3>2, <3>3, SMTT(20)
    <2>8. u \div 64 = hi /\ u % 64 = c
      BY <2>7, SMTT(20)
    <2>9. hi \div 64 = q /\ hi % 64 = d
      BY <2>6, SMTT(20)
    <2>10. q \div 64 = v /\ q % 64 = e
      BY <2>5, SMTT(20)
    <2>11. cnt_utf8_octets(u) = 4
      BY <2>7, SMTT(20) DEF cnt_utf8_octets
    <2>12. u \div 4096 = q /\ u \div 262144 = v
      BY <2>8, <2>9, <2>10, By64, SMTT(20)
    <2>13. Write(u) = <<240 + v, 128 + e, 128 + d, 128 + c>>
      BY <2>8, <2>9, <2>10, <2>11, <2>12, SMTT(20) DEF Write, Continuation
    <2>14. s = <<s[1], s[2], s[3], s[4]>>
      BY <2>1, SMTT(20)
    <2> QED
      BY <1>5, <2>2, <2>3, <2>4, <2>7, <2>13, <2>14, SMTT(20)
  <1>6. Leads(s[1])
    BY <1>1, FirstOctetSays, SMTT(20)
  <1> QED
    BY <1>2, <1>3, <1>4, <1>5, <1>6, SMTT(20) DEF Leads

\* The validator's state is what the octets since the last scalar value come to.
Fresh == octets = <<>> /\ state = 0 /\ answer = "more"

Consumed ==
    /\ octets \in Seq(Octet) /\ Len(octets) \in 1..4 /\ InPlace(octets)
    /\ state \in Nat /\ FirstOctet(octets[1]).more = state + Len(octets) - 1
    /\ min_valid = FirstOctet(octets[1]).min
    /\ u32 = Decoded(octets)
    /\ answer = Answer(state, u32, min_valid)

\* The last octet was out of place.
Refused ==
    /\ octets \in Seq(Octet) /\ Len(octets) \in 1..4
    /\ IF Len(octets) = 1 THEN ~Begins(octets[1]) ELSE ~Continues(octets[Len(octets)])
    /\ answer = "threw"

Utf8Inv == Fresh \/ Consumed \/ Refused

LEMMA Utf8InvInit == Utf8Init => Utf8Inv
  BY DEF Utf8Init, Utf8Inv, Fresh

LEMMA ConsumeFirstKeeps ==
    ASSUME Utf8Assumption, Utf8Inv, NEW by \in Octets, ConsumeFirst(by) PROVE Utf8Inv'
  <1>1. by \in Octet /\ Begins(by)
    BY SMTT(20) DEF Utf8Assumption, Octet, ConsumeFirst
  <1>2. octets' = <<by>> /\ <<by>> \in Seq(Octet) /\ Len(<<by>>) = 1 /\ <<by>>[1] = by
    BY <1>1, SMTT(20) DEF ConsumeFirst
  <1>3. InPlace(<<by>>) /\ Decoded(<<by>>) = FirstOctet(by).bits
    BY <1>1, <1>2, SMTT(20) DEF InPlace, Decoded
  <1>4. /\ state' = FirstOctet(by).more /\ min_valid' = FirstOctet(by).min
        /\ u32' = FirstOctet(by).bits /\ answer' = Answer(state', u32', min_valid')
    BY DEF ConsumeFirst
  <1>5. FirstOctet(by).more \in 0..3
    BY <1>1, FirstOctetTypes
  <1>6. Consumed'
    BY <1>2, <1>3, <1>4, <1>5, SMTT(20) DEF Consumed
  <1> QED
    BY <1>6 DEF Utf8Inv

LEMMA ConsumeNextKeeps ==
    ASSUME Utf8Assumption, Utf8Inv, NEW by \in Octets, ConsumeNext(by) PROVE Utf8Inv'
  <1>1. by \in Octet /\ Continues(by)
    BY SMTT(20) DEF Utf8Assumption, Octet, ConsumeNext
  <1>2. Consumed
    BY SMTT(20) DEF Utf8Inv, ConsumeNext, Fresh, Refused
  <1>3. octets[1] \in Octet /\ Begins(octets[1])
    BY <1>2, SMTT(20) DEF Consumed, InPlace
  <1>4. Len(octets) \in 1..3
    BY <1>2, <1>3, FirstOctetTypes, SMTT(20) DEF Consumed, ConsumeNext
  <1>5. /\ octets' \in Seq(Octet) /\ Len(octets') = Len(octets) + 1 /\ octets'[1] = octets[1]
        /\ InPlace(octets') /\ Decoded(octets') = Decoded(octets) * 64 + (by % 64)
    BY <1>1, <1>2, <1>4, DecodedGrows, SMTT(20) DEF Consumed, ConsumeNext
  <1>6. state \in Nat /\ state' = state - 1 /\ state > 0
    BY <1>2 DEF Consumed, ConsumeNext
  <1>7. u32' = Decoded(octets') /\ min_valid' = min_valid /\ answer' = Answer(state', u32', min_valid')
    BY <1>2, <1>5 DEF Consumed, ConsumeNext
  <1>8. Consumed'
    <2>1. Len(octets') \in 1..4 /\ state' \in Nat
      <3>1. PICK n \in 1..3 : n = Len(octets)
        BY <1>4
      <3>2. PICK z \in Nat : z = state /\ z > 0
        BY <1>6
      <3>3. Len(octets') = n + 1 /\ state' = z - 1
        BY <1>5, <1>6, <3>1, <3>2
      <3> QED
        BY <3>2, <3>3, SMTT(20)
    <2>2. FirstOctet(octets[1]).more = state + Len(octets) - 1 /\ min_valid = FirstOctet(octets[1]).min
      BY <1>2 DEF Consumed
    <2>3. FirstOctet(octets'[1]).more = state' + Len(octets') - 1
      BY <1>4, <1>5, <1>6, <2>2, SMTT(20)
    <2>4. min_valid' = FirstOctet(octets'[1]).min
      BY <1>5, <1>7, <2>2
    <2> QED
      BY <1>5, <1>7, <2>1, <2>3, <2>4 DEF Consumed
  <1> QED
    BY <1>8 DEF Utf8Inv

LEMMA RefuseKeeps ==
    ASSUME Utf8Assumption, Utf8Inv, NEW by \in Octets, Refuse(by) PROVE Utf8Inv'
  <1>1. by \in Octet /\ answer' = "threw" /\ answer # "threw"
    BY SMTT(20) DEF Utf8Assumption, Octet, Refuse
  <1>2. CASE state = 0 /\ ~Begins(by) /\ octets' = <<by>>
    <2>1. Refused'
      BY <1>1, <1>2, SMTT(20) DEF Refused
    <2> QED
      BY <2>1 DEF Utf8Inv
  <1>3. CASE state > 0 /\ ~Continues(by) /\ octets' = Append(octets, by)
    <2>1. Consumed
      BY <1>1, <1>3, SMTT(20) DEF Utf8Inv, Fresh, Refused
    <2>2. octets[1] \in Octet /\ Begins(octets[1])
      BY <2>1, SMTT(20) DEF Consumed, InPlace
    <2>3. Len(octets) \in 1..3
      BY <1>3, <2>1, <2>2, FirstOctetTypes, SMTT(20) DEF Consumed
    <2>4. octets' \in Seq(Octet) /\ Len(octets') = Len(octets) + 1 /\ octets'[Len(octets')] = by
      BY <1>1, <1>3, <2>1, SMTT(20) DEF Consumed
    <2>5. Refused'
      BY <1>1, <1>3, <2>3, <2>4, SMTT(20) DEF Refused
    <2> QED
      BY <2>5 DEF Utf8Inv
  <1> QED
    BY <1>2, <1>3 DEF Refuse

LEMMA Utf8InvHolds == ASSUME Utf8Assumption PROVE Utf8Spec => []Utf8Inv
  <1>1. Utf8Init => Utf8Inv
    BY Utf8InvInit
  <1>2. ASSUME Utf8Inv, [Utf8Next]_utf8Vars PROVE Utf8Inv'
    <2>1. CASE UNCHANGED utf8Vars
      BY <1>2, <2>1 DEF utf8Vars, Utf8Inv, Fresh, Consumed, Refused
    <2>2. CASE Renew
      BY <2>2 DEF Renew, Utf8Inv, Fresh
    <2>3. ASSUME NEW by \in Octets, ConsumeFirst(by) \/ ConsumeNext(by) \/ Refuse(by) PROVE Utf8Inv'
      BY <1>2, <2>3, ConsumeFirstKeeps, ConsumeNextKeeps, RefuseKeeps
    <2> QED
      BY <1>2, <2>1, <2>2, <2>3 DEF Utf8Next
  <1> QED
    BY <1>1, <1>2, PTL DEF Utf8Spec

\* What has been consumed of what is written for a scalar value is never refused, and all of it
\* reads as that value.
LEMMA ConsumedOfWritten ==
    ASSUME Consumed, NEW sv \in Nat, is_valid(sv), Len(octets) \in 1..Len(Write(sv)),
           octets = SubSeq(Write(sv), 1, Len(octets))
    PROVE  /\ answer # "threw"
           /\ octets = Write(sv) => answer = "scalar" /\ u32 = sv
  <1>1. PICK w \in Seq(Octet) : w = Write(sv)
    BY WrittenReads, SMTT(20)
  <1>2. /\ Decoded(w) = sv /\ FirstOctet(w[1]).more = Len(w) - 1 /\ FirstOctet(w[1]).min <= sv
    BY <1>1, WrittenReads, SMTT(20)
  <1>3. octets[1] = w[1]
    BY <1>1, SMTT(20)
  <1>4. state \in Nat /\ state = Len(w) - Len(octets)
    BY <1>2, <1>3, SMTT(20) DEF Consumed
  <1>5. CASE state > 0
    <2>1. answer = "more"
      BY <1>5 DEF Consumed, Answer
    <2>2. octets # w
      BY <1>4, <1>5, SMTT(20)
    <2> QED
      BY <1>1, <2>1, <2>2
  <1>6. CASE state = 0
    <2>1. octets = w
      BY <1>1, <1>4, <1>6, SMTT(20) DEF Consumed
    <2>2. u32 = sv /\ min_valid = FirstOctet(w[1]).min
      BY <1>2, <2>1 DEF Consumed
    <2>3. Accepted(u32, min_valid)
      BY <1>2, <2>2 DEF Accepted
    <2>4. answer = "scalar"
      BY <1>6, <2>3, SMTT(20) DEF Consumed, Answer
    <2> QED
      BY <2>2, <2>4
  <1>7. state \in Nat
    BY <1>4, SMTT(20)
  <1>8. state > 0 \/ state = 0
    BY <1>7, SMTT(20)
  <1> QED
    BY <1>5, <1>6, <1>8

\* What has been refused is not how anything written begins.
LEMMA RefusedIsNotWritten ==
    ASSUME Refused, NEW sv \in Nat, is_valid(sv), Len(octets) \in 1..Len(Write(sv))
    PROVE  octets # SubSeq(Write(sv), 1, Len(octets))
  <1>1. PICK w \in Seq(Octet) : w = Write(sv) /\ InPlace(w)
    BY WrittenReads, SMTT(20)
  <1>2. PICK n \in 1..Len(w) : n = Len(octets)
    BY <1>1
  <1>3. SUFFICES ASSUME octets = SubSeq(w, 1, n) PROVE FALSE
    BY <1>1, <1>2
  <1>4. octets[1] = w[1] /\ octets[n] = w[n]
    BY <1>2, <1>3, SMTT(20)
  <1>5. IF n = 1 THEN ~Begins(w[1]) ELSE ~Continues(w[n])
    BY <1>2, <1>4 DEF Refused
  <1>6. Begins(w[1]) /\ \A i \in 2..Len(w) : Continues(w[i])
    BY <1>1 DEF InPlace
  <1> QED
    BY <1>2, <1>5, <1>6, SMTT(20)

\* The validator accepts just what is written: the octets it takes for a scalar value are those that
\* write_utf8_octets_ makes of it, and of those none is refused (ucs.cxx:28-139, ucs.hxx:109-216).
THEOREM Utf8AcceptsWhatIsWritten == ASSUME Utf8Assumption PROVE Utf8Spec => []AcceptsWhatIsWritten
  <1>1. ASSUME Utf8Inv PROVE AcceptsWhatIsWritten
    <2>1. ASSUME answer = "scalar" PROVE is_valid(u32) /\ octets = Write(u32)
      <3>1. Consumed
        BY <1>1, <2>1 DEF Utf8Inv, Fresh, Refused
      <3>2. state = 0 /\ Accepted(u32, min_valid)
        BY <2>1, <3>1, SMTT(20) DEF Consumed, Answer
      <3>3. is_valid(u32) /\ min_valid <= u32
        BY <3>2 DEF Accepted
      <3>5. Len(octets) = FirstOctet(octets[1]).more + 1
        BY <3>1, <3>2, SMTT(20) DEF Consumed
      <3>6. octets = Write(Decoded(octets))
        BY <3>1, <3>3, <3>5, ReadIsWritten DEF Consumed
      <3> QED
        BY <3>1, <3>3, <3>6 DEF Consumed
    <2>2. ASSUME NEW sv \in Scalars
          PROVE  /\ Len(octets) \in 1..Len(Write(sv)) /\ octets = SubSeq(Write(sv), 1, Len(octets))
                       => answer # "threw"
                 /\ octets = Write(sv)
                       => answer = "scalar" /\ u32 = sv /\ Len(octets) = cnt_utf8_octets(sv)
      <3>1. sv \in Nat /\ is_valid(sv)
        BY DEF Utf8Assumption
      <3>3. /\ Write(sv) \in Seq(Octet) /\ Len(Write(sv)) = cnt_utf8_octets(sv)
            /\ cnt_utf8_octets(sv) \in 1..4
        BY <3>1, WrittenReads, SMTT(20)
      <3>4. ASSUME Len(octets) \in 1..Len(Write(sv)), octets = SubSeq(Write(sv), 1, Len(octets))
            PROVE  answer # "threw" /\ (octets = Write(sv) => answer = "scalar" /\ u32 = sv)
        <4>1. octets # <<>>
          BY <3>4, SMTT(20)
        <4>2. CASE Consumed
          BY <3>1, <3>4, <4>2, ConsumedOfWritten
        <4>3. CASE Refused
          BY <3>1, <3>4, <4>3, RefusedIsNotWritten
        <4> QED
          BY <1>1, <4>1, <4>2, <4>3 DEF Utf8Inv, Fresh
      <3>5. ASSUME octets = Write(sv)
            PROVE  Len(octets) \in 1..Len(Write(sv)) /\ octets = SubSeq(Write(sv), 1, Len(octets))
        BY <3>3, <3>5, SMTT(20)
      <3> QED
        BY <3>3, <3>4, <3>5
    <2> QED
      BY <2>1, <2>2 DEF AcceptsWhatIsWritten
  <1> QED
    BY <1>1, Utf8InvHolds, PTL

\* What the validator has read so far leaves room for what is still to come.
LeavesRoom(missing, v) ==
    /\ v \in Nat
    /\ missing = 0 => v < 2097152
    /\ missing = 1 => v < 32768
    /\ missing = 2 => v < 512
    /\ missing = 3 => v < 8

Utf8Typed ==
    /\ state \in 0..3 /\ min_valid \in {0, 128, 2048, 65536}
    /\ LeavesRoom(state, u32)
    /\ octets \in Seq(Octet) /\ Len(octets) <= 4 /\ answer \in {"more", "scalar", "threw"}
    /\ answer # "threw" => Len(octets) + state <= 4

LEMMA NoneLeavesRoom == LeavesRoom(0, 0)
  BY SMTT(20) DEF LeavesRoom

LEMMA FirstLeavesRoom ==
    ASSUME NEW by \in Octet, Leads(by)
    PROVE  /\ LeavesRoom(FirstOctet(by).more, FirstOctet(by).bits)
           /\ FirstOctet(by).more \in 0..3 /\ FirstOctet(by).min \in {0, 128, 2048, 65536}
  <1>1. CASE by \in 0..127 /\ FirstOctet(by) = [more |-> 0, min |-> 0, bits |-> by]
    BY <1>1, SMTT(20) DEF LeavesRoom
  <1>2. ASSUME NEW v \in 0..31, FirstOctet(by) = [more |-> 1, min |-> 128, bits |-> v]
        PROVE  /\ LeavesRoom(FirstOctet(by).more, FirstOctet(by).bits)
               /\ FirstOctet(by).more \in 0..3 /\ FirstOctet(by).min \in {0, 128, 2048, 65536}
    BY <1>2, SMTT(20) DEF LeavesRoom
  <1>3. ASSUME NEW v \in 0..15, FirstOctet(by) = [more |-> 2, min |-> 2048, bits |-> v]
        PROVE  /\ LeavesRoom(FirstOctet(by).more, FirstOctet(by).bits)
               /\ FirstOctet(by).more \in 0..3 /\ FirstOctet(by).min \in {0, 128, 2048, 65536}
    BY <1>3, SMTT(20) DEF LeavesRoom
  <1>4. ASSUME NEW v \in 0..7, FirstOctet(by) = [more |-> 3, min |-> 65536, bits |-> v]
        PROVE  /\ LeavesRoom(FirstOctet(by).more, FirstOctet(by).bits)
               /\ FirstOctet(by).more \in 0..3 /\ FirstOctet(by).min \in {0, 128, 2048, 65536}
    BY <1>4, SMTT(20) DEF LeavesRoom
  <1> QED
    BY <1>1, <1>2, <1>3, <1>4, SMTT(20) DEF Leads

LEMMA NextLeavesRoom ==
    ASSUME NEW missing \in 1..3, NEW v, LeavesRoom(missing, v), NEW c \in 0..63
    PROVE  LeavesRoom(missing - 1, v * 64 + c)
  <1>1. CASE missing = 1
    BY <1>1, SMTT(20) DEF LeavesRoom
  <1>2. CASE missing = 2
    BY <1>2, SMTT(20) DEF LeavesRoom
  <1>3. CASE missing = 3
    BY <1>3, SMTT(20) DEF LeavesRoom
  <1> QED
    BY <1>1, <1>2, <1>3

LEMMA RoomIsLeft ==
    ASSUME NEW missing \in 0..3, NEW v, LeavesRoom(missing, v) PROVE v \in Nat /\ v < 2097152
  <1>1. v \in Nat
    BY SMTT(20) DEF LeavesRoom
  <1>2. missing = 0 \/ missing = 1 \/ missing = 2 \/ missing = 3
    BY SMTT(20)
  <1>3. v < 2097152
    BY <1>1, <1>2, SMTT(20) DEF LeavesRoom
  <1> QED
    BY <1>1, <1>3, SMTT(20)

LEMMA Utf8TypedInit == Utf8Init => Utf8Typed
  BY NoneLeavesRoom, SMTT(20) DEF Utf8Init, Utf8Typed

LEMMA AnswersAre ==
    ASSUME NEW more, NEW v, NEW min PROVE Answer(more, v, min) \in {"more", "scalar", "threw"}
  BY DEF Answer

LEMMA Utf8TypedNext ==
    ASSUME Utf8Assumption, Utf8Typed, [Utf8Next]_utf8Vars PROVE Utf8Typed'
  <1>1. CASE UNCHANGED utf8Vars
    BY <1>1 DEF utf8Vars, Utf8Typed
  <1>2. CASE Renew
    BY <1>2, NoneLeavesRoom, SMTT(20) DEF Renew, Utf8Typed
  <1>3. ASSUME NEW by \in Octets PROVE by \in Octet
    BY SMTT(20) DEF Utf8Assumption, Octet
  <1>4. ASSUME NEW by \in Octets, ConsumeFirst(by) PROVE Utf8Typed'
    <2>1. by \in Octet /\ Begins(by)
      BY <1>3, <1>4 DEF ConsumeFirst
    <2>2. Leads(by)
      BY <2>1, FirstOctetSays
    <2>3. octets' = <<by>> /\ octets' \in Seq(Octet) /\ Len(octets') = 1
      BY <1>4, <2>1 DEF ConsumeFirst
    <2>4. answer' \in {"more", "scalar", "threw"}
      BY <1>4, AnswersAre DEF ConsumeFirst
    <2>5. /\ state' = FirstOctet(by).more /\ min_valid' = FirstOctet(by).min
          /\ u32' = FirstOctet(by).bits
      BY <1>4 DEF ConsumeFirst
    <2>6. LeavesRoom(state', u32')
      BY <2>1, <2>2, <2>5, FirstLeavesRoom
    <2>7. state' \in 0..3 /\ min_valid' \in {0, 128, 2048, 65536}
      BY <2>1, <2>2, <2>5, FirstLeavesRoom, SMTT(20)
    <2> QED
      BY <2>3, <2>4, <2>5, <2>6, <2>7, SMTT(20) DEF Utf8Typed
  <1>5. ASSUME NEW by \in Octets, ConsumeNext(by) PROVE Utf8Typed'
    <2>1. by \in Octet /\ Continues(by)
      BY <1>3, <1>5 DEF ConsumeNext
    <2>2. PICK c \in 0..63 : c = by % 64
      BY <2>1, ContinuesSays
    <2>3. /\ state' = state - 1 /\ u32' = u32 * 64 + c /\ min_valid' = min_valid
          /\ state > 0 /\ answer # "threw" /\ octets' = Append(octets, by)
      BY <1>5, <2>2 DEF ConsumeNext
    <2>4. octets' \in Seq(Octet) /\ Len(octets') = Len(octets) + 1
      BY <2>1, <2>3 DEF Utf8Typed
    <2>5. answer' \in {"more", "scalar", "threw"}
      BY <1>5, AnswersAre DEF ConsumeNext
    <2>6. Len(octets) \in Nat
      BY DEF Utf8Typed
    <2>7. state' \in 0..3 /\ Len(octets') <= 4 /\ Len(octets') + state' <= 4
      BY <2>3, <2>4, <2>6, SMTT(20) DEF Utf8Typed
    <2>8. LeavesRoom(state', u32')
      <3>1. state \in 1..3 /\ LeavesRoom(state, u32)
        BY <2>3, SMTT(20) DEF Utf8Typed
      <3> QED
        BY <2>2, <2>3, <3>1, NextLeavesRoom
    <2>9. min_valid' \in {0, 128, 2048, 65536}
      BY <2>3, SMTT(20) DEF Utf8Typed
    <2> QED
      BY <2>4, <2>5, <2>7, <2>8, <2>9, SMTT(20) DEF Utf8Typed
  <1>6. ASSUME NEW by \in Octets, Refuse(by) PROVE Utf8Typed'
    <2>1. answer # "threw" /\ answer' = "threw" /\ UNCHANGED <<state, min_valid, u32>>
      BY <1>6 DEF Refuse
    <2>2. octets' \in Seq(Octet) /\ Len(octets') <= 4
      <3>1. CASE octets' = <<by>>
        BY <1>3, <3>1
      <3>2. CASE state > 0 /\ octets' = Append(octets, by)
        <4>1. Len(octets) \in Nat /\ Len(octets) + state <= 4 /\ state \in 0..3
          BY <2>1 DEF Utf8Typed
        <4>2. octets' \in Seq(Octet) /\ Len(octets') = Len(octets) + 1
          BY <1>3, <3>2 DEF Utf8Typed
        <4> QED
          BY <3>2, <4>1, <4>2
      <3> QED
        BY <1>6, <3>1, <3>2 DEF Refuse
    <2> QED
      BY <2>1, <2>2, SMTT(20) DEF Utf8Typed
  <1> QED
    BY <1>1, <1>2, <1>4, <1>5, <1>6 DEF Utf8Next

\* Whatever octets come, the value that is read from them fits in 21 bits (ucs.cxx).
LEMMA Utf8IsTyped == ASSUME Utf8Assumption PROVE Utf8Spec => []Utf8TypeOK
  <1>1. ASSUME Utf8Typed PROVE Utf8TypeOK
    <2>1. octets \in Seq(Octet) /\ Len(octets) <= 4
      BY <1>1, SMTT(20) DEF Utf8Typed
    <2>2. Len(octets) \in 0..4
      <3>1. PICK n \in Nat : n = Len(octets)
        BY <2>1
      <3> QED
        BY <2>1, <3>1
    <2>3. state \in 0..3 /\ LeavesRoom(state, u32)
      BY <1>1, SMTT(20) DEF Utf8Typed
    <2>4. u32 \in Nat /\ u32 < 2097152
      BY <2>3, RoomIsLeft, SMTT(20)
    <2>5. min_valid \in {0, 128, 2048, 65536} /\ answer \in {"more", "scalar", "threw"}
      BY <1>1, SMTT(20) DEF Utf8Typed
    <2>6. octets \in Seq(0..255)
      BY <2>1, SMTT(20) DEF Octet
    <2> QED
      BY <2>2, <2>3, <2>4, <2>5, <2>6, SMTT(20) DEF Utf8TypeOK
  <1> QED
    BY <1>1, Utf8TypedInit, Utf8TypedNext, PTL DEF Utf8Spec

----------------------------------------------------------------------------
(* The pointers of a release build.                                        *)

Ndebug == INSTANCE RptrProofs WITH Debug <- FALSE

\* What MCComponents takes from Rptr is what the proofs are about.
LEMMA ReleaseNext == Release!RptrNext => Ndebug!RptrNext
  <1>1. ASSUME NEW t \in Users, NEW x, NEW q, NEW w
        PROVE  Release!GiveUp(t, x, q, w) => Ndebug!GiveUp(t, x, q, w)
    BY DEF Release!GiveUp, Ndebug!GiveUp, Release!Deletes, Ndebug!Deletes, Release!Dec, Ndebug!Dec
  <1>2. ASSUME NEW t \in Users
        PROVE  /\ Release!DestroyMember(t) => Ndebug!DestroyMember(t)
               /\ Release!AssignEnds(t) => Ndebug!AssignEnds(t)
               /\ Release!ResetEnds(t) => Ndebug!ResetEnds(t)
    <2>1. Release!DestroyMember(t) => Ndebug!DestroyMember(t)
      BY <1>1 DEF Release!DestroyMember, Ndebug!DestroyMember
    <2>2. Release!AssignEnds(t) => Ndebug!AssignEnds(t)
      BY DEF Release!AssignEnds, Ndebug!AssignEnds, Release!Inc, Ndebug!Inc, Release!Emptied, Ndebug!Emptied
    <2>3. Release!ResetEnds(t) => Ndebug!ResetEnds(t)
      BY DEF Release!ResetEnds, Ndebug!ResetEnds, Release!Inc, Ndebug!Inc
    <2> QED
      BY <2>1, <2>2, <2>3
  <1>3. ASSUME NEW t \in Users, NEW x, NEW without
        PROVE  Release!MayUse(t, x, without) => Ndebug!MayUse(t, x, without)
    BY DEF Release!MayUse, Ndebug!MayUse, Release!Quiet, Ndebug!Quiet
  <1>4. ASSUME NEW x PROVE Release!Readable(x) => Ndebug!Readable(x)
    BY DEF Release!Readable, Ndebug!Readable, Release!Usable, Ndebug!Usable
  <1>5. ASSUME NEW t \in Users, NEW x
        PROVE  /\ Release!ConstructNull(t, x) => Ndebug!ConstructNull(t, x)
               /\ Release!DestroyPtr(t, x) => Ndebug!DestroyPtr(t, x)
    <2>1. Release!ConstructNull(t, x) => Ndebug!ConstructNull(t, x)
      BY DEF Release!ConstructNull, Ndebug!ConstructNull, Release!Idle, Ndebug!Idle
    <2>2. Release!DestroyPtr(t, x) => Ndebug!DestroyPtr(t, x)
      BY <1>1, <1>3 DEF Release!DestroyPtr, Ndebug!DestroyPtr, Release!Idle, Ndebug!Idle
    <2> QED
      BY <2>1, <2>2
  <1>6. ASSUME NEW t \in Users, NEW x, NEW o
        PROVE  /\ Release!ConstructNew(t, x, o) => Ndebug!ConstructNew(t, x, o)
               /\ Release!Reset(t, x, o) => Ndebug!Reset(t, x, o)
    <2>1. Release!ConstructNew(t, x, o) => Ndebug!ConstructNew(t, x, o)
      BY DEF Release!ConstructNew, Ndebug!ConstructNew, Release!Idle, Ndebug!Idle, Release!Inc, Ndebug!Inc
    <2>2. Release!Reset(t, x, o) => Ndebug!Reset(t, x, o)
      BY <1>1, <1>3, <1>4 DEF Release!Reset, Ndebug!Reset, Release!Idle, Ndebug!Idle, Release!Quiet,
                              Ndebug!Quiet
    <2> QED
      BY <2>1, <2>2
  <1>7. ASSUME NEW t \in Users, NEW x, NEW y
        PROVE  /\ Release!CopyConstruct(t, x, y) => Ndebug!CopyConstruct(t, x, y)
               /\ Release!MoveConstruct(t, x, y) => Ndebug!MoveConstruct(t, x, y)
               /\ Release!Swap(t, x, y) => Ndebug!Swap(t, x, y)
    <2>1. Release!CopyConstruct(t, x, y) => Ndebug!CopyConstruct(t, x, y)
      BY <1>3, <1>4 DEF Release!CopyConstruct, Ndebug!CopyConstruct, Release!Idle, Ndebug!Idle,
                        Release!Quiet, Ndebug!Quiet, Release!Inc, Ndebug!Inc
    <2>2. Release!MoveConstruct(t, x, y) => Ndebug!MoveConstruct(t, x, y)
      BY <1>3, <1>4 DEF Release!MoveConstruct, Ndebug!MoveConstruct, Release!Idle, Ndebug!Idle,
                        Release!Emptied, Ndebug!Emptied
    <2>3. Release!Swap(t, x, y) => Ndebug!Swap(t, x, y)
      BY <1>3 DEF Release!Swap, Ndebug!Swap, Release!Idle, Ndebug!Idle
    <2> QED
      BY <2>1, <2>2, <2>3
  <1>8. ASSUME NEW t \in Users, NEW x, NEW y, NEW move \in BOOLEAN
        PROVE  Release!Assign(t, x, y, move) => Ndebug!Assign(t, x, y, move)
    BY <1>1, <1>3, <1>4 DEF Release!Assign, Ndebug!Assign, Release!Idle, Ndebug!Idle
  <1> QED
    BY <1>2, <1>5, <1>6, <1>7, <1>8 DEF Release!RptrNext, Ndebug!RptrNext, Release!Rptrs, Ndebug!Rptrs

ReleaseSpec == RptrInit /\ [][Release!RptrNext]_rptrVars

LEMMA ReleaseRuns == ReleaseSpec => Ndebug!RptrSpec
  <1>1. RptrInit => Ndebug!RptrInit
    BY DEF RptrInit, Ndebug!RptrInit, Rptrs, Ndebug!Rptrs
  <1>2. [Release!RptrNext]_rptrVars => [Ndebug!RptrNext]_Ndebug!rptrVars
    BY ReleaseNext DEF rptrVars, Ndebug!rptrVars
  <1> QED
    BY <1>1, <1>2, PTL DEF ReleaseSpec, Ndebug!RptrSpec

LEMMA ReleaseKeeps ==
    ASSUME Careful PROVE ReleaseSpec => [](RptrTypeOK /\ ExistsWhilePointedTo /\ SourceOutlivesTarget)
  <1>0. Ndebug!RptrAssumption
    <2>1. RptrAssumption
      BY PartsAssumption, Zenon DEF PartsAssumption
    <2>2. FALSE \in BOOLEAN /\ Careful \in BOOLEAN
      BY <2>1, Zenon DEF RptrAssumption
    <2>3. /\ IsFiniteSet(Locals) /\ IsFiniteSet(Objects) /\ Locals \cap Objects = {}
          /\ UserOf \in [Locals -> Users]
          /\ \A x \in {Null, MovedFrom, Gone, Loose} : x \notin Locals \cup Objects
          /\ Gone # Null /\ Gone # MovedFrom /\ Gone # Loose
          /\ Loose # Null /\ Loose # MovedFrom
          /\ NoWork \notin Locals \cup Objects
      BY <2>1 DEF RptrAssumption
    <2>4. \A S : IsFiniteSet(S) => Ndebug!IsFiniteSet(S)
      BY DEF IsFiniteSet, Ndebug!IsFiniteSet
    <2> QED
      BY <2>2, <2>3, <2>4, Zenon DEF Ndebug!RptrAssumption
  <1>1. Ndebug!RptrInv => RptrTypeOK
    BY DEF Ndebug!RptrInv, RptrTypeOK, Ndebug!RptrTypeOK, Rptrs, Ndebug!Rptrs, Works, Ndebug!Works
  <1>2. Ndebug!ExistsWhilePointedTo => ExistsWhilePointedTo
    BY DEF ExistsWhilePointedTo, Ndebug!ExistsWhilePointedTo, Pointing, Ndebug!Pointing, Rptrs, Ndebug!Rptrs
  <1>3. Ndebug!SourceOutlivesTarget => SourceOutlivesTarget
    BY DEF SourceOutlivesTarget, Ndebug!SourceOutlivesTarget
  <1> QED
    BY <1>0, <1>1, <1>2, <1>3, ReleaseRuns, Ndebug!RptrInvariant, Ndebug!ExistsWhilePointedToHolds,
       Ndebug!SourceOutlivesTargetHolds, PTL

----------------------------------------------------------------------------
(* The optionals that are assigned from the element they hold.             *)

Self == INSTANCE ContainerProofs WITH
    MaySelf <- TRUE, opt <- opt2, todo <- todo2, acts <- acts2, failing <- failing2,
    meant <- meant2, misused <- misused2

LEMMA OwnStepRuns == Own!StepRuns => Self!StepRuns
  BY DEF Own!StepRuns, Self!StepRuns, Own!Result, Self!Result, Own!Source, Self!Source, Own!Used, Self!Used,
         Own!Misuse, Self!Misuse, Own!Places, Self!Places, Own!None, Self!None

LEMMA OwnNext == Own!OptNext => Self!OptNext
  <1>1. Own!StepThrows => Self!StepThrows
    BY DEF Own!StepThrows, Self!StepThrows, Own!Drop, Self!Drop
  <1>2. ASSUME NEW op, NEW o, NEW q, NEW list, NEW aim
        PROVE  Own!Call(op, o, q, list, aim) = Self!Call(op, o, q, list, aim)
    BY DEF Own!Call, Self!Call
  <1>3. Own!Now = Self!Now
    BY DEF Own!Now, Self!Now
  <1>4. ASSUME NEW o, NEW a PROVE Own!Assigning(o, a) = Self!Assigning(o, a) /\ Own!Drop(o) = Self!Drop(o)
    BY DEF Own!Assigning, Self!Assigning, Own!Drop, Self!Drop, Own!New, Self!New
  <1>5. ASSUME NEW o, NEW a PROVE Own!MoveOver(o, a) = Self!MoveOver(o, a)
    BY <1>4 DEF Own!MoveOver, Self!MoveOver, Own!NewMoved, Self!NewMoved
  <1>6. ASSUME NEW o, NEW q, NEW oHas, NEW qHas
        PROVE  Own!Swapping(o, q, oHas, qHas) = Self!Swapping(o, q, oHas, qHas)
    BY <1>4, <1>5 DEF Own!Swapping, Self!Swapping, Own!NewMoved, Self!NewMoved, Own!Set, Self!Set
  <1>7. ASSUME NEW o, NEW q PROVE Own!CopyAssigning(o, q) = Self!CopyAssigning(o, q)
    BY <1>4, <1>6 DEF Own!CopyAssigning, Self!CopyAssigning, Own!New, Self!New
  <1>8. ASSUME NEW o, NEW val PROVE Own!AssignValue(o, val) => Self!AssignValue(o, val)
    BY <1>2, <1>3, <1>4 DEF Own!AssignValue, Self!AssignValue
  <1>9. ASSUME NEW o
        PROVE  /\ Own!AssignOwnElement(o) => Self!AssignOwnElement(o)
               /\ Own!ResetOptional(o) => Self!ResetOptional(o)
    BY <1>2, <1>3, <1>4 DEF Own!AssignOwnElement, Self!AssignOwnElement, Own!ResetOptional, Self!ResetOptional
  <1>10. ASSUME NEW o, NEW q
         PROVE  /\ Own!CopyAssign(o, q) => Self!CopyAssign(o, q)
                /\ Own!ConvertAssign(o, q) => Self!ConvertAssign(o, q)
                /\ Own!MoveConstructOptional(o, q) => Self!MoveConstructOptional(o, q)
                /\ Own!SwapOptionals(o, q) => Self!SwapOptionals(o, q)
    BY <1>2, <1>3, <1>4, <1>5, <1>6, <1>7
       DEF Own!CopyAssign, Self!CopyAssign, Own!ConvertAssign, Self!ConvertAssign,
           Own!MoveConstructOptional, Self!MoveConstructOptional, Own!SwapOptionals, Self!SwapOptionals
  <1> QED
    BY <1>1, <1>8, <1>9, <1>10, OwnStepRuns DEF Own!OptNext, Self!OptNext

LEMMA OwnRuns == Own!OptSpec => Self!OptSpec
  <1>1. Own!OptInit => Self!OptInit
    BY DEF Own!OptInit, Self!OptInit, Own!Places, Self!Places, Own!None, Self!None
  <1>2. [Own!OptNext]_Own!optVars => [Self!OptNext]_Self!optVars
    BY OwnNext DEF Own!optVars, Self!optVars
  <1> QED
    BY <1>1, <1>2, PTL DEF Own!OptSpec, Self!OptSpec

LEMMA OwnIsTyped == Own!OptSpec => []Own!OptTypeOK
  <1>0. Self!OptionalAssumption
    BY PartsAssumption DEF PartsAssumption, OptionalAssumption, Self!OptionalAssumption
  <1>1. Self!OptTypeOK => Own!OptTypeOK
    BY DEF Own!OptTypeOK, Self!OptTypeOK, Own!Places, Self!Places, Own!Held, Self!Held
  <1>2. Self!ElementsAssumption
    BY ElementsAssumption DEF Self!ElementsAssumption
  <1>3. Self!OptSpec => []Self!OptTypeOK
    BY <1>0, <1>2, Self!OptIsTyped
  <1> QED
    BY <1>1, <1>3, OwnRuns, PTL

----------------------------------------------------------------------------
(* The parts, one of which a behaviour of MCComponents chooses.            *)

LEMMA PartsRun == PartsSpec => PartsInit /\ [][PartsNext]_partsVars
  BY PTL DEF PartsSpec

\* A step of the part chosen is one of its component, and leaves all others alone.
LEMMA PartsStep ==
    ASSUME [PartsNext]_partsVars
    PROVE  /\ [Next]_vars /\ [PermNext]_permVars /\ [OptNext]_optVars /\ [Own!OptNext]_ownOptVars
           /\ [Utf8Next]_utf8Vars /\ [WatchNext]_watchVars /\ [HostNext]_hostVars /\ [AffinityNext]_affinityVars
           /\ UNCHANGED part
           /\ part = "rptrRelease" => [Release!RptrNext]_rptrVars
           /\ part # "rptrRelease" => [RptrNext]_rptrVars
  <1>1. CASE VectorRuns
    BY <1>1 DEF VectorRuns, serviceVars
  <1>2. CASE CarelessRuns
    BY <1>2 DEF CarelessRuns, serviceVars
  <1>3. CASE RptrRuns
    BY <1>3 DEF RptrRuns, serviceVars
  <1>4. CASE PermRuns
    BY <1>4 DEF PermRuns, serviceVars
  <1>5. CASE OptRuns
    BY <1>5 DEF OptRuns, serviceVars
  <1>6. CASE Utf8Runs
    BY <1>6 DEF Utf8Runs, serviceVars
  <1>7. CASE WatchRuns
    BY <1>7 DEF WatchRuns, containerVars
  <1>8. CASE HostRuns
    BY <1>8 DEF HostRuns, containerVars
  <1>9. CASE AffinityRuns
    BY <1>9 DEF AffinityRuns, containerVars
  <1>10. CASE UNCHANGED partsVars
    BY <1>10 DEF partsVars, containerVars, serviceVars
  <1> QED
    BY <1>1, <1>2, <1>3, <1>4, <1>5, <1>6, <1>7, <1>8, <1>9, <1>10 DEF PartsNext, Finished

\* Whatever is chosen, a behaviour of MCComponents is one of each component.
LEMMA PartsAreContainers == PartsSpec => Spec /\ PermSpec /\ OptSpec /\ Own!OptSpec /\ Utf8Spec
  <1>1. PartsInit => Init /\ PermInit /\ OptInit /\ Own!OptInit /\ Utf8Init
    BY DEF PartsInit
  <1>2. [PartsNext]_partsVars
        => /\ [Next]_vars /\ [PermNext]_permVars /\ [Utf8Next]_utf8Vars
           /\ [OptNext]_optVars /\ [Own!OptNext]_Own!optVars
    BY PartsStep DEF ownOptVars, Own!optVars
  <1> QED
    BY <1>1, <1>2, PartsRun, PTL DEF Spec, PermSpec, OptSpec, Own!OptSpec, Utf8Spec

LEMMA PartsAreServices == PartsSpec => WatchSpec /\ HostSpec /\ AffinitySpec
  <1>1. PartsInit => WatchInit /\ HostInit /\ AffinityInit
    BY DEF PartsInit
  <1>2. [PartsNext]_partsVars => [WatchNext]_watchVars /\ [HostNext]_hostVars /\ [AffinityNext]_affinityVars
    BY PartsStep
  <1> QED
    BY <1>1, <1>2, PartsRun, PTL DEF WatchSpec, HostSpec, AffinitySpec

OfRelease == part = "rptrRelease"

\* It is one of pointers in the build that is chosen for all of it.
LEMMA PartsAreRptr == PartsSpec => RptrSpec \/ ReleaseSpec
  <1>1. PartsInit => RptrInit
    BY DEF PartsInit
  <1>2. [PartsNext]_partsVars /\ OfRelease => OfRelease' /\ [Release!RptrNext]_rptrVars
    BY PartsStep DEF OfRelease
  <1>3. [PartsNext]_partsVars /\ ~OfRelease => ~OfRelease' /\ [RptrNext]_rptrVars
    BY PartsStep DEF OfRelease
  <1> QED
    BY <1>1, <1>2, <1>3, PartsRun, PTL DEF RptrSpec, ReleaseSpec

LEMMA RptrPartKeeps ==
    ASSUME Careful PROVE PartsSpec => [](RptrTypeOK /\ ExistsWhilePointedTo /\ SourceOutlivesTarget)
  <1>1. RptrAssumption
    BY PartsAssumption DEF PartsAssumption
  <1>2. RptrInv => RptrTypeOK
    BY DEF RptrInv
  <1> QED
    BY <1>1, <1>2, PartsAreRptr, ReleaseKeeps, RptrInvariant, ExistsWhilePointedToHolds,
       SourceOutlivesTargetHolds, PTL

\* Every variable of a vector, a pointer, a permutation, an optional, a validator of UTF-8, a stopwatch,
\* of host_info and of set_cpu_affinity keeps its range, in each build and way of use that
\* MCComponents chooses from, if the user of the vectors avoids the pitfalls and the one of the
\* pointers is careful.
THEOREM PartsTyped == ASSUME Avoided = Pitfalls, Careful PROVE PartsSpec => []PartsTypeOK
  <1>1. /\ CarefulUser /\ PermutationAssumption /\ OptionalAssumption /\ Utf8Assumption
        /\ StopwatchAssumption /\ HostInfoAssumption /\ AffinityAssumption
    BY PartsAssumption DEF PartsAssumption, CarefulUser
  <1>2. /\ TypeOK /\ RptrTypeOK /\ PermTypeOK /\ OptTypeOK /\ Own!OptTypeOK /\ Utf8TypeOK
        /\ WatchTypeOK /\ HostTypeOK /\ AffinityTypeOK
        => PartsTypeOK
    BY DEF PartsTypeOK
  <1>3. PartsSpec => [](TypeOK /\ PermTypeOK /\ OptTypeOK /\ Own!OptTypeOK /\ Utf8TypeOK)
    BY <1>1, ElementsAssumption, PartsAreContainers, VectorTypes, PermIsTyped, OptIsTyped, OwnIsTyped,
       Utf8IsTyped, PTL
  <1>4. PartsSpec => [](WatchTypeOK /\ HostTypeOK /\ AffinityTypeOK)
    BY <1>1, PartsAreServices, WatchIsTyped, HostIsTyped, AffinityIsTyped, PTL
  <1> QED
    BY <1>2, <1>3, <1>4, RptrPartKeeps, PTL

\* All invariants that the run of MCComponents checks on its instance hold of the very specification
\* it checks, for any elements, sizes, users, optionals, scalar values, clocks and cpus: memory holds
\* what it should, no pointer dangles, permutations stay mutually inverse, and the services
\* answer as they promise.
THEOREM PartsKeepInvariants ==
    ASSUME Avoided = Pitfalls, Careful, MaySelf = FALSE, ClockStart <= Earliest
    PROVE  PartsSpec => [](/\ SlotsHoldElements /\ NoFaults /\ OutcomeAsPromised
                           /\ ExistsWhilePointedTo /\ SourceOutlivesTarget
                           /\ MutuallyInverse /\ RotateRotates
                           /\ NeverMisused /\ OutcomeAsMeant /\ AcceptsWhatIsWritten
                           /\ TimeAddsUp /\ AnswersAreRecent /\ SpreadsOut /\ AnyIndexBinds)
  <1>1. /\ CarefulUser /\ PermutationAssumption /\ OptionalAssumption /\ Utf8Assumption
        /\ StopwatchAssumption /\ HostInfoAssumption /\ AffinityAssumption
    BY PartsAssumption DEF PartsAssumption, CarefulUser
  <1>2. PartsSpec => [](SlotsHoldElements /\ NoFaults /\ OutcomeAsPromised)
    BY <1>1, ElementsAssumption, PartsAreContainers, SlotsBelowSize, NothingLost, CallsKeepPromises, PTL
  <1>3. PartsSpec => [](MutuallyInverse /\ RotateRotates)
    BY <1>1, PartsAreContainers, MutuallyInverseHolds, RotateRotatesHolds, PTL
  <1>4. PartsSpec => [](NeverMisused /\ OutcomeAsMeant /\ AcceptsWhatIsWritten)
    BY <1>1, PartsAreContainers, OptionalNeverMisused, OptionalOutcomeAsMeant, Utf8AcceptsWhatIsWritten, PTL
  <1>5. PartsSpec => [](TimeAddsUp /\ AnswersAreRecent /\ SpreadsOut /\ AnyIndexBinds)
    BY <1>1, PartsAreServices, StopwatchAddsUp, HostInfoAnswersAreRecent, AffinitySpreadsOut,
       AffinityAnyIndexBinds, PTL
  <1> QED
    BY <1>2, <1>3, <1>4, <1>5, RptrPartKeeps, PTL

=============================================================================
