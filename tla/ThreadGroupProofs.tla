------------------------- MODULE ThreadGroupProofs -------------------------
(***************************************************************************)
(* Proofs about ThreadGroup, for any number of clients, threads and cpus   *)
(* and any width of the counters that exceeds the number of threads.       *)
(***************************************************************************)
EXTENDS ThreadGroup, FiniteSetTheorems, TLAPS

USE DEF Ids

\* A counter stays in range whatever is added or subtracted.
LEMMA WrapType == \A n \in Int : Wrap(n) \in 0..(SizeMod - 1)
  BY GroupAssumption, SMT DEF Wrap

\* A count in range is not changed by the modulus.
LEMMA WrapSmall == \A n \in 0..(SizeMod - 1) : Wrap(n) = n
  BY GroupAssumption, SMT DEF Wrap

\* Sets of entries are finite and smaller than the counters' modulus.
LEMMA EntrySet ==
  ASSUME NEW S \in SUBSET Ids
  PROVE  /\ IsFiniteSet(S)
         /\ Cardinality(S) \in 0..MaxThreads
         /\ Cardinality(S) \in 0..(SizeMod - 1)
<1>1. IsFiniteSet(Ids) /\ Cardinality(Ids) = MaxThreads
  BY FS_Interval, GroupAssumption
<1>2. IsFiniteSet(S) /\ Cardinality(S) <= MaxThreads
  BY <1>1, FS_Subset
<1>3. Cardinality(S) \in Nat
  BY <1>2, FS_CardinalityType
<1>4. QED
  BY <1>2, <1>3, GroupAssumption

\* The counts per cpu fit their type.
LEMMA CpuThreadCntsType ==
  ASSUME TypeOK
  PROVE  CpuThreadCnts \in [0..(online - 1) -> 0..(SizeMod - 1)]
<1>1. \A k \in 0..(online - 1) :
         Cardinality({t \in Remaining : cpu[t] = k}) \in 0..(SizeMod - 1)
  <2>1. TAKE k \in 0..(online - 1)
  <2>2. {t \in Remaining : cpu[t] = k} \in SUBSET Ids
    BY DEF TypeOK, Remaining
  <2>3. QED
    BY <2>2, EntrySet
<1>2. QED
  BY <1>1 DEF CpuThreadCnts

\* The sets of entries the actions use.
LEMMA EntryCounts ==
  ASSUME TypeOK
  PROVE  /\ Cardinality(NotYetJoined) \in 0..(SizeMod - 1)
         /\ Cardinality(Remaining) \in 0..(SizeMod - 1)
         /\ Cardinality(Stranded) \in 0..(SizeMod - 1)
         /\ Stranded \subseteq Ids
<1>1. /\ NotYetJoined \in SUBSET Ids
      /\ Remaining \in SUBSET Ids
      /\ Stranded \in SUBSET Ids
  BY DEF TypeOK, NotYetJoined, Remaining, Stranded, Stoppable
<1>2. QED
  BY <1>1, EntrySet

\* What the actions compute from the counters stays in range.
LEMMA CounterSteps ==
  ASSUME TypeOK
  PROVE  /\ \A extra \in {0, 1} :
              /\ Wrap(requested - Cardinality(Stranded) + extra) \in 0..(SizeMod - 1)
              /\ Wrap(Cardinality(NotYetJoined) + extra) \in 0..(SizeMod - 1)
         /\ Wrap(requested - Cardinality(Stranded)) \in 0..(SizeMod - 1)
         /\ Wrap(requested - 1) \in 0..(SizeMod - 1)
         /\ Wrap(nyj - 1) \in 0..(SizeMod - 1)
         /\ Wrap(requested - target) \in 0..(SizeMod - 1)
<1>1. /\ requested \in Int /\ nyj \in Int /\ target \in Int
  BY GroupAssumption DEF TypeOK
<1>2. Cardinality(Stranded) \in Int /\ Cardinality(NotYetJoined) \in Int
  BY EntryCounts, GroupAssumption
<1>3. \A extra \in {0, 1} :
         /\ requested - Cardinality(Stranded) + extra \in Int
         /\ Cardinality(NotYetJoined) + extra \in Int
  BY <1>1, <1>2
<1>4. /\ requested - Cardinality(Stranded) \in Int /\ requested - 1 \in Int
      /\ nyj - 1 \in Int /\ requested - target \in Int
  BY <1>1, <1>2
<1>5. QED
  BY <1>3, <1>4, WrapType

LEMMA TypeInit == Init => TypeOK
<1> SUFFICES ASSUME Init PROVE TypeOK
  OBVIOUS
<1>1. busy \in [0..(0 - 1) -> 0..(SizeMod - 1)]
  BY DEF Init, NoCnts
<1>2. \E n \in 0..MaxCpus : busy \in [0..(n - 1) -> 0..(SizeMod - 1)]
  <2>1. 0 \in 0..MaxCpus
    BY GroupAssumption
  <2>2. WITNESS 0 \in 0..MaxCpus
  <2>3. QED
    BY <1>1
<1>3. /\ state \in [Ids -> ThreadStates] /\ run \in [Ids -> RunStates]
      /\ cpu \in [Ids -> Nat] /\ stopFn \in [Ids -> BOOLEAN]
  BY DEF Init, ThreadStates, RunStates
<1>4. pc \in [Clients -> Pcs] /\ joinee \in [Clients -> 0..MaxThreads]
  BY GroupAssumption DEF Init, Pcs, Idle
<1>5. /\ target \in 0..(SizeMod - 1) /\ requested \in 0..(SizeMod - 1)
      /\ nyj \in 0..(SizeMod - 1) /\ todo \in 0..(SizeMod - 1)
      /\ created \in 0..MaxThreads /\ online \in 1..MaxCpus
  BY GroupAssumption DEF Init
<1>6. mut \in Clients \cup {NoOne} /\ infos \subseteq Ids /\ asked \subseteq Ids
  BY DEF Init
<1>7. QED
  BY <1>2, <1>3, <1>4, <1>5, <1>6 DEF TypeOK
----------------------------------------------------------------------------

LEMMA FigureType ==
  ASSUME TypeOK, NEW extra \in {0, 1}, FigureAndCount(extra)
  PROVE  /\ requested' \in 0..(SizeMod - 1) /\ nyj' \in 0..(SizeMod - 1)
         /\ asked' \subseteq Ids
<1>1. /\ requested' = Wrap(requested - Cardinality(Stranded) + extra)
      /\ nyj' = Wrap(Cardinality(NotYetJoined) + extra)
      /\ asked' = asked \cup Stranded
  BY DEF FigureAndCount
<1>2. asked \subseteq Ids
  BY DEF TypeOK
<1>3. QED
  BY <1>1, <1>2, CounterSteps, EntryCounts

LEMMA UnlockType ==
  ASSUME NEW c \in Clients, Unlock(c)
  PROVE  /\ mut' \in Clients \cup {NoOne} /\ todo' \in 0..(SizeMod - 1)
         /\ \E n \in 0..MaxCpus : busy' \in [0..(n - 1) -> 0..(SizeMod - 1)]
<1>1. busy' \in [0..(0 - 1) -> 0..(SizeMod - 1)]
  BY DEF Unlock, NoCnts
<1>2. 0 \in 0..MaxCpus /\ 0 \in 0..(SizeMod - 1)
  BY GroupAssumption
<1>3. \E n \in 0..MaxCpus : busy' \in [0..(n - 1) -> 0..(SizeMod - 1)]
  <2>1. 0 \in 0..MaxCpus
    BY <1>2
  <2>2. WITNESS 0 \in 0..MaxCpus
  <2>3. QED
    BY <1>1
<1>4. QED
  BY <1>2, <1>3 DEF Unlock

LEMMA BeginStopType ==
  ASSUME TypeOK, NEW c \in Clients, NEW n \in 0..(SizeMod - 1), NEW label \in Pcs,
         BeginStop(c, n, label)
  PROVE  /\ requested' \in 0..(SizeMod - 1) /\ nyj' \in 0..(SizeMod - 1)
         /\ infos' \subseteq Ids /\ asked' \subseteq Ids
         /\ todo' \in 0..(SizeMod - 1) /\ pc' \in [Clients -> Pcs]
         /\ \E m \in 0..MaxCpus : busy' \in [0..(m - 1) -> 0..(SizeMod - 1)]
<1>1. /\ requested' = Wrap(requested - Cardinality(Stranded))
      /\ nyj' = Cardinality(NotYetJoined) /\ infos' = Remaining
      /\ asked' = asked \cup Stranded
      /\ todo' = n /\ busy' = CpuThreadCnts
      /\ pc' = [pc EXCEPT ![c] = label]
  BY DEF BeginStop, CleanOut, Goto
<1>2. /\ asked \subseteq Ids /\ Remaining \subseteq Ids /\ pc \in [Clients -> Pcs]
  BY DEF TypeOK, Remaining
<1>3. online \in 0..MaxCpus
  BY GroupAssumption DEF TypeOK
<1>4. busy' \in [0..(online - 1) -> 0..(SizeMod - 1)]
  BY <1>1, CpuThreadCntsType
<1>5. QED
  BY <1>1, <1>2, <1>3, <1>4, CounterSteps, EntryCounts

\* The type invariant is inductive by itself.
LEMMA TypeNext == TypeOK /\ [Next]_vars => TypeOK'
<1> SUFFICES ASSUME TypeOK, [Next]_vars PROVE TypeOK'
  OBVIOUS
<1>1. ASSUME NEW c \in Clients, NEW n \in Targets, SetTarget(c, n) PROVE TypeOK'
  BY <1>1, GroupAssumption
     DEF SetTarget, Goto, Pcs, counts, entries, workers, locals, TypeOK
<1>2. ASSUME NEW c \in Clients, NEW b \in BOOLEAN, StartSomeNewThread(c, b) PROVE TypeOK'
  <2>1. /\ requested' \in 0..(SizeMod - 1) /\ nyj' \in 0..(SizeMod - 1)
        /\ asked' \subseteq Ids
    <3>1. FigureAndCount(1)
      BY <1>2 DEF StartSomeNewThread
    <3>2. QED
      BY <3>1, FigureType
  <2>2. created' \in Ids /\ infos' \subseteq Ids /\ created' \in 0..MaxThreads
    <3>1. created' = created + 1 /\ created < MaxThreads /\ created \in 0..MaxThreads
      BY <1>2 DEF StartSomeNewThread, TypeOK
    <3>2. created' \in Ids /\ created' \in 0..MaxThreads
      BY <3>1, GroupAssumption
    <3>3. infos' = Remaining \cup {created'} /\ Remaining \subseteq Ids
      BY <1>2 DEF StartSomeNewThread, Remaining, TypeOK
    <3>4. QED
      BY <3>2, <3>3
  <2>3. cpu' \in [Ids -> Nat]
    <3>1. PICK k \in 0..(online - 1) : cpu' = [cpu EXCEPT ![created'] = k]
      BY <1>2 DEF StartSomeNewThread
    <3>2. k \in Nat /\ cpu \in [Ids -> Nat]
      BY DEF TypeOK
    <3>3. QED
      BY <3>1, <3>2
  <2>4. state' \in [Ids -> ThreadStates] /\ run' \in [Ids -> RunStates]
    BY <1>2 DEF StartSomeNewThread, ThreadStates, RunStates, TypeOK
  <2>5. pc' \in [Clients -> Pcs]
    BY <1>2 DEF StartSomeNewThread, Goto, Pcs, Idle, TypeOK
  <2>6. UNCHANGED <<target, mut, stopFn, joinee, todo, busy, online>>
    BY <1>2 DEF StartSomeNewThread, locals
  <2>7. QED
    BY <2>1, <2>2, <2>3, <2>4, <2>5, <2>6 DEF TypeOK
<1>3. ASSUME NEW c \in Clients, StartRunsOutOfMemory(c) PROVE TypeOK'
  <2>1. /\ requested' \in 0..(SizeMod - 1) /\ nyj' \in 0..(SizeMod - 1)
        /\ asked' \subseteq Ids
    <3>1. FigureAndCount(0)
      BY <1>3 DEF StartRunsOutOfMemory
    <3>2. QED
      BY <3>1, FigureType
  <2>2. infos' \subseteq Ids /\ pc' \in [Clients -> Pcs]
    BY <1>3 DEF StartRunsOutOfMemory, Goto, Pcs, Idle, Remaining, TypeOK
  <2>3. UNCHANGED <<target, mut, created, cpu, state, stopFn, run, joinee, todo, busy, online>>
    BY <1>3 DEF StartRunsOutOfMemory, workers, locals
  <2>4. QED
    BY <2>1, <2>2, <2>3 DEF TypeOK
<1>4. ASSUME NEW c \in Clients, NothingToStart(c) PROVE TypeOK'
  BY <1>4 DEF NothingToStart, Lock, Goto, Pcs, HoldPcs, counts, entries, workers, locals, TypeOK
<1>5. ASSUME NEW c \in Clients, CompareToStop(c) PROVE TypeOK'
  BY <1>5 DEF CompareToStop, Goto, Pcs, HoldPcs, counts, entries, workers, locals, TypeOK
<1>6. ASSUME NEW c \in Clients, StartOrStopReturns(c) PROVE TypeOK'
  <2>1. Unlock(c)
    BY <1>6 DEF StartOrStopReturns
  <2>2. pc' \in [Clients -> Pcs]
    BY <1>6 DEF StartOrStopReturns, Goto, Pcs, Idle, TypeOK
  <2>3. UNCHANGED <<target, requested, nyj, infos, created, cpu, state, stopFn, run, asked,
                    joinee, online>>
    BY <1>6 DEF StartOrStopReturns, counts, entries, workers
  <2>4. QED
    BY <2>1, <2>2, <2>3, UnlockType DEF TypeOK
<1>7. ASSUME NEW c \in Clients, ReadCountToStop(c) PROVE TypeOK'
  <2>1. BeginStop(c, Wrap(requested - target), "stop")
    BY <1>7 DEF ReadCountToStop
  <2>2. "stop" \in Pcs
    BY DEF Pcs, HoldPcs, StopPcs
  <2>3. UNCHANGED <<target, mut, created, cpu, state, stopFn, run, joinee, online>>
    BY <1>7 DEF ReadCountToStop, workers
  <2>4. QED
    BY <2>1, <2>2, <2>3, CounterSteps, BeginStopType DEF TypeOK
<1>8. ASSUME NEW c \in Clients, StopOne(c) PROVE TypeOK'
  <2>1. PICK t \in infos :
          /\ StopSpecificThread(t)
          /\ busy' = [k \in DOMAIN busy |->
                        IF k = cpu[t] THEN Wrap(busy[k] - 1) ELSE busy[k]]
    BY <1>8 DEF StopOne
  <2>2. requested' \in 0..(SizeMod - 1) /\ asked' \subseteq Ids /\ state' = state
    BY <2>1, CounterSteps DEF StopSpecificThread, TypeOK
  <2>3. \E n \in 0..MaxCpus : busy' \in [0..(n - 1) -> 0..(SizeMod - 1)]
    <3>1. PICK n \in 0..MaxCpus : busy \in [0..(n - 1) -> 0..(SizeMod - 1)]
      BY DEF TypeOK
    <3>2. \A k \in 0..(n - 1) : busy[k] - 1 \in Int
      BY <3>1, GroupAssumption
    <3>3. busy' \in [0..(n - 1) -> 0..(SizeMod - 1)]
      BY <2>1, <3>1, <3>2, WrapType
    <3>4. QED
      BY <3>3
  <2>4. todo' \in 0..(SizeMod - 1)
    BY <1>8, GroupAssumption DEF StopOne, TypeOK
  <2>5. UNCHANGED <<target, nyj, mut, infos, created, cpu, stopFn, run, pc, joinee, online>>
    BY <1>8 DEF StopOne, entries
  <2>6. QED
    BY <2>2, <2>3, <2>4, <2>5 DEF TypeOK
<1>9. ASSUME NEW c \in Clients, StopEnds(c) PROVE TypeOK'
  <2>1. Unlock(c)
    BY <1>9 DEF StopEnds
  <2>2. pc' \in [Clients -> Pcs]
    BY <1>9 DEF StopEnds, Goto, Pcs, TypeOK
  <2>3. UNCHANGED <<target, requested, nyj, infos, created, cpu, state, stopFn, run, asked,
                    joinee, online>>
    BY <1>9 DEF StopEnds, counts, entries, workers
  <2>4. QED
    BY <2>1, <2>2, <2>3, UnlockType DEF TypeOK
<1>10. ASSUME NEW c \in Clients, CallJoin(c) PROVE TypeOK'
  BY <1>10 DEF CallJoin, Goto, Pcs, counts, entries, workers, locals, TypeOK
<1>11. ASSUME NEW c \in Clients, JoinClearsTarget(c) PROVE TypeOK'
  <2>1. target' \in 0..(SizeMod - 1)
    BY <1>11, GroupAssumption DEF JoinClearsTarget
  <2>2. pc' \in [Clients -> Pcs]
    BY <1>11 DEF JoinClearsTarget, Goto, Pcs, TypeOK
  <2>3. QED
    BY <1>11, <2>1, <2>2 DEF JoinClearsTarget, counts, entries, workers, locals, TypeOK
<1>12. ASSUME NEW c \in Clients, JoinReturnsTrue(c) PROVE TypeOK'
  <2>1. infos' \subseteq Ids /\ nyj' \in 0..(SizeMod - 1)
    BY <1>12, EntryCounts DEF JoinReturnsTrue, CleanOut, Remaining, TypeOK
  <2>2. QED
    BY <1>12, <2>1 DEF JoinReturnsTrue, Goto, Pcs, Idle, workers, locals, TypeOK
<1>13. ASSUME NEW c \in Clients, JoinStopsSome(c) PROVE TypeOK'
  <2>1. BeginStop(c, Cardinality(Remaining), "join_stop") /\ mut' = c
    BY <1>13 DEF JoinStopsSome, Lock
  <2>2. "join_stop" \in Pcs
    BY DEF Pcs, HoldPcs, StopPcs
  <2>3. UNCHANGED <<target, created, cpu, state, stopFn, run, joinee, online>>
    BY <1>13 DEF JoinStopsSome, workers
  <2>4. QED
    BY <2>1, <2>2, <2>3, EntryCounts, BeginStopType DEF TypeOK
<1>14. ASSUME NEW c \in Clients,
              JoinTimesOut(c) \/ JoinKeepsWaiting(c) \/ JoinFindsNone(c) \/ JoinWaits(c)
       PROVE  TypeOK'
  BY <1>14 DEF JoinTimesOut, JoinKeepsWaiting, JoinFindsNone, JoinWaits, Goto, Pcs, Idle,
               counts, entries, workers, locals, TypeOK
<1>15. ASSUME NEW c \in Clients, JoinClaims(c) PROVE TypeOK'
  <2>1. PICK t \in infos : /\ joinee' = [joinee EXCEPT ![c] = t]
                           /\ state' = [state EXCEPT ![t] = "joining"]
    BY <1>15 DEF JoinClaims, Claim, Exiting
  <2>2. t \in Ids /\ t \in 0..MaxThreads
    BY GroupAssumption DEF TypeOK
  <2>3. joinee' \in [Clients -> 0..MaxThreads] /\ state' \in [Ids -> ThreadStates]
    BY <2>1, <2>2 DEF TypeOK, ThreadStates
  <2>4. QED
    BY <1>15, <2>3 DEF JoinClaims, Goto, Pcs, counts, entries, locals, TypeOK
<1>16. ASSUME NEW c \in Clients, JoinThrows(c) PROVE TypeOK'
  <2>1. joinee' \in [Clients -> 0..MaxThreads]
    BY <1>16, GroupAssumption DEF JoinThrows, TypeOK
  <2>2. pc' \in [Clients -> Pcs]
    BY <1>16 DEF JoinThrows, Goto, Pcs, Idle, TypeOK
  <2>3. QED
    BY <1>16, <2>1, <2>2 DEF JoinThrows, counts, entries, workers, locals, TypeOK
<1>17. ASSUME NEW c \in Clients, JoinMarks(c) PROVE TypeOK'
  <2>1. nyj' \in 0..(SizeMod - 1)
    BY <1>17, CounterSteps DEF JoinMarks, MarkJoined
  <2>2. state' \in [Ids -> ThreadStates]
    BY <1>17 DEF JoinMarks, MarkJoined, ThreadStates, TypeOK
  <2>3. joinee' \in [Clients -> 0..MaxThreads]
    BY <1>17, GroupAssumption DEF JoinMarks, TypeOK
  <2>4. pc' \in [Clients -> Pcs]
    BY <1>17 DEF JoinMarks, Goto, Pcs, TypeOK
  <2>5. QED
    BY <1>17, <2>1, <2>2, <2>3, <2>4 DEF JoinMarks, entries, locals, TypeOK
<1>18. ASSUME NEW t \in Ids, Worker(t) PROVE TypeOK'
  BY <1>18 DEF Worker, WorkerStarts, ProvideStopFn, ProvideFails, Offer, FnReturns, FnThrows, WorkerExits,
               WorkerIsGone, ThreadStates, RunStates, counts, entries, locals, TypeOK
<1>19. CASE CpusChange
  BY <1>19 DEF CpusChange, counts, entries, workers, locals, TypeOK
<1>20. CASE UNCHANGED vars
  BY <1>20 DEF vars, TypeOK
<1>21. ASSUME NEW c \in Clients, StopFnThrows(c) PROVE TypeOK'
  <2>1. Unlock(c) /\ asked' \subseteq Ids
    BY <1>21 DEF StopFnThrows, TypeOK
  <2>2. pc' \in [Clients -> Pcs]
    BY <1>21 DEF StopFnThrows, Goto, Pcs, Idle, TypeOK
  <2>3. UNCHANGED <<target, requested, nyj, infos, created, cpu, state, stopFn, run,
                    joinee, online>>
    BY <1>21 DEF StopFnThrows, counts, entries, workers
  <2>4. QED
    BY <2>1, <2>2, <2>3, UnlockType DEF TypeOK
<1>22. ASSUME NEW c \in Clients, StrandedStopThrows(c) PROVE TypeOK'
  <2>1. PICK t \in Stranded :
          /\ requested' = Wrap(requested - Cardinality({u \in Stranded : u < t}))
          /\ asked' = asked \cup {u \in Stranded : u < t} \cup {t}
    BY <1>22 DEF StrandedStopThrows
  <2>2. {u \in Stranded : u < t} \in SUBSET Ids /\ t \in Ids
    BY DEF Stranded, Stoppable, TypeOK
  <2>3. requested' \in 0..(SizeMod - 1)
    <3>1. Cardinality({u \in Stranded : u < t}) \in Nat
      BY <2>2, EntrySet
    <3>2. requested - Cardinality({u \in Stranded : u < t}) \in Int
      BY <3>1 DEF TypeOK
    <3>3. QED
      BY <2>1, <3>2, WrapType
  <2>4. asked' \subseteq Ids
    BY <2>1, <2>2 DEF TypeOK
  <2>5. infos' \subseteq Ids /\ nyj' \in 0..(SizeMod - 1)
    BY <1>22, EntryCounts DEF StrandedStopThrows, CleanOut, Remaining, TypeOK
  <2>6. QED
    BY <1>22, <2>3, <2>4, <2>5 DEF StrandedStopThrows, Goto, Pcs, Idle, workers, locals, TypeOK
<1>23. ASSUME NEW c \in Clients, FigureThrows(c) PROVE TypeOK'
  <2>1. infos' \subseteq Ids /\ nyj' \in 0..(SizeMod - 1)
    BY <1>23, EntryCounts DEF FigureThrows, CleanOut, Remaining, TypeOK
  <2>2. QED
    BY <1>23, <2>1 DEF FigureThrows, Goto, Pcs, Idle, workers, locals, TypeOK
<1>24. QED
  BY <1>1, <1>2, <1>3, <1>4, <1>5, <1>6, <1>7, <1>8, <1>9, <1>10, <1>11, <1>12, <1>13,
     <1>14, <1>15, <1>16, <1>17, <1>18, <1>19, <1>20, <1>21, <1>22, <1>23
     DEF Next, Client, Advance

\* Every variable keeps its type; in particular no counter leaves std::size_t
\* whatever is added to it or subtracted from it.
THEOREM TypeCorrect == Spec => []TypeOK
  BY TypeInit, TypeNext, PTL DEF Spec

----------------------------------------------------------------------------
(* The invariant that ties entries, threads and joiners together.          *)

ThreadInv == StateTellsRun /\ EntriesAccounted /\ JoineeHeld /\ OneJoinerPerThread

Waiting == {"join_wait", "join_mark"}

\* What most steps do to the entries: nothing, or a clean-out.
Quiet ==
    /\ UNCHANGED <<state, run, stopFn, created, joinee>>
    /\ infos' \in {infos, Remaining}
    /\ nyj' \in {nyj, Cardinality(NotYetJoined)}
    /\ \A c \in Clients : pc'[c] # pc[c] => pc'[c] \notin Waiting /\ pc[c] \notin Waiting

\* The steps of a client that are quiet.
QuietStep(c) ==
    \/ \E n \in Targets : SetTarget(c, n)
    \/ StartRunsOutOfMemory(c)
    \/ NothingToStart(c) \/ CompareToStop(c) \/ StartOrStopReturns(c)
    \/ ReadCountToStop(c) \/ StopOne(c) \/ StopEnds(c)
    \/ StopFnThrows(c) \/ StrandedStopThrows(c) \/ FigureThrows(c)
    \/ CallJoin(c) \/ JoinClearsTarget(c) \/ JoinReturnsTrue(c) \/ JoinStopsSome(c)
    \/ JoinTimesOut(c) \/ JoinKeepsWaiting(c) \/ JoinFindsNone(c)

LEMMA QuietSteps ==
  ASSUME TypeOK
  PROVE  /\ \A c \in Clients : QuietStep(c) => Quiet
         /\ CpusChange => Quiet
         /\ UNCHANGED vars => Quiet
<1> USE DEF Quiet, Waiting, Goto, counts, entries, workers, locals
<1>0. pc \in [Clients -> Pcs]
  BY DEF TypeOK
<1>1. ASSUME NEW c \in Clients, NEW n \in Targets, SetTarget(c, n) PROVE Quiet
  BY <1>0, <1>1 DEF SetTarget, Idle
<1>2. ASSUME NEW c \in Clients, StartRunsOutOfMemory(c) PROVE Quiet
  <2>1. nyj' = Cardinality(NotYetJoined)
    <3>1. nyj' = Wrap(Cardinality(NotYetJoined) + 0)
      BY <1>2 DEF StartRunsOutOfMemory, FigureAndCount
    <3>2. Cardinality(NotYetJoined) + 0 = Cardinality(NotYetJoined)
      BY EntryCounts, GroupAssumption
    <3>3. QED
      BY <3>1, <3>2, EntryCounts, WrapSmall
  <2>2. QED
    BY <1>0, <1>2, <2>1 DEF StartRunsOutOfMemory
<1>3. ASSUME NEW c \in Clients,
             NothingToStart(c) \/ CompareToStop(c) \/ StartOrStopReturns(c)
      PROVE  Quiet
  BY <1>0, <1>3 DEF NothingToStart, CompareToStop, StartOrStopReturns
<1>4. ASSUME NEW c \in Clients, ReadCountToStop(c) \/ JoinStopsSome(c) \/ JoinReturnsTrue(c)
      PROVE  Quiet
  BY <1>0, <1>4 DEF ReadCountToStop, JoinStopsSome, JoinReturnsTrue, BeginStop, CleanOut
<1>5. ASSUME NEW c \in Clients, StopOne(c) PROVE Quiet
  BY <1>0, <1>5 DEF StopOne, StopSpecificThread
<1>6. ASSUME NEW c \in Clients, StopEnds(c) PROVE Quiet
  BY <1>0, <1>6 DEF StopEnds, StopPcs
<1>7. ASSUME NEW c \in Clients,
             CallJoin(c) \/ JoinClearsTarget(c) \/ JoinTimesOut(c)
                \/ JoinKeepsWaiting(c) \/ JoinFindsNone(c)
      PROVE  Quiet
  BY <1>0, <1>7 DEF CallJoin, JoinClearsTarget, JoinTimesOut, JoinKeepsWaiting,
                    JoinFindsNone, Idle
<1>8. ASSUME CpusChange PROVE Quiet
  BY <1>8 DEF CpusChange
<1>9. ASSUME UNCHANGED vars PROVE Quiet
  BY <1>9 DEF vars
<1>10. ASSUME NEW c \in Clients, StopFnThrows(c) \/ StrandedStopThrows(c) \/ FigureThrows(c)
       PROVE  Quiet
  BY <1>0, <1>10 DEF StopFnThrows, StrandedStopThrows, FigureThrows, AboutToFigure, StopPcs, CleanOut
<1>11. QED
  BY <1>1, <1>2, <1>3, <1>4, <1>5, <1>6, <1>7, <1>8, <1>9, <1>10 DEF QuietStep

\* Every step is quiet or one of those that write an entry or a joinee.
LEMMA StepCases ==
  ASSUME TypeOK, [Next]_vars
  PROVE  \/ Quiet
         \/ \E c \in Clients, b \in BOOLEAN : StartSomeNewThread(c, b)
         \/ \E c \in Clients : JoinClaims(c) \/ JoinWaits(c) \/ JoinThrows(c) \/ JoinMarks(c)
         \/ \E t \in Ids : Worker(t)
BY QuietSteps DEF Next, Client, Advance, QuietStep

LEMMA ThreadInvInit == Init => ThreadInv
BY GroupAssumption
   DEF Init, ThreadInv, StateTellsRun, RunsOf, EntriesAccounted, JoineeHeld, OneJoinerPerThread

LEMMA QuietKeeps == TypeOK /\ ThreadInv /\ Quiet => ThreadInv'
<1> SUFFICES ASSUME TypeOK, ThreadInv, Quiet PROVE ThreadInv'
  OBVIOUS
<1> USE DEF Quiet, Waiting
<1>1. StateTellsRun'
  BY DEF ThreadInv, StateTellsRun
<1>2. EntriesAccounted'
  BY DEF ThreadInv, EntriesAccounted, Remaining, TypeOK
<1>3. OneJoinerPerThread'
  BY DEF ThreadInv, OneJoinerPerThread
<1>4. JoineeHeld'
  <2>1. \A c \in Clients : pc'[c] \in Waiting <=> pc[c] \in Waiting
    OBVIOUS
  <2>2. \A c \in Clients : pc'[c] = "join_mark" => pc[c] = "join_mark"
    BY DEF Waiting
  <2>3. \A c \in Clients : joinee[c] # 0 => joinee[c] \in infos'
    BY DEF ThreadInv, JoineeHeld, OneJoinerPerThread, Remaining
  <2>4. QED
    BY <2>1, <2>2, <2>3 DEF ThreadInv, JoineeHeld
<1>5. QED
  BY <1>1, <1>2, <1>3, <1>4 DEF ThreadInv

LEMMA StartKeeps ==
  ASSUME TypeOK, ThreadInv, NEW d \in Clients, NEW b \in BOOLEAN, StartSomeNewThread(d, b)
  PROVE  ThreadInv'
<1> DEFINE n == created + 1
<1>1. /\ pc[d] = "loop" /\ created' = n /\ infos' = Remaining \cup {n}
      /\ state' = [state EXCEPT ![n] = "starting"]
      /\ run' = [run EXCEPT ![n] = IF b THEN "created" ELSE "absent"]
      /\ stopFn' = stopFn /\ joinee' = joinee
      /\ pc' = [pc EXCEPT ![d] = IF b THEN "loop" ELSE "idle"]
  BY DEF StartSomeNewThread, Goto
<1>2. n \in Ids /\ n = created + 1 /\ created \in Nat
  BY GroupAssumption DEF StartSomeNewThread, TypeOK
<1>3. state[n] = "not_started" /\ n \notin infos /\ run[n] = "absent"
  BY <1>2 DEF ThreadInv, EntriesAccounted, StateTellsRun, RunsOf
<1> HIDE DEF n
<1>4. StateTellsRun'
  <2>1. \A t \in Ids : t # n => state'[t] = state[t] /\ run'[t] = run[t]
    BY <1>1 DEF TypeOK
  <2>2. state'[n] = "starting" /\ run'[n] \in {"created", "absent"}
    BY <1>1, <1>2 DEF TypeOK
  <2>3. run'[n] \in RunsOf(state'[n])
    BY <2>2 DEF RunsOf
  <2>4. QED
    BY <1>1, <2>1, <2>2, <2>3 DEF ThreadInv, StateTellsRun
<1>5. EntriesAccounted'
  <2>1. \A t \in Ids : t # n => state'[t] = state[t]
    BY <1>1 DEF TypeOK
  <2>2. state'[n] = "starting"
    BY <1>1, <1>2 DEF TypeOK
  <2>3. \A t \in Ids : t > created' <=> t > created /\ t # n
    BY <1>1, <1>2, GroupAssumption
  <2>4. infos' \subseteq 1..created'
    <3>1. infos \subseteq 1..created /\ Remaining \subseteq infos
      BY DEF ThreadInv, EntriesAccounted, Remaining
    <3>2. 1..created \subseteq 1..n /\ n \in 1..n
      BY <1>2
    <3>3. QED
      BY <1>1, <3>1, <3>2
  <2>5. ASSUME NEW t \in 1..created', t \notin infos' PROVE state'[t] = "joined"
    <3>1. t \in 1..created /\ t # n /\ t \notin Remaining /\ t \in Ids
      BY <1>1, <1>2, <2>5, GroupAssumption DEF TypeOK
    <3>2. QED
      BY <2>1, <3>1 DEF ThreadInv, EntriesAccounted, Remaining
  <2>6. QED
    BY <2>1, <2>2, <2>3, <2>4, <2>5 DEF ThreadInv, EntriesAccounted
<1>6. \A c \in Clients : joinee[c] # 0 => joinee[c] # n /\ joinee[c] \in infos /\ joinee[c] \in Ids
  BY <1>3 DEF ThreadInv, JoineeHeld, TypeOK
<1>7. OneJoinerPerThread'
  BY <1>1, <1>6 DEF ThreadInv, OneJoinerPerThread, TypeOK
<1>8. JoineeHeld'
  <2>1. \A c \in Clients : pc'[c] \in {"join_wait", "join_mark"} <=> pc[c] \in {"join_wait", "join_mark"}
    BY <1>1 DEF TypeOK
  <2>2. \A c \in Clients : pc'[c] = "join_mark" => pc[c] = "join_mark"
    BY <1>1 DEF TypeOK
  <2>3. \A c \in Clients : joinee[c] # 0 => joinee[c] \in infos' /\ run'[joinee[c]] = run[joinee[c]]
    BY <1>1, <1>6 DEF ThreadInv, OneJoinerPerThread, Remaining, TypeOK
  <2>4. QED
    BY <1>1, <2>1, <2>2, <2>3 DEF ThreadInv, JoineeHeld
<1>9. QED
  BY <1>4, <1>5, <1>7, <1>8 DEF ThreadInv

LEMMA JoinStepsKeep ==
  ASSUME TypeOK, ThreadInv, NEW d \in Clients,
         JoinClaims(d) \/ JoinWaits(d) \/ JoinThrows(d) \/ JoinMarks(d)
  PROVE  ThreadInv'
<1> USE DEF ThreadInv
<1>1. CASE JoinClaims(d)
  <2>1. PICK u \in Exiting : /\ joinee' = [joinee EXCEPT ![d] = u]
                             /\ state' = [state EXCEPT ![u] = "joining"]
    BY <1>1 DEF JoinClaims, Claim
  <2>2. /\ pc[d] = "join_scan" /\ pc' = [pc EXCEPT ![d] = "join_wait"]
        /\ UNCHANGED <<infos, created, run, stopFn>>
    BY <1>1 DEF JoinClaims, Goto, entries
  <2>3. u \in infos /\ u \in Ids /\ state[u] = "exiting" /\ u # 0
    BY DEF Exiting, TypeOK
  <2>4. \A c \in Clients : joinee[c] # u
    BY <2>3 DEF OneJoinerPerThread
  <2>5. StateTellsRun'
    BY <2>1, <2>2, <2>3 DEF StateTellsRun, RunsOf, TypeOK
  <2>6. EntriesAccounted'
    BY <2>1, <2>2, <2>3 DEF EntriesAccounted, TypeOK
  <2>7. OneJoinerPerThread'
    BY <2>1, <2>3, <2>4 DEF OneJoinerPerThread, JoineeHeld, TypeOK
  <2>8. JoineeHeld'
    BY <2>1, <2>2, <2>3 DEF JoineeHeld, TypeOK
  <2>9. QED
    BY <2>5, <2>6, <2>7, <2>8
<1>2. CASE JoinWaits(d)
  <2>1. /\ UNCHANGED <<infos, created, state, run, stopFn, joinee>>
        /\ pc[d] = "join_wait" /\ pc' = [pc EXCEPT ![d] = "join_mark"]
        /\ run[joinee[d]] = "done"
    BY <1>2 DEF JoinWaits, HasExited, Goto, entries, workers
  <2>2. JoineeHeld'
    BY <2>1 DEF JoineeHeld, TypeOK
  <2>3. QED
    BY <2>1, <2>2 DEF StateTellsRun, EntriesAccounted, OneJoinerPerThread
<1>3. CASE JoinThrows(d)
  <2>1. /\ UNCHANGED <<infos, created, state, run, stopFn>>
        /\ joinee' = [joinee EXCEPT ![d] = 0]
        /\ pc' = [pc EXCEPT ![d] = "idle"]
    BY <1>3 DEF JoinThrows, Goto, entries, workers
  <2>2. JoineeHeld'
    BY <2>1 DEF JoineeHeld, TypeOK
  <2>3. OneJoinerPerThread'
    BY <2>1 DEF OneJoinerPerThread, TypeOK
  <2>4. QED
    BY <2>1, <2>2, <2>3 DEF StateTellsRun, EntriesAccounted
<1>4. CASE JoinMarks(d)
  <2> DEFINE u == joinee[d]
  <2>1. /\ UNCHANGED <<infos, created, run, stopFn>>
        /\ pc[d] = "join_mark"
        /\ state' = [state EXCEPT ![u] = "joined"]
        /\ joinee' = [joinee EXCEPT ![d] = 0]
        /\ pc' = [pc EXCEPT ![d] = "join_scan"]
    BY <1>4 DEF JoinMarks, MarkJoined, Goto, entries
  <2>2. u # 0 /\ u \in Ids /\ u \in infos /\ run[u] = "done" /\ state[u] = "joining"
    BY <2>1 DEF JoineeHeld, OneJoinerPerThread, TypeOK
  <2>3. \A c \in Clients : c # d => joinee[c] # u
    BY <2>2 DEF OneJoinerPerThread
  <2> HIDE DEF u
  <2>4. StateTellsRun'
    BY <2>1, <2>2 DEF StateTellsRun, RunsOf, TypeOK
  <2>5. EntriesAccounted'
    BY <2>1, <2>2 DEF EntriesAccounted, TypeOK
  <2>6. OneJoinerPerThread'
    BY <2>1, <2>2, <2>3 DEF OneJoinerPerThread, TypeOK
  <2>7. JoineeHeld'
    BY <2>1 DEF JoineeHeld, TypeOK
  <2>8. QED
    BY <2>4, <2>5, <2>6, <2>7
<1>5. QED
  BY <1>1, <1>2, <1>3, <1>4

LEMMA WorkerKeeps ==
  ASSUME TypeOK, ThreadInv, NEW u \in Ids, Worker(u)
  PROVE  ThreadInv'
<1> USE DEF ThreadInv
<1>1. UNCHANGED <<infos, created, joinee, pc>>
  BY DEF Worker, WorkerStarts, ProvideStopFn, ProvideFails, FnReturns, FnThrows, WorkerExits, WorkerIsGone,
         entries
<1>2. /\ \A t \in Ids : t # u => state'[t] = state[t] /\ run'[t] = run[t]
      /\ run[u] \notin {"absent"}
      /\ run[u] = "done" => run'[u] = "done"
  BY DEF Worker, WorkerStarts, ProvideStopFn, ProvideFails, Offer, FnReturns, FnThrows, WorkerExits,
         WorkerIsGone, TypeOK
<1>3. /\ state'[u] # "not_started"
      /\ state[u] \in {"joining", "joined"} => state'[u] = state[u]
      /\ run'[u] \in RunsOf(state'[u])
  <2>1. run[u] \in RunsOf(state[u])
    BY DEF StateTellsRun
  <2>2. CASE WorkerStarts(u)
    BY <2>1, <2>2 DEF WorkerStarts, RunsOf, TypeOK
  <2>3. CASE ProvideStopFn(u) \/ ProvideFails(u)
    BY <2>1, <2>3 DEF ProvideStopFn, ProvideFails, Offer, RunsOf, TypeOK
  <2>4. CASE FnReturns(u) \/ FnThrows(u)
    BY <2>1, <2>4 DEF FnReturns, FnThrows, RunsOf, TypeOK
  <2>5. CASE WorkerExits(u)
    BY <2>1, <2>5 DEF WorkerExits, RunsOf, TypeOK
  <2>6. CASE WorkerIsGone(u)
    BY <2>1, <2>6 DEF WorkerIsGone, RunsOf, TypeOK
  <2>7. QED
    BY <2>2, <2>3, <2>4, <2>5, <2>6 DEF Worker
<1>4. StateTellsRun'
  BY <1>2, <1>3 DEF StateTellsRun
<1>5. state[u] # "not_started"
  BY <1>2 DEF StateTellsRun, RunsOf
<1>6. EntriesAccounted'
  <2>1. \A t \in Ids : state'[t] = "not_started" <=> state[t] = "not_started"
    BY <1>2, <1>3, <1>5
  <2>2. \A t \in Ids : state[t] = "joined" => state'[t] = "joined"
    BY <1>2, <1>3
  <2>3. 1..created \subseteq Ids
    BY GroupAssumption DEF TypeOK
  <2>4. QED
    BY <1>1, <2>1, <2>2, <2>3 DEF EntriesAccounted
<1>7. \A t \in Ids : state[t] = "joining" => state'[t] = "joining"
  BY <1>2, <1>3
<1>8. \A c \in Clients : joinee[c] # 0 => joinee[c] \in Ids
  BY DEF JoineeHeld, TypeOK
<1>9. OneJoinerPerThread'
  BY <1>1, <1>7, <1>8 DEF OneJoinerPerThread
<1>10. JoineeHeld'
  BY <1>1, <1>2, <1>8 DEF JoineeHeld
<1>11. QED
  BY <1>4, <1>6, <1>9, <1>10

LEMMA ThreadInvNext == TypeOK /\ ThreadInv /\ [Next]_vars => ThreadInv'
BY StepCases, QuietKeeps, StartKeeps, JoinStepsKeep, WorkerKeeps

\* Entries, OS threads and joiners stay tied to each other in every interleaving
\* of clients and workers; the other theorems rest on this one.
THEOREM ThreadsTracked == Spec => [](TypeOK /\ ThreadInv)
<1>1. Init => TypeOK /\ ThreadInv
  BY TypeInit, ThreadInvInit
<1>2. TypeOK /\ ThreadInv /\ [Next]_vars => (TypeOK /\ ThreadInv)'
  BY TypeNext, ThreadInvNext
<1>3. QED
  BY <1>1, <1>2, PTL DEF Spec

----------------------------------------------------------------------------
(* What follows from it.                                                   *)

LEMMA NoneLost == TypeOK /\ ThreadInv => NoThreadIsLost
<1> SUFFICES ASSUME TypeOK, ThreadInv, NEW t \in 1..created
    PROVE  /\ run[t] \in RunStates \ {"absent", "done"} => t \in infos
           /\ t \notin infos => state[t] = "joined"
  BY DEF NoThreadIsLost
<1>1. t \in Ids
  BY GroupAssumption DEF TypeOK
<1>2. t \notin infos => state[t] = "joined"
  BY DEF ThreadInv, EntriesAccounted
<1>3. state[t] = "joined" => run[t] = "done"
  BY <1>1 DEF ThreadInv, StateTellsRun, RunsOf
<1>4. QED
  BY <1>2, <1>3

----------------------------------------------------------------------------
(* Who is inside mut_.                                                     *)

\* A client's step moves that client only.
LEMMA OthersStay ==
  ASSUME TypeOK, NEW d \in Clients, NEW x, Goto(d, x), NEW c \in Clients \ {d}
  PROVE  pc'[c] = pc[c]
BY DEF Goto, TypeOK

\* A client that stays inside, or stays outside, leaves mut_ to whoever has it.
LEMMA LockStays ==
  ASSUME TypeOK, LockHeld, NEW d \in Clients, NEW x, Goto(d, x), mut' = mut,
         pc[d] \in HoldPcs <=> x \in HoldPcs
  PROVE  LockHeld'
<1>1. pc'[d] = x /\ \A c \in Clients \ {d} : pc'[c] = pc[c]
  BY OthersStay DEF Goto, TypeOK
<1>2. QED
  BY <1>1 DEF LockHeld

\* A client that goes inside takes mut_ when it is free.
LEMMA LockTaken ==
  ASSUME TypeOK, LockHeld, NEW d \in Clients, NEW x \in HoldPcs, Goto(d, x), Lock(d)
  PROVE  LockHeld'
<1>1. pc'[d] = x /\ \A c \in Clients \ {d} : pc'[c] = pc[c]
  BY OthersStay DEF Goto, TypeOK
<1>2. \A c \in Clients : pc[c] \notin HoldPcs
  BY GroupAssumption DEF LockHeld, Lock
<1>3. QED
  BY <1>1, <1>2 DEF LockHeld, Lock

\* A client that goes outside gives mut_ back, and no other was inside.
LEMMA LockGivenBack ==
  ASSUME TypeOK, LockHeld, NEW d \in Clients, NEW x, x \notin HoldPcs, Goto(d, x),
         mut \in {d, NoOne}, mut' = NoOne
  PROVE  LockHeld'
<1>1. pc'[d] = x /\ \A c \in Clients \ {d} : pc'[c] = pc[c]
  BY OthersStay DEF Goto, TypeOK
<1>2. \A c \in Clients \ {d} : pc[c] \notin HoldPcs
  BY GroupAssumption DEF LockHeld
<1>3. QED
  BY <1>1, <1>2, GroupAssumption DEF LockHeld

LEMMA LockHeldNext ==
  ASSUME TypeOK, LockHeld, [Next]_vars
  PROVE  LockHeld'
<1> USE DEF HoldPcs, StopPcs, Idle
<1>1. ASSUME NEW d \in Clients, Client(d) PROVE LockHeld'
  <2>1. CASE \/ \E n \in Targets : SetTarget(d, n)
             \/ CallJoin(d) \/ JoinClearsTarget(d) \/ JoinTimesOut(d)
             \/ JoinKeepsWaiting(d) \/ JoinClaims(d) \/ JoinFindsNone(d)
             \/ JoinWaits(d) \/ JoinThrows(d) \/ JoinMarks(d) \/ JoinReturnsTrue(d)
    <3>1. \E x : Goto(d, x) /\ x \notin HoldPcs /\ pc[d] \notin HoldPcs /\ mut' = mut
      BY <2>1 DEF SetTarget, CallJoin, JoinClearsTarget, JoinTimesOut, JoinKeepsWaiting,
                  JoinClaims, JoinFindsNone, JoinWaits, JoinThrows, JoinMarks, JoinReturnsTrue
    <3>2. QED
      BY <3>1, LockStays
  <2>2. CASE StartRunsOutOfMemory(d) \/ \E b \in BOOLEAN : StartSomeNewThread(d, b)
    <3>1. \E x : Goto(d, x) /\ x \notin HoldPcs /\ pc[d] \notin HoldPcs /\ mut' = mut
      BY <2>2 DEF StartRunsOutOfMemory, StartSomeNewThread
    <3>2. QED
      BY <3>1, LockStays
  <2>3. CASE CompareToStop(d) \/ ReadCountToStop(d)
    <3>1. \E x : Goto(d, x) /\ x \in HoldPcs /\ pc[d] \in HoldPcs /\ mut' = mut
      BY <2>3 DEF CompareToStop, ReadCountToStop, BeginStop
    <3>2. QED
      BY <3>1, LockStays
  <2>4. CASE NothingToStart(d)
    BY <2>4, LockTaken DEF NothingToStart
  <2>5. CASE JoinStopsSome(d)
    <3>1. Lock(d) /\ Goto(d, "join_stop")
      BY <2>5 DEF JoinStopsSome, BeginStop
    <3>2. QED
      BY <3>1, LockTaken
  <2>6. CASE StartOrStopReturns(d) \/ StopEnds(d) \/ StopFnThrows(d)
    <3>1. \E x : Goto(d, x) /\ x \notin HoldPcs /\ mut = d /\ mut' = NoOne
      BY <2>6 DEF StartOrStopReturns, StopEnds, StopFnThrows, Unlock
    <3>2. QED
      BY <3>1, LockGivenBack
  <2>7. CASE StrandedStopThrows(d) \/ FigureThrows(d)
    <3>1. Goto(d, "idle") /\ mut' = NoOne /\ mut \in {d, NoOne}
      BY <2>7 DEF StrandedStopThrows, FigureThrows, AboutToFigure, LockHeld
    <3>2. QED
      BY <3>1, LockGivenBack
  <2>8. CASE StopOne(d)
    BY <2>8 DEF StopOne, LockHeld
  <2>9. QED
    BY <1>1, <2>1, <2>2, <2>3, <2>4, <2>5, <2>6, <2>7, <2>8 DEF Client, Advance
<1>2. ASSUME NEW u \in Ids, Worker(u) PROVE LockHeld'
  BY <1>2 DEF Worker, WorkerStarts, ProvideStopFn, ProvideFails, FnReturns, FnThrows, WorkerExits,
              WorkerIsGone, LockHeld
<1>3. CpusChange \/ UNCHANGED vars => LockHeld'
  BY DEF CpusChange, vars, LockHeld
<1>4. QED
  BY <1>1, <1>2, <1>3 DEF Next

----------------------------------------------------------------------------
(* What a stoppable thread is stopped by.                                  *)

LEMMA StoppableHasFnNext ==
  ASSUME "stoppable" \notin CopyMayThrow, TypeOK, ThreadInv, StoppableHasFn, [Next]_vars
  PROVE  StoppableHasFn'
<1> SUFFICES ASSUME NEW t \in Ids, state'[t] = "stoppable" PROVE stopFn'[t]
  BY DEF StoppableHasFn
<1>1. CASE Quiet
  BY <1>1 DEF Quiet, StoppableHasFn
<1>2. ASSUME NEW d \in Clients, NEW b \in BOOLEAN, StartSomeNewThread(d, b) PROVE stopFn'[t]
  <2>1. state[t] = "stoppable" /\ stopFn' = stopFn
    BY <1>2 DEF StartSomeNewThread, TypeOK
  <2>2. QED
    BY <2>1 DEF StoppableHasFn
<1>3. ASSUME NEW d \in Clients,
             JoinClaims(d) \/ JoinWaits(d) \/ JoinThrows(d) \/ JoinMarks(d)
      PROVE  stopFn'[t]
  <2>1. stopFn' = stopFn
    BY <1>3 DEF JoinClaims, JoinWaits, JoinThrows, JoinMarks, workers
  <2>2. state[t] = "stoppable"
    BY <1>3 DEF JoinClaims, Claim, JoinWaits, JoinThrows, JoinMarks, MarkJoined, workers, TypeOK
  <2>3. QED
    BY <2>1, <2>2 DEF StoppableHasFn
<1>4. ASSUME NEW u \in Ids, Worker(u) PROVE stopFn'[t]
  <2>1. CASE ProvideStopFn(u)
    BY <2>1 DEF ProvideStopFn, Offer, StoppableHasFn, TypeOK
  <2>2. CASE ProvideFails(u)
    BY <2>2 DEF ProvideFails, StoppableHasFn, TypeOK
  <2>3. CASE WorkerStarts(u) \/ FnReturns(u) \/ FnThrows(u) \/ WorkerExits(u) \/ WorkerIsGone(u)
    BY <2>3 DEF WorkerStarts, FnReturns, FnThrows, WorkerExits, WorkerIsGone, StoppableHasFn,
                TypeOK
  <2>4. QED
    BY <1>4, <2>1, <2>2, <2>3 DEF Worker
<1>5. QED
  BY <1>1, <1>2, <1>3, <1>4, StepCases

\* Unless the copy of a function that replaces another throws, every thread that the group
\* would stop has the function that stop_specific_thread calls (the assertion of line 609).
LEMMA StoppableHaveFns ==
  ASSUME "stoppable" \notin CopyMayThrow
  PROVE  Spec => []StoppableHasFn
<1>1. Init => StoppableHasFn
  BY DEF Init, StoppableHasFn
<1>2. TypeOK /\ ThreadInv /\ StoppableHasFn /\ [Next]_vars => StoppableHasFn'
  BY StoppableHasFnNext
<1>3. QED
  BY <1>1, <1>2, ThreadsTracked, PTL DEF Spec

\* The client that is inside the critical sections of more than one step is the owner of
\* mut_ in every reachable state, also when a stop function throws (every mutex_lock of
\* thread_group_data is a local), and entries, OS threads, joiners and stop functions agree,
\* unless a stop function that replaces another cannot be copied.
THEOREM GroupConsistent == ASSUME "stoppable" \notin CopyMayThrow PROVE Spec => []Consistent
<1>1. Init => LockHeld
  BY GroupAssumption DEF Init, LockHeld, HoldPcs, StopPcs
<1>2. TypeOK /\ LockHeld /\ [Next]_vars => LockHeld'
  BY LockHeldNext
<1>3. Spec => []LockHeld
  BY <1>1, <1>2, TypeCorrect, PTL DEF Spec
<1>4. LockHeld /\ ThreadInv /\ StoppableHasFn => Consistent
  BY DEF Consistent, ThreadInv
<1>5. QED
  BY <1>3, <1>4, ThreadsTracked, StoppableHaveFns, PTL

\* One client only waits for a thread and marks it joined.
THEOREM OneJoiner == Spec => []OneJoinerPerThread
<1>1. ThreadInv => OneJoinerPerThread
  BY DEF ThreadInv
<1>2. QED
  BY <1>1, ThreadsTracked, PTL

\* clean_out_exited_threads never drops the entry of a thread that may run.
THEOREM ThreadsKept == Spec => []NoThreadIsLost
  BY NoneLost, ThreadsTracked, PTL

----------------------------------------------------------------------------
(* The count of threads to join.                                           *)

LEMMA CountInit == Init => NotYetJoinedCounted
<1> SUFFICES ASSUME Init PROVE NotYetJoinedCounted
  OBVIOUS
<1>1. NotYetJoined = {} /\ nyj = 0
  BY DEF Init, NotYetJoined
<1>2. QED
  BY <1>1, FS_EmptySet DEF NotYetJoinedCounted

\* A step that leaves the unjoined entries alone and the count with it.
LEMMA CountKept ==
  ASSUME NotYetJoinedCounted, NotYetJoined' = NotYetJoined,
         nyj' \in {nyj, Cardinality(NotYetJoined)}
  PROVE  NotYetJoinedCounted'
BY DEF NotYetJoinedCounted

\* Starting a thread adds one entry to those to be joined, and one to the count.
LEMMA StartCounts ==
  ASSUME TypeOK, ThreadInv, NEW d \in Clients, NEW b \in BOOLEAN, StartSomeNewThread(d, b)
  PROVE  NotYetJoinedCounted'
<1> DEFINE n == created + 1
<1>1. /\ created' = n /\ infos' = Remaining \cup {n}
      /\ state' = [state EXCEPT ![n] = "starting"]
      /\ nyj' = Wrap(Cardinality(NotYetJoined) + 1)
  BY DEF StartSomeNewThread, FigureAndCount
<1>2. n \in Ids /\ n = created + 1 /\ created \in Nat
  BY GroupAssumption DEF StartSomeNewThread, TypeOK
<1>3. n \notin infos
  BY <1>2 DEF ThreadInv, EntriesAccounted
<1> HIDE DEF n
<1>4. NotYetJoined' = NotYetJoined \cup {n}
  <2>1. state'[n] = "starting" /\ \A t \in infos : state'[t] = state[t]
    BY <1>1, <1>2, <1>3 DEF TypeOK
  <2>2. QED
    BY <1>1, <2>1 DEF NotYetJoined, Remaining, UnjoinedStates, ThreadStates
<1>5. n \notin NotYetJoined
  BY <1>3 DEF NotYetJoined
<1>6. NotYetJoined \in SUBSET Ids /\ NotYetJoined \cup {n} \in SUBSET Ids
  BY <1>2 DEF TypeOK, NotYetJoined
<1>7. Cardinality(NotYetJoined \cup {n}) = Cardinality(NotYetJoined) + 1
  BY <1>5, <1>6, EntrySet, FS_AddElement
<1>8. Cardinality(NotYetJoined) + 1 \in 0..(SizeMod - 1)
  BY <1>6, <1>7, EntrySet
<1>9. QED
  BY <1>1, <1>4, <1>7, <1>8, WrapSmall DEF NotYetJoinedCounted

\* Marking a thread joined takes one entry off, and one off the count, which
\* therefore does not wrap.
LEMMA MarkCounts ==
  ASSUME TypeOK, ThreadInv, NotYetJoinedCounted, NEW d \in Clients, JoinMarks(d)
  PROVE  NotYetJoinedCounted'
<1> DEFINE u == joinee[d]
<1>1. /\ infos' = infos /\ state' = [state EXCEPT ![u] = "joined"]
      /\ nyj' = Wrap(nyj - 1) /\ pc[d] = "join_mark"
  BY DEF JoinMarks, MarkJoined, entries
<1>2. u \in infos /\ u \in Ids /\ state[u] = "joining"
  BY <1>1 DEF ThreadInv, JoineeHeld, OneJoinerPerThread, TypeOK
<1> HIDE DEF u
<1>3. u \in NotYetJoined
  BY <1>2 DEF NotYetJoined, UnjoinedStates, ThreadStates
<1>4. NotYetJoined' = NotYetJoined \ {u}
  <2>1. state'[u] = "joined" /\ \A t \in infos : t # u => state'[t] = state[t]
    BY <1>1, <1>2 DEF TypeOK
  <2>2. QED
    BY <1>1, <1>2, <2>1 DEF NotYetJoined, UnjoinedStates
<1>5. NotYetJoined \in SUBSET Ids /\ NotYetJoined \ {u} \in SUBSET Ids
  BY DEF TypeOK, NotYetJoined
<1>6. Cardinality(NotYetJoined \ {u}) = Cardinality(NotYetJoined) - 1
  BY <1>3, <1>5, EntrySet, FS_RemoveElement
<1>7. nyj - 1 \in 0..(SizeMod - 1)
  BY <1>5, <1>6, EntrySet DEF NotYetJoinedCounted
<1>8. QED
  BY <1>1, <1>4, <1>6, <1>7, WrapSmall DEF NotYetJoinedCounted

LEMMA CountNext ==
  ASSUME TypeOK, ThreadInv, NotYetJoinedCounted, [Next]_vars
  PROVE  NotYetJoinedCounted'
<1>1. CASE Quiet
  <2>1. NotYetJoined' = NotYetJoined
    BY <1>1 DEF Quiet, NotYetJoined, Remaining, UnjoinedStates
  <2>2. QED
    BY <1>1, <2>1, CountKept DEF Quiet
<1>2. ASSUME NEW d \in Clients, NEW b \in BOOLEAN, StartSomeNewThread(d, b)
      PROVE  NotYetJoinedCounted'
  BY <1>2, StartCounts
<1>3. ASSUME NEW d \in Clients, JoinMarks(d) PROVE NotYetJoinedCounted'
  BY <1>3, MarkCounts
<1>4. ASSUME NEW d \in Clients, JoinClaims(d) \/ JoinWaits(d) \/ JoinThrows(d)
      PROVE  NotYetJoinedCounted'
  <2>1. nyj' = nyj /\ infos' = infos
    BY <1>4 DEF JoinClaims, JoinWaits, JoinThrows, counts, entries
  <2>2. \A t \in infos : state'[t] \in UnjoinedStates <=> state[t] \in UnjoinedStates
    BY <1>4 DEF JoinClaims, Claim, Exiting, JoinWaits, JoinThrows, workers, TypeOK,
                UnjoinedStates, ThreadStates
  <2>3. QED
    BY <2>1, <2>2, CountKept DEF NotYetJoined
<1>5. ASSUME NEW u \in Ids, Worker(u) PROVE NotYetJoinedCounted'
  <2>1. nyj' = nyj /\ infos' = infos
    BY <1>5 DEF Worker, WorkerStarts, ProvideStopFn, ProvideFails, FnReturns, FnThrows, WorkerExits,
                WorkerIsGone, counts, entries
  <2>2. \A t \in infos : state'[t] \in UnjoinedStates <=> state[t] \in UnjoinedStates
    <3>1. run[u] \in RunsOf(state[u]) /\ infos \subseteq Ids
      BY DEF ThreadInv, StateTellsRun, TypeOK
    <3>2. \A t \in Ids : t # u => state'[t] = state[t]
      BY <1>5 DEF Worker, WorkerStarts, ProvideStopFn, ProvideFails, Offer, FnReturns, FnThrows,
                  WorkerExits, WorkerIsGone, TypeOK
    <3>3. state'[u] \in UnjoinedStates <=> state[u] \in UnjoinedStates
      BY <1>5, <3>1 DEF Worker, WorkerStarts, ProvideStopFn, ProvideFails, Offer, FnReturns, FnThrows,
                  WorkerExits, WorkerIsGone, TypeOK, RunsOf, UnjoinedStates, ThreadStates
    <3>4. QED
      BY <3>1, <3>2, <3>3
  <2>3. QED
    BY <2>1, <2>2, CountKept DEF NotYetJoined
<1>6. QED
  BY <1>1, <1>2, <1>3, <1>4, <1>5, StepCases

\* cnt_threads_not_yet_joined_ is the number of entries to be joined in every
\* reachable state, so the assertion of clean_out_exited_threads holds and the
\* decrement of join_exiting_threads never wraps.
THEOREM JoinsCounted == Spec => []NotYetJoinedCounted
<1>1. Init => NotYetJoinedCounted
  BY CountInit
<1>2. TypeOK /\ ThreadInv /\ NotYetJoinedCounted /\ [Next]_vars => NotYetJoinedCounted'
  BY CountNext
<1>3. QED
  BY <1>1, <1>2, ThreadsTracked, PTL DEF Spec

----------------------------------------------------------------------------
(* What a step may not do.                                                 *)

\* The steps that answer "all threads have exited" start from a group whose
\* every thread has ended.
LEMMA TruthStep ==
  ASSUME TypeOK, ThreadInv, [Next]_vars, NEW c \in Clients, pc'[c] = "true", pc[c] # "true"
  PROVE  /\ Remaining = {}
         /\ \A t \in 1..created : state[t] = "joined" /\ run[t] = "done"
<1>1. JoinReturnsTrue(c)
  <2> USE DEF Goto, Idle
  <2>1. pc \in [Clients -> Pcs]
    BY DEF TypeOK
  <2>2. ASSUME NEW d \in Clients, Client(d) PROVE JoinReturnsTrue(c)
    <3>1. CASE JoinReturnsTrue(d)
      BY <2>1, <3>1 DEF JoinReturnsTrue
    <3>2. CASE \E b \in BOOLEAN : StartSomeNewThread(d, b)
      BY <2>1, <3>2 DEF StartSomeNewThread
    <3>3. CASE \/ \E n \in Targets : SetTarget(d, n)
               \/ StartRunsOutOfMemory(d) \/ NothingToStart(d) \/ CompareToStop(d)
               \/ StartOrStopReturns(d)
      BY <2>1, <3>3 DEF SetTarget, StartRunsOutOfMemory, NothingToStart, CompareToStop,
                        StartOrStopReturns
    <3>4. CASE ReadCountToStop(d) \/ StopOne(d) \/ StopEnds(d) \/ JoinStopsSome(d)
      BY <2>1, <3>4 DEF ReadCountToStop, StopOne, StopEnds, JoinStopsSome, BeginStop
    <3>5. CASE \/ CallJoin(d) \/ JoinClearsTarget(d) \/ JoinTimesOut(d)
               \/ JoinKeepsWaiting(d) \/ JoinClaims(d) \/ JoinFindsNone(d)
      BY <2>1, <3>5 DEF CallJoin, JoinClearsTarget, JoinTimesOut, JoinKeepsWaiting,
                        JoinClaims, JoinFindsNone
    <3>6. CASE \/ JoinWaits(d) \/ JoinThrows(d) \/ JoinMarks(d)
               \/ StopFnThrows(d) \/ StrandedStopThrows(d) \/ FigureThrows(d)
      BY <2>1, <3>6 DEF JoinWaits, JoinThrows, JoinMarks, StopFnThrows, StrandedStopThrows,
                        FigureThrows
    <3>7. QED
      BY <2>2, <3>1, <3>2, <3>3, <3>4, <3>5, <3>6 DEF Client, Advance
  <2>3. ASSUME NEW t \in Ids, Worker(t) PROVE pc' = pc
    BY <2>3 DEF Worker, WorkerStarts, ProvideStopFn, ProvideFails, FnReturns, FnThrows, WorkerExits,
                WorkerIsGone
  <2>4. CpusChange \/ UNCHANGED vars => pc' = pc
    BY DEF CpusChange, vars
  <2>5. QED
    BY <2>2, <2>3, <2>4 DEF Next
<1>2. Remaining = {}
  BY <1>1 DEF JoinReturnsTrue
<1>3. ASSUME NEW t \in 1..created PROVE state[t] = "joined" /\ run[t] = "done"
  <2>1. t \in Ids
    BY GroupAssumption DEF TypeOK
  <2>2. state[t] = "joined"
    BY <1>2 DEF ThreadInv, EntriesAccounted, Remaining
  <2>3. QED
    BY <2>1, <2>2 DEF ThreadInv, StateTellsRun, RunsOf
<1>4. QED
  BY <1>2, <1>3

\* timed_join answers true only when no thread of the group runs.
THEOREM JoinsTellTheTruth == Spec => JoinTellsTheTruth
<1>1. ASSUME TypeOK, ThreadInv, [Next]_vars
      PROVE  [\A c \in Clients : pc'[c] = "true" /\ pc[c] # "true" =>
                 \A t \in 1..created : run[t] = "done"]_vars
  BY <1>1, TruthStep
<1>2. QED
  BY <1>1, ThreadsTracked, PTL DEF Spec, JoinTellsTheTruth

\* Every step that calls stop functions calls those of stoppable threads.
LEMMA AskedStep ==
  ASSUME [Next]_vars
  PROVE  asked' \subseteq asked \cup Stoppable
<1>1. ASSUME NEW d \in Clients, Client(d) PROVE asked' \subseteq asked \cup Stoppable
  <2>1. CASE \E b \in BOOLEAN : StartSomeNewThread(d, b)
    BY <2>1 DEF StartSomeNewThread, FigureAndCount, Stranded
  <2>2. CASE \/ StartRunsOutOfMemory(d) \/ ReadCountToStop(d) \/ JoinStopsSome(d)
    BY <2>2 DEF StartRunsOutOfMemory, ReadCountToStop, JoinStopsSome, BeginStop,
                FigureAndCount, Stranded
  <2>3. CASE StopOne(d)
    BY <2>3 DEF StopOne, IsVictim, StopSpecificThread
  <2>4. CASE \/ \E n \in Targets : SetTarget(d, n)
             \/ NothingToStart(d) \/ CompareToStop(d) \/ StartOrStopReturns(d)
             \/ StopEnds(d) \/ FigureThrows(d) \/ JoinReturnsTrue(d)
             \/ CallJoin(d) \/ JoinClearsTarget(d) \/ JoinTimesOut(d)
             \/ JoinKeepsWaiting(d) \/ JoinClaims(d) \/ JoinFindsNone(d)
             \/ JoinWaits(d) \/ JoinThrows(d) \/ JoinMarks(d)
    BY <2>4 DEF SetTarget, NothingToStart, CompareToStop, StartOrStopReturns, StopEnds,
                FigureThrows, JoinReturnsTrue, CallJoin, JoinClearsTarget, JoinTimesOut, JoinKeepsWaiting,
                JoinClaims, JoinFindsNone, JoinWaits, JoinThrows, JoinMarks
  <2>5. CASE StopFnThrows(d) \/ StrandedStopThrows(d)
    BY <2>5 DEF StopFnThrows, StrandedStopThrows, IsVictim, Stranded
  <2>6. QED
    BY <1>1, <2>1, <2>2, <2>3, <2>4, <2>5 DEF Client, Advance
<1>2. ASSUME NEW t \in Ids, Worker(t) PROVE asked' = asked
  BY <1>2 DEF Worker, WorkerStarts, ProvideStopFn, ProvideFails, FnReturns, FnThrows, WorkerExits,
              WorkerIsGone
<1>3. CpusChange \/ UNCHANGED vars => asked' = asked
  BY DEF CpusChange, vars
<1>4. QED
  BY <1>1, <1>2, <1>3 DEF Next

\* stop_specific_thread never calls a function that was not provided, nor the function of a
\* thread the group knows to be exiting, unless the copy of a later function has thrown.
THEOREM StopsProvided ==
  ASSUME "stoppable" \notin CopyMayThrow
  PROVE  Spec => StopFnCalledWhenProvided
<1>1. ASSUME TypeOK, StoppableHasFn, [Next]_vars
      PROVE  [\A t \in asked' \ asked :
                 stopFn[t] /\ state[t] \in {"stoppable", "stop_requested"}]_vars
  <2>1. SUFFICES ASSUME NEW t \in asked' \ asked
        PROVE  stopFn[t] /\ state[t] \in {"stoppable", "stop_requested"}
    OBVIOUS
  <2>2. t \in Ids /\ state[t] = "stoppable"
    BY <1>1, AskedStep DEF Stoppable, TypeOK
  <2>3. QED
    BY <1>1, <2>2 DEF StoppableHasFn
<1>2. QED
  BY <1>1, TypeCorrect, StoppableHaveFns, PTL DEF Spec, StopFnCalledWhenProvided

\* What one step does to the state of a thread.
LEMMA StateStep ==
  ASSUME TypeOK, ThreadInv, [Next]_vars, NEW t \in Ids
  PROVE  \/ state'[t] = state[t]
         \/ state[t] = "not_started" /\ state'[t] = "starting"
         \/ state[t] = "starting" /\ state'[t] = "started"
         \/ state[t] = "started" /\ state'[t] = "stoppable"
         \/ state[t] \in {"started", "stoppable"} /\ state'[t] = "exiting"
         \/ state[t] = "exiting" /\ state'[t] = "joining"
         \/ state[t] = "joining" /\ state'[t] = "joined"
<1>1. CASE Quiet
  BY <1>1 DEF Quiet
<1>2. ASSUME NEW d \in Clients, NEW b \in BOOLEAN, StartSomeNewThread(d, b)
      PROVE  \/ state'[t] = state[t]
             \/ state[t] = "not_started" /\ state'[t] = "starting"
  <2>1. /\ created' = created + 1 /\ created + 1 \in Ids
        /\ state' = [state EXCEPT ![created + 1] = "starting"]
    BY <1>2, GroupAssumption DEF StartSomeNewThread, TypeOK
  <2>2. created + 1 > created
    BY GroupAssumption DEF TypeOK
  <2>3. state[created + 1] = "not_started"
    BY <2>1, <2>2 DEF ThreadInv, EntriesAccounted
  <2>4. QED
    BY <2>1, <2>3 DEF TypeOK
<1>3. ASSUME NEW d \in Clients, JoinClaims(d) \/ JoinWaits(d) \/ JoinThrows(d)
      PROVE  \/ state'[t] = state[t]
             \/ state[t] = "exiting" /\ state'[t] = "joining"
  BY <1>3 DEF JoinClaims, Claim, Exiting, JoinWaits, JoinThrows, workers, TypeOK
<1>4. ASSUME NEW d \in Clients, JoinMarks(d)
      PROVE  \/ state'[t] = state[t]
             \/ state[t] = "joining" /\ state'[t] = "joined"
  <2>1. state[joinee[d]] = "joining" /\ state' = [state EXCEPT ![joinee[d]] = "joined"]
    BY <1>4 DEF JoinMarks, MarkJoined, ThreadInv, JoineeHeld, OneJoinerPerThread
  <2>2. QED
    BY <2>1 DEF TypeOK
<1>5. ASSUME NEW u \in Ids, Worker(u)
      PROVE  \/ state'[t] = state[t]
             \/ state[t] = "starting" /\ state'[t] = "started"
             \/ state[t] = "started" /\ state'[t] = "stoppable"
             \/ state[t] \in {"started", "stoppable"} /\ state'[t] = "exiting"
  <2>1. run[u] \in RunsOf(state[u])
    BY DEF ThreadInv, StateTellsRun
  <2>2. CASE WorkerStarts(u)
    BY <2>1, <2>2 DEF WorkerStarts, RunsOf, TypeOK, ThreadStates
  <2>3. CASE ProvideStopFn(u)
    BY <2>3 DEF ProvideStopFn, ProvideFails, Offer, TypeOK
  <2>4. CASE ProvideFails(u) \/ FnReturns(u) \/ FnThrows(u) \/ WorkerIsGone(u)
    BY <2>4 DEF ProvideFails, FnReturns, FnThrows, WorkerIsGone
  <2>5. CASE WorkerExits(u)
    BY <2>1, <2>5 DEF WorkerExits, RunsOf, TypeOK, ThreadStates
  <2>6. QED
    BY <1>5, <2>2, <2>3, <2>4, <2>5 DEF Worker
<1>6. QED
  BY <1>1, <1>2, <1>3, <1>4, <1>5, StepCases

\* Workers, joiners and late offers of a stop function never move a thread back
\* in the order of the enumeration.
THEOREM StatesForward == Spec => StatesMoveForward
<1>1. \A s \in ThreadStates : StateOrder[s] <= StateOrder[s]
  BY DEF StateOrder, ThreadStates
<1>2. /\ StateOrder["not_started"] <= StateOrder["starting"]
      /\ StateOrder["starting"] <= StateOrder["started"]
      /\ StateOrder["started"] <= StateOrder["stoppable"]
      /\ StateOrder["started"] <= StateOrder["exiting"]
      /\ StateOrder["stoppable"] <= StateOrder["exiting"]
      /\ StateOrder["exiting"] <= StateOrder["joining"]
      /\ StateOrder["joining"] <= StateOrder["joined"]
  BY DEF StateOrder, ThreadStates
<1>3. ASSUME TypeOK, ThreadInv, [Next]_vars
      PROVE  [\A t \in Ids : StateOrder[state[t]] <= StateOrder[state'[t]]]_vars
  <2>1. SUFFICES ASSUME NEW t \in Ids
        PROVE  StateOrder[state[t]] <= StateOrder[state'[t]]
    OBVIOUS
  <2>2. state[t] \in ThreadStates
    BY <1>3 DEF TypeOK
  <2>3. QED
    BY <1>1, <1>2, <1>3, <2>2, StateStep
<1>4. QED
  BY <1>3, ThreadsTracked, PTL DEF Spec, StatesMoveForward

----------------------------------------------------------------------------
(* Where thread::join works, no claimed thread is abandoned.               *)

\* While join is implemented, a claim is given up only by marking the thread.
LEMMA ClaimKept ==
  ASSUME ~JoinMayThrow, TypeOK, ThreadInv, NoAbandonedJoin, [Next]_vars
  PROVE  NoAbandonedJoin'
<1> SUFFICES ASSUME NEW t \in Ids, state'[t] = "joining"
    PROVE  \E c \in Clients : joinee'[c] = t
  BY DEF NoAbandonedJoin
<1>1. CASE Quiet
  BY <1>1 DEF Quiet, NoAbandonedJoin
<1>2. ASSUME NEW d \in Clients, NEW b \in BOOLEAN, StartSomeNewThread(d, b)
      PROVE  \E c \in Clients : joinee'[c] = t
  <2>1. joinee' = joinee
    BY <1>2 DEF StartSomeNewThread
  <2>2. state[t] = "joining"
    BY <1>2, GroupAssumption DEF StartSomeNewThread, TypeOK
  <2>3. QED
    BY <2>1, <2>2 DEF NoAbandonedJoin
<1>3. ASSUME NEW d \in Clients, JoinClaims(d) PROVE \E c \in Clients : joinee'[c] = t
  <2>1. PICK u \in Exiting : /\ joinee' = [joinee EXCEPT ![d] = u]
                             /\ state' = [state EXCEPT ![u] = "joining"]
    BY <1>3 DEF JoinClaims, Claim
  <2>2. joinee[d] = 0
    BY <1>3 DEF JoinClaims, ThreadInv, JoineeHeld
  <2>3. CASE t = u
    BY <2>1, <2>3 DEF TypeOK
  <2>4. CASE t # u
    <3>1. state[t] = "joining"
      BY <2>1, <2>4 DEF TypeOK
    <3>2. PICK c \in Clients : joinee[c] = t
      BY <3>1 DEF NoAbandonedJoin
    <3>3. c # d
      BY <2>2, <3>2
    <3>4. QED
      BY <2>1, <3>2, <3>3 DEF TypeOK
  <2>5. QED
    BY <2>3, <2>4
<1>4. ASSUME NEW d \in Clients, JoinWaits(d) PROVE \E c \in Clients : joinee'[c] = t
  BY <1>4 DEF JoinWaits, workers, NoAbandonedJoin
<1>5. ASSUME NEW d \in Clients, JoinMarks(d) PROVE \E c \in Clients : joinee'[c] = t
  <2>1. /\ state' = [state EXCEPT ![joinee[d]] = "joined"]
        /\ joinee' = [joinee EXCEPT ![d] = 0]
    BY <1>5 DEF JoinMarks, MarkJoined
  <2>2. t # joinee[d] /\ state[t] = "joining"
    BY <2>1 DEF TypeOK
  <2>3. QED
    BY <2>1, <2>2 DEF NoAbandonedJoin, TypeOK
<1>6. ASSUME NEW u \in Ids, Worker(u) PROVE \E c \in Clients : joinee'[c] = t
  <2>1. joinee' = joinee
    BY <1>6 DEF Worker, WorkerStarts, ProvideStopFn, ProvideFails, FnReturns, FnThrows, WorkerExits,
                WorkerIsGone
  <2>2. state[t] = "joining"
    BY <1>6 DEF Worker, WorkerStarts, ProvideStopFn, ProvideFails, Offer, FnReturns, FnThrows,
                WorkerExits, WorkerIsGone, TypeOK
  <2>3. QED
    BY <2>1, <2>2 DEF NoAbandonedJoin
<1>7. \A d \in Clients : ~JoinThrows(d)
  BY DEF JoinThrows
<1>8. QED
  BY <1>1, <1>2, <1>3, <1>4, <1>5, <1>6, <1>7, StepCases

\* Where thread::join is implemented, whoever claims a thread marks it joined.
THEOREM ClaimsKept == ASSUME ~JoinMayThrow PROVE Spec => []NoAbandonedJoin
<1>1. Init => NoAbandonedJoin
  BY DEF Init, NoAbandonedJoin
<1>2. TypeOK /\ ThreadInv /\ NoAbandonedJoin /\ [Next]_vars => NoAbandonedJoin'
  BY ClaimKept
<1>3. QED
  BY <1>1, <1>2, ThreadsTracked, PTL DEF Spec

----------------------------------------------------------------------------
(* The group implements WorkerPool.                                        *)

\* The phase of a thread depends on these only.
LEMMA PhaseSame ==
  ASSUME NEW t \in Ids,
         t > created' <=> t > created,
         state'[t] = "joined" <=> state[t] = "joined",
         run'[t] = "done" <=> run[t] = "done",
         created \in Nat, created' \in Nat
  PROVE  Phase(t)' = Phase(t)
BY GroupAssumption DEF Phase

LEMMA PoolInit == Init => Pool!Init
<1> SUFFICES ASSUME Init PROVE Pool!Init
  OBVIOUS
<1>1. \A t \in Ids : Phase(t) = "none"
  BY GroupAssumption DEF Init, Phase
<1>2. Told = {}
  BY DEF Init, Told
<1>3. QED
  BY <1>1, <1>2 DEF Pool!Init, Phases

\* A client's step moves only that client, and away from an answer only into a
\* new call.
LEMMA PcStep ==
  ASSUME TypeOK, NEW d \in Clients, Client(d)
  PROVE  \/ pc' = pc
         \/ \E x \in Pcs : pc' = [pc EXCEPT ![d] = x]
<1>1. pc' \in [Clients -> Pcs] /\ pc \in [Clients -> Pcs]
  BY TypeNext DEF Next, TypeOK
<1>2. pc' = pc \/ \E x : pc' = [pc EXCEPT ![d] = x]
  BY DEF Client, Advance, SetTarget, StartSomeNewThread, StartRunsOutOfMemory,
         NothingToStart, CompareToStop, StartOrStopReturns, ReadCountToStop, StopOne,
         StopEnds, BeginStop, CallJoin, JoinClearsTarget, JoinReturnsTrue, JoinStopsSome,
         JoinTimesOut, JoinKeepsWaiting, JoinClaims, JoinFindsNone, JoinWaits, JoinThrows,
         JoinMarks, StopFnThrows, StrandedStopThrows, FigureThrows, Goto
<1>3. QED
  BY <1>1, <1>2

\* A quiet step is at most an answer or the end of one.
LEMMA PoolQuiet ==
  ASSUME TypeOK, ThreadInv, [Next]_vars, Quiet
  PROVE  [Pool!Next]_(Pool!poolVars)
<1>1. Phases' = Phases
  <2>1. created \in Nat
    BY DEF TypeOK
  <2>2. \A t \in Ids : Phase(t)' = Phase(t)
    BY <2>1, PhaseSame DEF Quiet
  <2>3. QED
    BY <2>2 DEF Phases
<1>2. CASE Told' = Told
  BY <1>1, <1>2 DEF Pool!poolVars
<1>3. CASE Told' # Told
  <2>1. PICK d \in Clients, x \in Pcs : pc' = [pc EXCEPT ![d] = x]
    <3>1. pc' # pc
      BY <1>3 DEF Told
    <3>2. \A t \in Ids : Worker(t) => pc' = pc
      BY DEF Worker, WorkerStarts, ProvideStopFn, ProvideFails, FnReturns, FnThrows, WorkerExits,
             WorkerIsGone
    <3>3. CpusChange \/ UNCHANGED vars => pc' = pc
      BY DEF CpusChange, vars
    <3>4. PICK d \in Clients : Client(d)
      BY <3>1, <3>2, <3>3 DEF Next
    <3>5. QED
      BY <3>1, <3>4, PcStep
  <2>2. pc \in [Clients -> Pcs]
    BY DEF TypeOK
  <2>3. CASE x = "true"
    <3>1. pc'[d] = "true" /\ pc[d] # "true"
      BY <1>3, <2>1, <2>2, <2>3 DEF Told
    <3>2. \A t \in 1..created : state[t] = "joined"
      BY <3>1, TruthStep
    <3>3. \A t \in Ids : Phases[t] \in {"none", "reaped"}
      BY <3>2, GroupAssumption DEF Phases, Phase, TypeOK
    <3>4. Told' = Told \cup {d}
      BY <2>1, <2>2, <2>3 DEF Told
    <3>5. Pool!TellAllExited(d)
      BY <1>1, <3>3, <3>4 DEF Pool!TellAllExited, Pool!AllReaped
    <3>6. QED
      BY <3>5 DEF Pool!Next
  <2>4. CASE x # "true"
    <3>1. Told' = Told \ {d} /\ d \in Told
      BY <1>3, <2>1, <2>2, <2>4 DEF Told
    <3>2. Pool!Call(d)
      BY <1>1, <3>1 DEF Pool!Call
    <3>3. QED
      BY <3>2 DEF Pool!Next
  <2>5. QED
    BY <2>3, <2>4
<1>4. QED
  BY <1>2, <1>3

LEMMA PoolStart ==
  ASSUME TypeOK, ThreadInv, NEW d \in Clients, NEW b \in BOOLEAN, StartSomeNewThread(d, b)
  PROVE  Pool!Launch(created + 1)
<1>1. created + 1 \in Ids /\ created \in Nat
  BY GroupAssumption DEF StartSomeNewThread, TypeOK
<1>2. PICK n \in Ids : n = created + 1 /\ created \in Nat
  BY <1>1
<1>3. /\ pc[d] = "loop" /\ created' = n
      /\ state' = [state EXCEPT ![n] = "starting"]
      /\ run' = [run EXCEPT ![n] = IF b THEN "created" ELSE "absent"]
      /\ pc' = [pc EXCEPT ![d] = IF b THEN "loop" ELSE "idle"]
  BY <1>2 DEF StartSomeNewThread, Goto
<1>4. Told' = Told
  BY <1>3 DEF Told, TypeOK
<1>5. Phases[n] = "none" /\ Phase(n)' = "running"
  BY <1>3, <1>2 DEF Phases, Phase, TypeOK
<1>6. ASSUME NEW t \in Ids, t # n PROVE Phase(t)' = Phase(t)
  <2>1. state'[t] = state[t] /\ run'[t] = run[t]
    BY <1>3, <1>6 DEF TypeOK
  <2>2. created' \in Nat /\ (t > created' <=> t > created)
    BY <1>3, <1>2, <1>6, GroupAssumption
  <2>3. QED
    BY <1>2, <2>1, <2>2, PhaseSame
<1>7. Phases' = [Phases EXCEPT ![n] = "running"]
  BY <1>2, <1>5, <1>6 DEF Phases
<1>8. QED
  BY <1>2, <1>4, <1>5, <1>7 DEF Pool!Launch, Pool!Moves

\* A step that writes the state or the thread of one entry.
LEMMA OneEntry ==
  ASSUME TypeOK, NEW u \in Ids, created' = created,
         \A t \in Ids : t # u => state'[t] = state[t] /\ run'[t] = run[t]
  PROVE  Phases' = [Phases EXCEPT ![u] = Phase(u)']
<1>1. created \in Nat /\ created' \in Nat
  BY DEF TypeOK
<1>2. \A t \in Ids : t # u => Phase(t)' = Phase(t)
  BY <1>1, PhaseSame
<1>3. QED
  BY <1>2 DEF Phases

LEMMA PoolJoin ==
  ASSUME TypeOK, ThreadInv, NEW d \in Clients,
         JoinClaims(d) \/ JoinWaits(d) \/ JoinThrows(d) \/ JoinMarks(d)
  PROVE  [Pool!Next]_(Pool!poolVars)
<1>1. Told' = Told
  BY DEF JoinClaims, JoinWaits, JoinThrows, JoinMarks, Goto, Told, TypeOK
<1>2. created' = created /\ created \in Nat /\ run' = run
  BY DEF JoinClaims, JoinWaits, JoinThrows, JoinMarks, MarkJoined, entries, workers, TypeOK
<1>3. CASE JoinClaims(d) \/ JoinWaits(d) \/ JoinThrows(d)
  <2>1. \A t \in Ids : state'[t] = "joined" <=> state[t] = "joined"
    BY <1>3 DEF JoinClaims, Claim, Exiting, JoinWaits, JoinThrows, workers, TypeOK
  <2>2. \A t \in Ids : Phase(t)' = Phase(t)
    BY <1>2, <2>1, PhaseSame
  <2>3. Phases' = Phases
    BY <2>2 DEF Phases
  <2>4. QED
    BY <1>1, <2>3 DEF Pool!poolVars
<1>4. CASE JoinMarks(d)
  <2>1. /\ pc[d] = "join_mark" /\ joinee[d] \in infos
        /\ state' = [state EXCEPT ![joinee[d]] = "joined"]
        /\ state[joinee[d]] = "joining" /\ run[joinee[d]] = "done"
    BY <1>4 DEF JoinMarks, MarkJoined, ThreadInv, JoineeHeld, OneJoinerPerThread
  <2>2. PICK u \in Ids : /\ u \in infos /\ state[u] = "joining" /\ run[u] = "done"
                         /\ state' = [state EXCEPT ![u] = "joined"]
    BY <2>1 DEF TypeOK
  <2>3. u <= created
    BY <1>2, <2>2 DEF ThreadInv, EntriesAccounted
  <2>4. Phases[u] = "ended" /\ Phase(u)' = "reaped"
    BY <1>2, <2>2, <2>3 DEF Phases, Phase, TypeOK
  <2>5. Phases' = [Phases EXCEPT ![u] = "reaped"]
    <3>1. \A t \in Ids : t # u => state'[t] = state[t] /\ run'[t] = run[t]
      BY <1>2, <2>2 DEF TypeOK
    <3>2. QED
      BY <1>2, <2>2, <2>4, <3>1, OneEntry
  <2>6. Pool!Reap(u)
    BY <1>1, <2>4, <2>5 DEF Pool!Reap, Pool!Moves
  <2>7. QED
    BY <2>2, <2>6 DEF Pool!Next
<1>5. QED
  BY <1>3, <1>4

LEMMA PoolWorker ==
  ASSUME TypeOK, ThreadInv, NEW u \in Ids, Worker(u)
  PROVE  [Pool!Next]_(Pool!poolVars)
<1>1. /\ created' = created /\ pc' = pc
      /\ \A t \in Ids : t # u => state'[t] = state[t] /\ run'[t] = run[t]
  BY DEF Worker, WorkerStarts, ProvideStopFn, ProvideFails, Offer, FnReturns, FnThrows, WorkerExits,
         WorkerIsGone, entries, TypeOK
<1>2. Told' = Told
  BY <1>1 DEF Told
<1>3. Phases' = [Phases EXCEPT ![u] = Phase(u)']
  BY <1>1, OneEntry
<1>4. run[u] \in RunsOf(state[u]) /\ created \in Nat
  BY DEF ThreadInv, StateTellsRun, TypeOK
<1>5. CASE FnThrows(u) \/ WorkerIsGone(u)
  <2>1. /\ state' = state /\ run[u] \in {"fn", "tail"} /\ run'[u] = "done"
    BY <1>5 DEF FnThrows, WorkerIsGone, TypeOK
  <2>2. state[u] \notin {"not_started", "joined"}
    BY <1>4, <2>1 DEF RunsOf
  <2>3. u <= created
    BY <1>4, <2>2, GroupAssumption DEF ThreadInv, EntriesAccounted
  <2>4. Phases[u] = "running" /\ Phase(u)' = "ended"
    BY <1>1, <1>4, <2>1, <2>2, <2>3 DEF Phases, Phase
  <2>5. Pool!End(u)
    BY <1>2, <1>3, <2>4 DEF Pool!End, Pool!Moves
  <2>6. QED
    BY <2>5 DEF Pool!Next
<1>6. CASE \/ WorkerStarts(u) \/ ProvideStopFn(u) \/ ProvideFails(u)
           \/ FnReturns(u) \/ WorkerExits(u)
  <2>1. run'[u] = "done" <=> run[u] = "done"
    BY <1>6 DEF WorkerStarts, ProvideStopFn, ProvideFails, FnReturns, WorkerExits, TypeOK
  <2>2. state'[u] = "joined" <=> state[u] = "joined"
    BY <1>4, <1>6 DEF WorkerStarts, ProvideStopFn, ProvideFails, Offer, FnReturns, WorkerExits,
                      RunsOf, TypeOK
  <2>3. Phase(u)' = Phase(u)
    BY <1>1, <1>4, <2>1, <2>2, PhaseSame
  <2>4. Phases' = Phases
    BY <1>3, <2>3 DEF Phases
  <2>5. QED
    BY <1>2, <2>4 DEF Pool!poolVars
<1>7. QED
  BY <1>5, <1>6 DEF Worker

\* The group implements the abstract pool: threads are launched, end and are
\* reaped once each, and a join is told the truth.
THEOREM GroupIsAPool == Spec => ImplementsPool
<1>1. Init => Pool!Init
  BY PoolInit
<1>2. TypeOK /\ ThreadInv /\ [Next]_vars => [Pool!Next]_(Pool!poolVars)
  <2> SUFFICES ASSUME TypeOK, ThreadInv, [Next]_vars PROVE [Pool!Next]_(Pool!poolVars)
    OBVIOUS
  <2>1. ASSUME NEW d \in Clients, NEW b \in BOOLEAN, StartSomeNewThread(d, b)
        PROVE  Pool!Next
    <3>1. created + 1 \in Ids
      BY <2>1, GroupAssumption DEF StartSomeNewThread, TypeOK
    <3>2. QED
      BY <2>1, <3>1, PoolStart DEF Pool!Next
  <2>2. QED
    BY <2>1, StepCases, PoolQuiet, PoolJoin, PoolWorker
<1>3. QED
  BY <1>1, <1>2, ThreadsTracked, PTL DEF Spec, ImplementsPool, Pool!Spec

=============================================================================
