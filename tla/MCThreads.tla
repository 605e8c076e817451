----------------------------- MODULE MCThreads ------------------------------
(***************************************************************************)
(* What threads do by themselves and to each other, for TLC: start and     *)
(* join, lock a mutex, sleep, and share an atomic.  These share no state:  *)
(* a behaviour chooses one of them at its beginning, in one of the builds  *)
(* there are, and the others stay as they are.                             *)
(***************************************************************************)
EXTENDS Thread, Mutex, Sleep, Atomic

CONSTANTS
    t1, t2      \* two of the threads

VARIABLE
    part        \* what is chosen

partsVars == <<part, vars, mutexVars, sleepVars, atomicVars>>

-----------------------------------------------------------------------------
\* The mutex of module Mutex is a critical section, which threads relock.  This is the other one.
MP == INSTANCE Mutex WITH Win32 <- FALSE, MayRelock <- FALSE

\* The threads that share the atomic.
TwoThreads == {t1, t2}

ASSUME PartsAssumption ==
    /\ MutexAssumption /\ MP!MutexAssumption
    /\ SleepAssumption /\ AtomicAssumption

-----------------------------------------------------------------------------
\* What is not chosen has one initial state.
PartsInit ==
    /\ part \in {"thread", "mutexWin32", "mutexPosix", "sleep", "atomic"}
    /\ Init /\ MutexInit /\ SleepInit /\ AtomicInit
    /\ part # "sleep" => errno = "EINTR" /\ posix

ThreadRuns ==
    /\ part = "thread" /\ Next
    /\ UNCHANGED <<part, mutexVars, sleepVars, atomicVars>>

MutexRuns ==
    /\ \/ part = "mutexWin32" /\ MutexNext
       \/ part = "mutexPosix" /\ MP!MutexNext
    /\ UNCHANGED <<part, vars, sleepVars, atomicVars>>

SleepRuns ==
    /\ part = "sleep" /\ SleepNext
    /\ UNCHANGED <<part, vars, mutexVars, atomicVars>>

AtomicRuns ==
    /\ part = "atomic" /\ AtomicNext
    /\ UNCHANGED <<part, vars, mutexVars, sleepVars>>

\* No thread was made or it is gone, or the bound of the atomic's operations is reached.
Finished ==
    /\ \/ part = "thread" /\ (startPc = "threw" \/ threadPc = "gone")
       \/ part = "atomic" /\ \A t \in Workers : rounds[t] = 0
    /\ UNCHANGED partsVars

PartsNext == ThreadRuns \/ MutexRuns \/ SleepRuns \/ AtomicRuns \/ Finished

(***************************************************************************)
(* Fairness, which each of the modules explains: a thread inside a call    *)
(* goes on.  One that could be admitted to a mutex, let go of it or        *)
(* exchange an atomic again and again does so in the end (the last two are *)
(* taken together, only one part being chosen).                            *)
(***************************************************************************)
JoinGoesOn(c) == part = "thread" /\ (JoinSeesExit(c) \/ JoinReports(c))
LoopRuns(t) == part = "atomic" /\ LoopGoesOn(t)
Admitted(t) == \/ part = "mutexWin32" /\ Advance(t)
               \/ part = "mutexPosix" /\ MP!Advance(t)
GetsThere(t) ==
    \/ /\ part \in {"mutexWin32", "mutexPosix"} /\ LetsGo(t)
       /\ UNCHANGED atomicVars
    \/ /\ part = "atomic" /\ t \in Workers /\ Exchanges(t)
       /\ UNCHANGED mutexVars

PartsSpec ==
    /\ PartsInit /\ [][PartsNext]_partsVars
    /\ WF_vars(part = "thread" /\ Runner) /\ \A c \in Clients : WF_vars(JoinGoesOn(c))
    /\ \A t \in Workers : WF_atomicVars(LoopRuns(t))
    /\ \A t \in Threads : SF_mutexVars(Admitted(t))
    /\ \A t \in Threads : SF_<<mutexVars, atomicVars>>(GetsThere(t))

-----------------------------------------------------------------------------
\* Every variable of every module stays in its range.
PartsTypeOK == TypeOK /\ MutexTypeOK /\ SleepTypeOK /\ AtomicTypeOK
=============================================================================
