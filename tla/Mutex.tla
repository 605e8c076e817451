------------------------------- MODULE Mutex -------------------------------
(***************************************************************************)
(* A qak::mutex, its mutex_lock objects and the threads that use them.     *)
(*                                                                         *)
(* The mutex keeps the id of its owning thread next to the operating       *)
(* system's mutex (POSIX) or critical section (Win32).  Every read and     *)
(* write of the id and every call of the system is a step of its own.      *)
(* A mutex_lock object belongs to one thread, as the assertions in its     *)
(* move constructor and destructor demand.                                 *)
(***************************************************************************)
EXTENDS Naturals, FiniteSets

CONSTANTS
    Threads,    \* threads that use the mutex
    NoOne,      \* invalid_thread_id_value
    Objects,    \* bound: the mutex_lock objects each thread has room for
    Win32,      \* QAK_THREAD_WIN32, otherwise QAK_THREAD_PTHREAD
    MayRelock   \* whether a thread may call lock() while it has the lock

MutexAssumption ==
    /\ NoOne \notin Threads
    /\ Win32 \in BOOLEAN /\ MayRelock \in BOOLEAN

VARIABLES
    owner,      \* OWNING_THREAD_ID, atomic
    osOwner,    \* the thread inside the system's mutex
    depth,      \* how often it has entered: a critical section is recursive
    object,     \* what p_m_ of each thread's mutex_lock objects is
    pc          \* where each thread is in its call

mutexVars == <<owner, osOwner, depth, object, pc>>

\* Not constructed; p_m_ is null; p_m_ points to the mutex.
ObjectStates == {"none", "null", "locking"}

\* "threw" and "busy": the thread's last call threw, or was a try_lock that failed.
Idle == {"idle", "threw", "busy"}

Pcs == Idle \cup {"lock", "entered", "relocked", "try", "tried", "leave"}

MutexInit ==
    /\ owner = NoOne /\ osOwner = NoOne /\ depth = 0
    /\ object = [t \in Threads |-> [o \in Objects |-> "none"]]
    /\ pc = [t \in Threads |-> "idle"]

Goto(t, label) == pc' = [pc EXCEPT ![t] = label]

Put(t, o, s) == object' = [object EXCEPT ![t][o] = s]

\* Bound: t has room for one more mutex_lock.
HasRoom(t) == \E o \in Objects : object[t][o] = "none"

\* t has a mutex_lock that locks the mutex.
Holds(t) == \E o \in Objects : object[t][o] = "locking"

----------------------------------------------------------------------------
(* The operating system's calls.                                           *)

\* A pthread mutex admits nobody while it is owned; a critical section admits
\* its owner again.
OsAdmits(t) == osOwner = NoOne \/ (Win32 /\ osOwner = t)

OsEnter(t) == osOwner' = t /\ depth' = depth + 1

OsLeave ==
    /\ depth' = depth - 1
    /\ osOwner' = IF depth = 1 THEN NoOne ELSE osOwner

----------------------------------------------------------------------------
(* lock.                                                                   *)

CallLock(t) ==
    /\ pc[t] \in Idle
    /\ HasRoom(t)
    /\ Holds(t) => MayRelock
    /\ Goto(t, "lock")
    /\ UNCHANGED <<owner, osOwner, depth, object>>

\* pthread_mutex_lock, EnterCriticalSection: block until admitted.
EnterBlocking(t) ==
    /\ pc[t] = "lock" /\ OsAdmits(t)
    /\ OsEnter(t)
    /\ Goto(t, "entered")
    /\ UNCHANGED <<owner, object>>

\* Only Win32 checks whether the thread already owned the mutex.
Relocked(t) == Win32 /\ owner = t

FindsItRelocked(t) ==
    /\ pc[t] = "entered" /\ Relocked(t)
    /\ Goto(t, "relocked")
    /\ UNCHANGED <<owner, osOwner, depth, object>>

LeavesAndThrows(t) ==
    /\ pc[t] = "relocked"
    /\ OsLeave
    /\ Goto(t, "threw")
    /\ UNCHANGED <<owner, object>>

\* The owner is recorded and the mutex_lock constructed, in lock and in try_lock.
Locks(t) ==
    /\ \/ pc[t] = "entered" /\ ~Relocked(t)
       \/ pc[t] = "tried"
    /\ owner' = t
    /\ \E o \in Objects : object[t][o] = "none" /\ Put(t, o, "locking")
    /\ Goto(t, "idle")
    /\ UNCHANGED <<osOwner, depth>>

----------------------------------------------------------------------------
(* try_lock.                                                               *)

\* Mutant: try_lock does not look whether the thread has the mutex.
TryUnchecked(t) == "try"

TryGoesTo(t) == IF owner = t THEN "threw" ELSE "try"

CallTryLock(t) ==
    /\ pc[t] \in Idle
    /\ HasRoom(t)
    /\ Goto(t, TryGoesTo(t))
    /\ UNCHANGED <<owner, osOwner, depth, object>>

TryFails(t) ==
    /\ pc[t] = "try" /\ ~OsAdmits(t)
    /\ Goto(t, "busy")
    /\ UNCHANGED <<owner, osOwner, depth, object>>

TryEnters(t) ==
    /\ pc[t] = "try" /\ OsAdmits(t)
    /\ OsEnter(t)
    /\ Goto(t, "tried")
    /\ UNCHANGED <<owner, object>>

----------------------------------------------------------------------------
(* mutex_lock: its move constructor and its destructor.                    *)

\* Mutants: the object moved from keeps its pointer; the new one does not get it.
CopyObject(t, o, p) == o \in Objects /\ Put(t, p, "locking")
LoseObject(t, o, p) == object' = [object EXCEPT ![t][o] = "null", ![t][p] = "null"]

MoveObject(t, o, p) ==
    object' = [object EXCEPT ![t][o] = "null", ![t][p] = "locking"]

Move(t, o, p) ==
    /\ pc[t] \in Idle
    /\ object[t][o] = "locking" /\ object[t][p] = "none"
    /\ MoveObject(t, o, p)
    /\ UNCHANGED <<owner, osOwner, depth, pc>>

\* The destructor of an object that was moved from does nothing.
DestroyNull(t, o) ==
    /\ pc[t] \in Idle
    /\ object[t][o] = "null"
    /\ Put(t, o, "none")
    /\ UNCHANGED <<owner, osOwner, depth, pc>>

\* Mutant: the destructor does not clear the owner before it leaves.
OwnerKept == owner' = owner

ClearOwner == owner' = NoOne

\* The destructor of an object that locks clears the owner first ...
Destroy(t, o) ==
    /\ pc[t] \in Idle
    /\ object[t][o] = "locking"
    /\ ClearOwner
    /\ Put(t, o, "none")
    /\ Goto(t, "leave")
    /\ UNCHANGED <<osOwner, depth>>

\* ... and then lets the next thread in.
Leaves(t) ==
    /\ pc[t] = "leave"
    /\ OsLeave
    /\ Goto(t, "idle")
    /\ UNCHANGED <<owner, object>>

----------------------------------------------------------------------------
\* What a thread inside a call does next by itself.
Advance(t) ==
    \/ EnterBlocking(t) \/ FindsItRelocked(t) \/ LeavesAndThrows(t) \/ Locks(t)
    \/ TryFails(t) \/ TryEnters(t) \/ Leaves(t)

ThreadNext(t) ==
    \/ Advance(t)
    \/ CallLock(t) \/ CallTryLock(t)
    \/ \E o \in Objects : DestroyNull(t, o) \/ Destroy(t, o)
    \/ \E o, p \in Objects : Move(t, o, p)

MutexNext == \E t \in Threads : ThreadNext(t)

MutexSpec == MutexInit /\ [][MutexNext]_mutexVars

(***************************************************************************)
(* Fairness.  A thread inside a call keeps running and is admitted in the  *)
(* end if the mutex becomes free again and again, which is the operating   *)
(* system's part.  A thread that has the lock lets go of it in the end,    *)
(* which is the caller's.                                                  *)
(***************************************************************************)
LetsGo(t) == \E o \in Objects : Destroy(t, o)

MutexFairSpec ==
    /\ MutexSpec
    /\ \A t \in Threads : SF_mutexVars(Advance(t)) /\ SF_mutexVars(LetsGo(t))

----------------------------------------------------------------------------
(* Properties.                                                             *)

\* Every variable stays in the range the program gives it; a thread never
\* enters the system's mutex more than twice.
MutexTypeOK ==
    /\ owner \in Threads \cup {NoOne}
    /\ osOwner \in Threads \cup {NoOne}
    /\ depth \in 0..2
    /\ object \in [Threads -> [Objects -> ObjectStates]]
    /\ pc \in [Threads -> Pcs]

\* A thread that has just been admitted, and does not relock, finds no owner:
\* the assertions of lines 202, 218, 284 and 295 hold although owners clear the
\* id outside the section that admits the next thread.
NoOwnerOnEntry ==
    \A t \in Threads :
        (pc[t] = "entered" /\ ~Relocked(t)) \/ pc[t] = "tried" => owner = NoOne

\* "The existence of a mutex_lock means that a mutex is actually locked"
\* (mutex.hxx), by the object's thread, and is_locked_by_this_thread, which
\* reads the id without any lock, answers right whatever other threads do.
LockObjectsTellOwner ==
    \A t \in Threads :
        /\ Holds(t) => osOwner = t
        /\ owner = t <=> Holds(t)

\* The mutex is locked through one mutex_lock at most, wherever it was moved.
OneLockObject ==
    \A t, u \in Threads : \A o, p \in Objects :
        object[t][o] = "locking" /\ object[u][p] = "locking" => t = u /\ o = p

\* lock and try_lock throw only to a thread that has the lock, and leave it the
\* lock.
ThrowsOnlyToHolder ==
    [][\A t \in Threads : pc'[t] = "threw" /\ pc[t] # "threw" =>
          Holds(t) /\ Holds(t)' /\ osOwner' = t]_mutexVars

\* For its callers the mutex keeps what module MutexPromise says: a thread has
\* it from the return of lock or try_lock to the call of the destructor.
LockedBy == {t \in Threads : Holds(t)}

AbstractLock == INSTANCE MutexPromise WITH lockedBy <- LockedBy

ImplementsLock == AbstractLock!Promised

\* lock "throws if the mutex is already locked by the current thread"
\* (mutex.hxx, line 55).
RelockThrows ==
    \A t \in Threads : pc[t] = "lock" /\ Holds(t) ~> pc[t] = "threw"

\* lock returns or throws when those who have the lock let go of it.
LockReturns == \A t \in Threads : pc[t] = "lock" ~> pc[t] \in Idle

----------------------------------------------------------------------------
(* The inductive invariant behind the safety properties.                   *)

\* Where a thread must be inside the system's mutex.
Inside(t) == Holds(t) \/ pc[t] \in {"entered", "relocked", "tried", "leave"}

\* The system's mutex, the id and the threads' places agree.
SystemAgrees ==
    /\ \A t \in Threads : osOwner = t <=> Inside(t)
    /\ \A t \in Threads : Inside(t) =>
          depth = IF Holds(t) /\ pc[t] \in {"entered", "relocked"} THEN 2 ELSE 1
    /\ osOwner = NoOne => depth = 0
    /\ \A t \in Threads :
          /\ pc[t] = "relocked" => Holds(t)
          /\ pc[t] = "entered" /\ Holds(t) => Win32
          /\ pc[t] \in {"try", "tried", "leave"} => ~Holds(t)
=============================================================================
