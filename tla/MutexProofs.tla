---------------------------- MODULE MutexProofs ----------------------------
(***************************************************************************)
(* Proofs about Mutex, for any number of threads and lock objects, on both *)
(* platforms.                                                              *)
(***************************************************************************)
EXTENDS Mutex, TLAPS

\* The inductive invariant.
MutexInv == MutexTypeOK /\ SystemAgrees /\ LockObjectsTellOwner /\ OneLockObject

\* What writing one lock object does to the others.
LEMMA PutObject ==
  ASSUME MutexTypeOK, NEW t \in Threads, NEW o \in Objects, NEW s, Put(t, o, s)
  PROVE  \A u \in Threads, p \in Objects :
            object'[u][p] = IF u = t /\ p = o THEN s ELSE object[u][p]
BY DEF MutexTypeOK, Put

LEMMA MutexInitHolds == ASSUME MutexAssumption PROVE MutexInit => MutexInv
<1> SUFFICES ASSUME MutexInit PROVE MutexInv
  OBVIOUS
<1>1. MutexTypeOK
  BY MutexAssumption DEF MutexAssumption, MutexInit, MutexTypeOK, ObjectStates, Pcs, Idle
<1>2. \A t \in Threads : ~Holds(t) /\ ~Inside(t)
  BY DEF MutexInit, Holds, Inside
<1>3. SystemAgrees
  BY <1>2, MutexAssumption DEF MutexAssumption, MutexInit, SystemAgrees
<1>4. LockObjectsTellOwner
  BY <1>2, MutexAssumption DEF MutexAssumption, MutexInit, LockObjectsTellOwner
<1>5. OneLockObject
  BY DEF MutexInit, OneLockObject
<1>6. QED
  BY <1>1, <1>3, <1>4, <1>5 DEF MutexInv

\* A step that writes no lock object and no owner id.
LEMMA ObjectsKept ==
  ASSUME UNCHANGED object
  PROVE  /\ \A t \in Threads : Holds(t)' <=> Holds(t)
         /\ OneLockObject => OneLockObject'
BY DEF Holds, OneLockObject

\* Calls that stay outside the system's mutex.
LEMMA OutsideKeeps ==
  ASSUME MutexAssumption, MutexInv, NEW t \in Threads,
         CallLock(t) \/ CallTryLock(t) \/ TryFails(t) \/ FindsItRelocked(t)
  PROVE  MutexInv'
<1> USE DEF MutexInv
<1>1. UNCHANGED <<owner, osOwner, depth, object>>
  BY DEF CallLock, CallTryLock, TryFails, FindsItRelocked
<1>2. PICK x \in {"lock", "threw", "try", "busy", "relocked"} :
         /\ pc' = [pc EXCEPT ![t] = x]
         /\ x = "relocked" => pc[t] = "entered" /\ owner = t
         /\ x # "relocked" => pc[t] \in Idle \cup {"try"}
         /\ x = "try" => owner # t
  BY DEF CallLock, CallTryLock, TryGoesTo, TryFails, FindsItRelocked, Relocked, Goto
<1>3. MutexTypeOK'
  BY <1>1, <1>2 DEF MutexTypeOK, Pcs, Idle
<1>4. \A u \in Threads : Holds(u)' <=> Holds(u)
  BY <1>1, ObjectsKept
<1>5. \A u \in Threads : Inside(u)' <=> Inside(u)
  BY <1>2, <1>4 DEF Inside, Idle, MutexTypeOK
<1>6. LockObjectsTellOwner' /\ OneLockObject'
  BY <1>1, <1>4, ObjectsKept DEF LockObjectsTellOwner
<1>7. SystemAgrees'
  <2>1. \A u \in Threads : pc'[u] = IF u = t THEN x ELSE pc[u]
    BY <1>2 DEF MutexTypeOK
  <2>2. pc[t] = "entered" \/ pc[t] \notin {"entered", "relocked"}
    BY <1>2 DEF Idle
  <2>3. owner = t => Holds(t)
    BY DEF LockObjectsTellOwner
  <2>4. \A u \in Threads : Inside(u)' =>
           depth' = IF Holds(u)' /\ pc'[u] \in {"entered", "relocked"} THEN 2 ELSE 1
    BY <1>1, <1>2, <1>4, <1>5, <2>1, <2>2 DEF SystemAgrees, Idle
  <2>5. \A u \in Threads :
          /\ pc'[u] = "relocked" => Holds(u)'
          /\ pc'[u] = "entered" /\ Holds(u)' => Win32
          /\ pc'[u] \in {"try", "tried", "leave"} => ~Holds(u)'
    BY <1>2, <1>4, <2>1, <2>3 DEF SystemAgrees, LockObjectsTellOwner
  <2>6. QED
    BY <1>1, <1>5, <2>4, <2>5 DEF SystemAgrees
<1>8. QED
  BY <1>3, <1>6, <1>7

\* The system admits a thread, or lets it leave.
LEMMA SystemKeeps ==
  ASSUME MutexAssumption, MutexInv, NEW t \in Threads,
         EnterBlocking(t) \/ TryEnters(t) \/ LeavesAndThrows(t) \/ Leaves(t)
  PROVE  MutexInv'
<1> USE DEF MutexInv
<1>1. owner' = owner /\ object' = object
  BY DEF EnterBlocking, TryEnters, LeavesAndThrows, Leaves
<1>2. \A u \in Threads : Holds(u)' <=> Holds(u)
  BY <1>1, ObjectsKept
<1>3. OneLockObject'
  BY <1>1, ObjectsKept
<1>4. CASE EnterBlocking(t) \/ TryEnters(t)
  <2>1. PICK x \in {"entered", "tried"} :
           /\ pc' = [pc EXCEPT ![t] = x]
           /\ x = "entered" => pc[t] = "lock"
           /\ x = "tried" => pc[t] = "try"
           /\ OsAdmits(t) /\ osOwner' = t /\ depth' = depth + 1
    BY <1>4 DEF EnterBlocking, TryEnters, OsEnter, Goto
  <2>2. \A u \in Threads : pc'[u] = IF u = t THEN x ELSE pc[u]
    BY <2>1 DEF MutexTypeOK
  <2>3. x = "tried" => ~Holds(t)
    BY <2>1 DEF SystemAgrees
  <2>4. /\ osOwner \in {NoOne, t}
        /\ osOwner = NoOne <=> ~Holds(t)
        /\ Holds(t) => Win32
        /\ depth = IF Holds(t) THEN 1 ELSE 0
    BY <2>1, <2>3, MutexAssumption DEF MutexAssumption, OsAdmits, SystemAgrees, Inside, MutexTypeOK
  <2>5. depth' = IF Holds(t) THEN 2 ELSE 1
    BY <2>1, <2>4
  <2>6. \A u \in Threads : Inside(u)' <=> u = t
    BY <1>2, <2>1, <2>2, <2>4, MutexAssumption DEF MutexAssumption, Inside, SystemAgrees
  <2>7. MutexTypeOK'
    BY <1>1, <2>1, <2>5 DEF MutexTypeOK, Pcs, Idle
  <2>8. SystemAgrees'
    BY <1>2, <2>1, <2>2, <2>3, <2>4, <2>5, <2>6, MutexAssumption DEF MutexAssumption, SystemAgrees
  <2>9. LockObjectsTellOwner'
    BY <1>1, <1>2, <2>1, <2>6 DEF LockObjectsTellOwner, Inside
  <2>10. QED
    BY <1>3, <2>7, <2>8, <2>9
<1>5. CASE LeavesAndThrows(t)
  <2>1. /\ pc' = [pc EXCEPT ![t] = "threw"] /\ pc[t] = "relocked" /\ OsLeave
    BY <1>5 DEF LeavesAndThrows, Goto
  <2>2. \A u \in Threads : pc'[u] = IF u = t THEN "threw" ELSE pc[u]
    BY <2>1 DEF MutexTypeOK
  <2>3. Holds(t) /\ osOwner = t /\ depth = 2
    BY <2>1 DEF SystemAgrees, Inside
  <2>4. osOwner' = t /\ depth' = 1
    BY <2>1, <2>3 DEF OsLeave
  <2>5. \A u \in Threads : Inside(u)' <=> Inside(u)
    BY <1>2, <2>1, <2>2, <2>3 DEF Inside
  <2>6. MutexTypeOK'
    BY <1>1, <2>1, <2>4 DEF MutexTypeOK, Pcs, Idle
  <2>7. SystemAgrees'
    BY <1>2, <2>2, <2>3, <2>4, <2>5, MutexAssumption DEF MutexAssumption, SystemAgrees
  <2>8. LockObjectsTellOwner'
    BY <1>1, <1>2, <2>3, <2>4 DEF LockObjectsTellOwner
  <2>9. QED
    BY <1>3, <2>6, <2>7, <2>8
<1>6. CASE Leaves(t)
  <2>1. /\ pc' = [pc EXCEPT ![t] = "idle"] /\ pc[t] = "leave" /\ OsLeave
    BY <1>6 DEF Leaves, Goto
  <2>2. \A u \in Threads : pc'[u] = IF u = t THEN "idle" ELSE pc[u]
    BY <2>1 DEF MutexTypeOK
  <2>3. ~Holds(t) /\ osOwner = t /\ depth = 1
    BY <2>1 DEF SystemAgrees, Inside
  <2>4. osOwner' = NoOne /\ depth' = 0
    BY <2>1, <2>3 DEF OsLeave
  <2>5. \A u \in Threads : ~Inside(u)'
    BY <1>2, <2>2, <2>3 DEF Inside, SystemAgrees
  <2>6. MutexTypeOK'
    BY <1>1, <2>1, <2>4 DEF MutexTypeOK, Pcs, Idle
  <2>7. SystemAgrees'
    BY <1>2, <2>2, <2>4, <2>5, MutexAssumption DEF MutexAssumption, SystemAgrees
  <2>8. LockObjectsTellOwner'
    BY <1>1, <1>2, <2>5 DEF LockObjectsTellOwner, Inside
  <2>9. QED
    BY <1>3, <2>6, <2>7, <2>8
<1>7. QED
  BY <1>4, <1>5, <1>6

\* A thread that takes the mutex over had no lock object of its own.
LEMMA LocksFrom ==
  ASSUME MutexAssumption, MutexInv, NEW t \in Threads, Locks(t)
  PROVE  pc[t] \in {"entered", "tried"} /\ ~Holds(t)
BY DEF MutexInv, Locks, Relocked, SystemAgrees, LockObjectsTellOwner

LEMMA LocksKeeps ==
  ASSUME MutexAssumption, MutexInv, NEW t \in Threads, Locks(t)
  PROVE  MutexInv'
<1> USE DEF MutexInv
<1>1. pc[t] \in {"entered", "tried"} /\ ~Holds(t)
  BY LocksFrom
<1>2. PICK o \in Objects : Put(t, o, "locking")
  BY DEF Locks
<1>3. /\ owner' = t /\ pc' = [pc EXCEPT ![t] = "idle"]
      /\ osOwner' = osOwner /\ depth' = depth
  BY DEF Locks, Goto
<1>4. \A u \in Threads, p \in Objects :
         object'[u][p] = IF u = t /\ p = o THEN "locking" ELSE object[u][p]
  BY <1>2, PutObject
<1>5. osOwner = t /\ depth = 1
  BY <1>1 DEF SystemAgrees, Inside
<1>6. \A u \in Threads : u # t => ~Inside(u)
  BY <1>5 DEF SystemAgrees
<1>7. \A u \in Threads : Holds(u)' <=> u = t
  BY <1>4, <1>6 DEF Holds, Inside
<1>8. \A u \in Threads : pc'[u] = IF u = t THEN "idle" ELSE pc[u]
  BY <1>3 DEF MutexTypeOK
<1>9. \A u \in Threads : Inside(u)' <=> u = t
  BY <1>6, <1>7, <1>8 DEF Inside
<1>10. MutexTypeOK'
  BY <1>2, <1>3 DEF MutexTypeOK, Put, Pcs, Idle, ObjectStates
<1>11. SystemAgrees'
  BY <1>3, <1>5, <1>6, <1>7, <1>8, <1>9, MutexAssumption DEF MutexAssumption, SystemAgrees, Inside
<1>12. LockObjectsTellOwner'
  BY <1>3, <1>5, <1>7 DEF LockObjectsTellOwner
<1>13. OneLockObject'
  BY <1>1, <1>4, <1>6 DEF OneLockObject, Holds, Inside
<1>14. QED
  BY <1>10, <1>11, <1>12, <1>13

LEMMA DestroyKeeps ==
  ASSUME MutexAssumption, MutexInv, NEW t \in Threads, NEW o \in Objects, Destroy(t, o)
  PROVE  MutexInv'
<1> USE DEF MutexInv
<1>1. /\ pc[t] \in Idle /\ object[t][o] = "locking" /\ Put(t, o, "none")
      /\ owner' = NoOne /\ pc' = [pc EXCEPT ![t] = "leave"]
      /\ osOwner' = osOwner /\ depth' = depth
  BY DEF Destroy, ClearOwner, Goto
<1>2. \A u \in Threads, p \in Objects :
         object'[u][p] = IF u = t /\ p = o THEN "none" ELSE object[u][p]
  BY <1>1, PutObject
<1>3. Holds(t) /\ osOwner = t /\ depth = 1
  BY <1>1 DEF Holds, SystemAgrees, Inside, Idle
<1>4. \A u \in Threads : u # t => ~Inside(u)
  BY <1>3 DEF SystemAgrees
<1>5. \A u \in Threads : ~Holds(u)'
  BY <1>1, <1>2, <1>4 DEF Holds, Inside, OneLockObject
<1>6. \A u \in Threads : pc'[u] = IF u = t THEN "leave" ELSE pc[u]
  BY <1>1 DEF MutexTypeOK
<1>7. \A u \in Threads : Inside(u)' <=> u = t
  BY <1>4, <1>5, <1>6 DEF Inside
<1>8. MutexTypeOK'
  BY <1>1 DEF MutexTypeOK, Put, Pcs, Idle, ObjectStates
<1>9. SystemAgrees'
  BY <1>1, <1>3, <1>4, <1>5, <1>6, <1>7, MutexAssumption DEF MutexAssumption, SystemAgrees, Inside
<1>10. LockObjectsTellOwner'
  BY <1>1, <1>5, MutexAssumption DEF MutexAssumption, LockObjectsTellOwner
<1>11. OneLockObject'
  BY <1>5 DEF OneLockObject, Holds
<1>12. QED
  BY <1>8, <1>9, <1>10, <1>11

\* Moving the lock from one object to another, or destroying an empty one.
LEMMA ObjectKeeps ==
  ASSUME MutexAssumption, MutexInv, NEW t \in Threads, NEW o \in Objects, NEW p \in Objects,
         Move(t, o, p) \/ DestroyNull(t, o)
  PROVE  MutexInv'
<1> USE DEF MutexInv
<1>1. UNCHANGED <<owner, osOwner, depth, pc>>
  BY DEF Move, DestroyNull
<1>2. object' \in [Threads -> [Objects -> ObjectStates]]
  BY DEF Move, MoveObject, DestroyNull, Put, MutexTypeOK, ObjectStates
<1>3. \A u \in Threads, q \in Objects : u # t => object'[u][q] = object[u][q]
  BY DEF Move, MoveObject, DestroyNull, Put, MutexTypeOK
<1>4. (\A u \in Threads : Holds(u)' <=> Holds(u)) /\ OneLockObject'
  <2>1. CASE Move(t, o, p)
    <3>1. /\ object[t][o] = "locking" /\ object[t][p] = "none"
          /\ object'[t][o] = "null" /\ object'[t][p] = "locking"
          /\ \A q \in Objects : q # o /\ q # p => object'[t][q] = object[t][q]
      BY <2>1 DEF Move, MoveObject, MutexTypeOK
    <3>2. \A u \in Threads, q \in Objects :
             object'[u][q] = "locking" <=> u = t /\ q = p
      BY <1>3, <3>1 DEF OneLockObject
    <3>3. \A u \in Threads : Holds(u)' <=> u = t
      BY <3>2 DEF Holds
    <3>4. \A u \in Threads : Holds(u) <=> u = t
      BY <3>1 DEF Holds, OneLockObject
    <3>5. QED
      BY <3>2, <3>3, <3>4 DEF OneLockObject
  <2>2. CASE DestroyNull(t, o)
    <3>1. \A u \in Threads, q \in Objects :
             object'[u][q] = "locking" <=> object[u][q] = "locking"
      BY <1>3, <2>2 DEF DestroyNull, Put, MutexTypeOK
    <3>2. QED
      BY <3>1 DEF Holds, OneLockObject
  <2>3. QED
    BY <2>1, <2>2
<1>5. \A u \in Threads : Inside(u)' <=> Inside(u)
  BY <1>1, <1>4 DEF Inside
<1>6. MutexTypeOK'
  BY <1>1, <1>2 DEF MutexTypeOK
<1>7. SystemAgrees' /\ LockObjectsTellOwner'
  BY <1>1, <1>4, <1>5 DEF SystemAgrees, LockObjectsTellOwner
<1>8. QED
  BY <1>4, <1>6, <1>7

LEMMA MutexNextKeeps == ASSUME MutexAssumption PROVE MutexInv /\ [MutexNext]_mutexVars => MutexInv'
<1>1. ASSUME MutexInv, UNCHANGED mutexVars PROVE MutexInv'
  BY <1>1 DEF mutexVars, MutexInv, MutexTypeOK, SystemAgrees, LockObjectsTellOwner, OneLockObject,
              Holds, Inside
<1>2. QED
  BY <1>1, OutsideKeeps, SystemKeeps, LocksKeeps, DestroyKeeps, ObjectKeeps
     DEF MutexNext, ThreadNext, Advance

\* The system's mutex, the owner's id and the lock objects agree in every
\* interleaving of threads that lock, try, move and release.
THEOREM MutexAgrees == ASSUME MutexAssumption PROVE MutexSpec => []MutexInv
  BY MutexInitHolds, MutexNextKeeps, PTL DEF MutexSpec

\* The id of the owner, the recursion count and every thread's place keep their ranges: a thread is
\* never more than twice inside the system's mutex (lines 190-225, 270-300 of mutex.cxx).
THEOREM MutexTypes == ASSUME MutexAssumption PROVE MutexSpec => []MutexTypeOK
<1>1. MutexInv => MutexTypeOK
  BY DEF MutexInv
<1>2. QED
  BY <1>1, MutexAgrees, PTL

\* The system's mutex has just the thread inside that the places of all threads tell.
THEOREM SystemKnowsOwner == ASSUME MutexAssumption PROVE MutexSpec => []SystemAgrees
<1>1. MutexInv => SystemAgrees
  BY DEF MutexInv
<1>2. QED
  BY <1>1, MutexAgrees, PTL

\* is_locked_by_this_thread answers right, and a mutex_lock that points to a
\* mutex means that its thread is inside.
THEOREM OwnerIsTold == ASSUME MutexAssumption PROVE MutexSpec => []LockObjectsTellOwner
<1>1. MutexInv => LockObjectsTellOwner
  BY DEF MutexInv
<1>2. QED
  BY <1>1, MutexAgrees, PTL

\* The mutex is locked through one mutex_lock at most.
THEOREM OneObjectLocks == ASSUME MutexAssumption PROVE MutexSpec => []OneLockObject
<1>1. MutexInv => OneLockObject
  BY DEF MutexInv
<1>2. QED
  BY <1>1, MutexAgrees, PTL

\* The assertions that a newly admitted thread finds no owner hold.
THEOREM NoOwnerFound == ASSUME MutexAssumption PROVE MutexSpec => []NoOwnerOnEntry
<1>1. ASSUME MutexInv, NEW t \in Threads,
             (pc[t] = "entered" /\ ~Relocked(t)) \/ pc[t] = "tried"
      PROVE  owner = NoOne
  <2>1. osOwner = t
    BY <1>1 DEF MutexInv, SystemAgrees, Inside
  <2>2. ~Holds(t)
    BY <1>1 DEF MutexInv, SystemAgrees, Relocked, LockObjectsTellOwner
  <2>3. \A u \in Threads : ~Holds(u)
    BY <1>1, <2>1, <2>2 DEF MutexInv, LockObjectsTellOwner
  <2>4. QED
    BY <1>1, <2>3 DEF MutexInv, LockObjectsTellOwner, MutexTypeOK
<1>2. MutexInv => NoOwnerOnEntry
  BY <1>1 DEF NoOwnerOnEntry
<1>3. QED
  BY <1>2, MutexAgrees, PTL

----------------------------------------------------------------------------
(* The mutex keeps what it promises its callers.                           *)

\* Only taking the mutex over and destroying the lock object are seen.
LEMMA LockStep ==
  ASSUME MutexAssumption, MutexInv, MutexInv', [MutexNext]_mutexVars
  PROVE  [AbstractLock!ChangesHands]_LockedBy
<1>1. ASSUME \A t \in Threads : Holds(t)' <=> Holds(t)
      PROVE  LockedBy' = LockedBy
  BY <1>1 DEF LockedBy
<1>2. ASSUME NEW t \in Threads, Locks(t) PROVE AbstractLock!Acquires(t)
  <2>1. PICK o \in Objects : Put(t, o, "locking")
    BY <1>2 DEF Locks
  <2>2. object'[t][o] = "locking"
    BY <2>1, PutObject DEF MutexInv
  <2>3. Holds(t)'
    BY <2>2 DEF Holds
  <2>4. \A u \in Threads : ~Holds(u)
    BY <1>2, LocksFrom DEF MutexInv, SystemAgrees, Inside
  <2>5. \A u \in Threads : Holds(u)' => u = t
    BY <2>3 DEF MutexInv, LockObjectsTellOwner
  <2>6. LockedBy = {} /\ LockedBy' = {t}
    BY <2>3, <2>4, <2>5 DEF LockedBy
  <2>7. QED
    BY <2>6 DEF AbstractLock!Acquires
<1>3. ASSUME NEW t \in Threads, NEW o \in Objects, Destroy(t, o)
      PROVE  AbstractLock!Releases(t)
  <2>1. pc'[t] = "leave" /\ osOwner' = osOwner /\ Holds(t)
    BY <1>3 DEF Destroy, Goto, MutexInv, MutexTypeOK, Holds
  <2>2. osOwner = t /\ \A u \in Threads : Holds(u) => u = t
    BY <2>1 DEF MutexInv, LockObjectsTellOwner
  <2>3. \A u \in Threads : ~Holds(u)'
    BY <2>1, <2>2 DEF MutexInv, SystemAgrees, Inside
  <2>4. LockedBy = {t} /\ LockedBy' = {}
    BY <2>1, <2>2, <2>3 DEF LockedBy
  <2>5. QED
    BY <2>4 DEF AbstractLock!Releases
<1>4. ASSUME NEW t \in Threads, NEW o \in Objects, NEW p \in Objects,
             Move(t, o, p) \/ DestroyNull(t, o)
      PROVE  LockedBy' = LockedBy
  <2>1. MutexInv' /\ UNCHANGED <<owner>>
    BY <1>4, ObjectKeeps DEF Move, DestroyNull
  <2>2. \A u \in Threads : Holds(u)' <=> Holds(u)
    BY <2>1 DEF MutexInv, LockObjectsTellOwner
  <2>3. QED
    BY <1>1, <2>2
<1>5. ASSUME NEW t \in Threads,
             \/ EnterBlocking(t) \/ FindsItRelocked(t) \/ LeavesAndThrows(t)
             \/ TryFails(t) \/ TryEnters(t) \/ Leaves(t) \/ CallLock(t) \/ CallTryLock(t)
      PROVE  LockedBy' = LockedBy
  <2>1. object' = object
    BY <1>5 DEF EnterBlocking, FindsItRelocked, LeavesAndThrows, TryFails, TryEnters,
                Leaves, CallLock, CallTryLock
  <2>2. QED
    BY <1>1, <2>1, ObjectsKept
<1>6. CASE UNCHANGED mutexVars
  BY <1>1, <1>6, ObjectsKept DEF mutexVars
<1>7. QED
  BY <1>2, <1>3, <1>4, <1>5, <1>6 DEF MutexNext, ThreadNext, Advance, AbstractLock!ChangesHands

\* For its callers a qak::mutex is the abstract mutex, on both platforms and
\* whatever they relock.
THEOREM MutexIsALock == ASSUME MutexAssumption PROVE MutexSpec => ImplementsLock
<1>1. MutexInit => AbstractLock!Constructed
  <2> SUFFICES ASSUME MutexInit PROVE AbstractLock!Constructed
    OBVIOUS
  <2>1. \A t \in Threads : ~Holds(t)
    BY DEF MutexInit, Holds
  <2>2. QED
    BY <2>1 DEF AbstractLock!Constructed, LockedBy
<1>2. MutexInv /\ MutexInv' /\ [MutexNext]_mutexVars => [AbstractLock!ChangesHands]_LockedBy
  BY LockStep
<1>3. QED
  BY <1>1, <1>2, MutexAgrees, PTL DEF MutexSpec, ImplementsLock, AbstractLock!Promised

\* lock and try_lock throw only to a thread that has the lock, and leave it the
\* lock.
THEOREM ThrowsToHolder == ASSUME MutexAssumption PROVE MutexSpec => ThrowsOnlyToHolder
<1>1. ASSUME MutexInv, [MutexNext]_mutexVars, NEW t \in Threads, pc'[t] = "threw", pc[t] # "threw"
      PROVE  Holds(t) /\ Holds(t)' /\ osOwner' = t
  <2>1. CallTryLock(t) \/ LeavesAndThrows(t)
    BY <1>1 DEF MutexInv, MutexTypeOK, MutexNext, ThreadNext, Advance, mutexVars, Goto, EnterBlocking,
                FindsItRelocked, LeavesAndThrows, Locks, TryFails, TryEnters, Leaves,
                CallLock, CallTryLock, DestroyNull, Destroy, Move
  <2>2. object' = object
    BY <2>1 DEF CallTryLock, LeavesAndThrows
  <2>3. MutexInv'
    BY <1>1, MutexNextKeeps
  <2>4. Holds(t)
    BY <1>1, <2>1 DEF CallTryLock, TryGoesTo, Goto, LeavesAndThrows, MutexInv, MutexTypeOK,
                      SystemAgrees, LockObjectsTellOwner
  <2>5. Holds(t)'
    BY <2>2, <2>4, ObjectsKept
  <2>6. QED
    BY <2>3, <2>4, <2>5 DEF MutexInv, LockObjectsTellOwner
<1>2. MutexInv /\ [MutexNext]_mutexVars =>
        [\A t \in Threads : pc'[t] = "threw" /\ pc[t] # "threw" =>
            Holds(t) /\ Holds(t)' /\ osOwner' = t]_mutexVars
  BY <1>1
<1>3. QED
  BY <1>2, MutexAgrees, PTL DEF MutexSpec, ThrowsOnlyToHolder

=============================================================================
