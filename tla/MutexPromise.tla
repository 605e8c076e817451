---- MODULE MutexPromise ----
\* What a qak::mutex promises its callers: "the existence of a mutex_lock means
\* that a mutex is actually locked" (mutex.hxx, line 98), by one thread.  A
\* call that throws, fails or moves a mutex_lock changes nothing here.
CONSTANT Threads
VARIABLE lockedBy   \* the threads that have a mutex_lock on the mutex

\* mutex::mutex
Constructed == lockedBy = {}

\* lock or try_lock returns a mutex_lock to t.
Acquires(t) == lockedBy = {} /\ lockedBy' = {t}

\* t calls the destructor of its mutex_lock.
Releases(t) == t \in lockedBy /\ lockedBy' = lockedBy \ {t}

ChangesHands == \E t \in Threads : Acquires(t) \/ Releases(t)

Promised == Constructed /\ [][ChangesHands]_lockedBy

====
