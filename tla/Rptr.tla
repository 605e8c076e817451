-------------------------------- MODULE Rptr --------------------------------
(***************************************************************************)
(* qak::rptr: pointers that count their objects' references, in objects    *)
(* that several threads share.                                             *)
(*                                                                         *)
(* A pointer is a local variable of a thread or a member of an object; the *)
(* member of object o is called o as well.  One thread at a time uses a    *)
(* pointer, but the objects' counts are changed by all of them: each       *)
(* increment, and each decrement with the delete it may end in, is a step. *)
(* The pointer that a delete finds in the object is a step of its own.     *)
(***************************************************************************)
EXTENDS Integers, FiniteSets

CONSTANTS
    Users,      \* threads
    Locals,     \* their local pointers
    Objects,    \* objects, each with a pointer inside; bound: none is allocated twice
    UserOf,     \* the thread of each local pointer
    Null,       \* a null pointer
    MovedFrom,  \* debug: the garbage that marks a pointer as moved from
    Gone,       \* not constructed, or destructed
    Loose,      \* assigned from an object given up, not yet to the next
    NoWork,     \* a thread outside of any call
    Debug,      \* whether NDEBUG is not defined
    Careful     \* whether users keep the source of an assignment alive themselves

RptrAssumption ==
    /\ IsFiniteSet(Locals) /\ IsFiniteSet(Objects) /\ Locals \cap Objects = {}
    /\ UserOf \in [Locals -> Users]
    /\ Debug \in BOOLEAN /\ Careful \in BOOLEAN
    /\ \A x \in {Null, MovedFrom, Gone, Loose} : x \notin Locals \cup Objects
    /\ Gone # Null /\ Gone # MovedFrom /\ Gone # Loose
    /\ Loose # Null /\ Loose # MovedFrom
    /\ NoWork \notin Locals \cup Objects

VARIABLES
    p,          \* p_ of each pointer
    refcnt,     \* qak_rptr_imp__refcnt_ of each object
    exists,     \* the objects that are constructed and not deleted
    fresh,      \* the objects that have not been constructed yet
    from,       \* the object each thread is deleting, whose pointer it destroys next
    work        \* what is left of the assignment each thread is in

rptrVars == <<p, refcnt, exists, fresh, from, work>>

Rptrs == Locals \cup Objects

\* The pointers to an object.
Pointing(q, o) == {x \in Rptrs : q[x] = o}

\* An assignment after it has given up what it held: target, source pointer or
\* plain pointer, and whether the source is moved from.
Works == [target : Rptrs, source : Rptrs \cup {Null}, plain : Objects \cup {Null}, move : BOOLEAN]

RptrInit ==
    /\ p = [x \in Rptrs |-> Gone]
    /\ refcnt = [o \in Objects |-> 0]
    /\ exists = {} /\ fresh = Objects
    /\ from = [t \in Users |-> NoWork]
    /\ work = [t \in Users |-> NoWork]

----------------------------------------------------------------------------
(* Who uses what.                                                          *)

Idle(t) == from[t] = NoWork /\ work[t] = NoWork

\* No thread is in the middle of an assignment to or from x.
Quiet(x) == \A t \in Users : work[t] # NoWork => x # work[t].target /\ x # work[t].source

Usable == IF Debug THEN Objects \cup {Null} ELSE Objects \cup {Null, MovedFrom}

\* t may use x: its own variable, or a member of an object that one of its
\* variables other than those of without points to.
MayUse(t, x, without) ==
    /\ Quiet(x)
    /\ \/ x \in Locals /\ UserOf[x] = t
       \/ \E l \in Locals \ without : UserOf[l] = t /\ p[l] = x

\* x can be read: the assertion "src moved from or destructed".
Readable(x) == p[x] \in Usable

----------------------------------------------------------------------------
(* Counting.                                                               *)

\* Plausible bug: the count is set, where it should be incremented.
IncSets(cnt, o) == IF o \in Objects THEN [cnt EXCEPT ![o] = 1] ELSE cnt

\* tpointee_inc_ref_ of what q points to, if anything.
Inc(cnt, o) == IF o \in Objects THEN [cnt EXCEPT ![o] = @ + 1] ELSE cnt

\* tpointee_dec_ref_.
Dec(cnt, o) == IF o \in Objects THEN [cnt EXCEPT ![o] = @ - 1] ELSE cnt

\* Plausible bug: the count is tested before it is decremented.
DeletesLate(o) == o \in Objects /\ refcnt[o] = 0

\* Plausible bug: the object goes with the last pointer but one.
DeletesEarly(o) == o \in Objects /\ refcnt[o] <= 2

\* delete nonconst_this
Deletes(o) == o \in Objects /\ refcnt[o] = 1

\* t gives up what the pointer x holds, which becomes q; it goes on with w.
GiveUp(t, x, q, w) ==
    /\ p' = [p EXCEPT ![x] = q]
    /\ refcnt' = Dec(refcnt, p[x])
    /\ \/ /\ Deletes(p[x])
          /\ exists' = exists \ {p[x]}
          /\ from' = [from EXCEPT ![t] = p[x]]
       \/ /\ ~Deletes(p[x])
          /\ UNCHANGED exists
          /\ from' = [from EXCEPT ![t] = NoWork]
    /\ work' = [work EXCEPT ![t] = w]
    /\ UNCHANGED fresh

\* A moved-from pointer is null, or garbage in debug builds.
Emptied == IF Debug THEN MovedFrom ELSE Null

----------------------------------------------------------------------------
(* Operations.                                                             *)

\* rptr()
ConstructNull(t, x) ==
    /\ Idle(t) /\ x \in Locals /\ UserOf[x] = t /\ p[x] = Gone
    /\ p' = [p EXCEPT ![x] = Null]
    /\ UNCHANGED <<refcnt, exists, fresh, from, work>>

\* rptr(new T); the pointer inside the object is null.
ConstructNew(t, x, o) ==
    /\ Idle(t) /\ x \in Locals /\ UserOf[x] = t /\ p[x] = Gone
    /\ o \in fresh
    /\ p' = [p EXCEPT ![x] = o, ![o] = Null]
    /\ refcnt' = Inc(refcnt, o)
    /\ exists' = exists \cup {o} /\ fresh' = fresh \ {o}
    /\ UNCHANGED <<from, work>>

\* rptr(rptr const &).  A thread's first pointer to a shared object is copied from that of
\* another thread, as when a thread is started.
CopyConstruct(t, x, y) ==
    /\ Idle(t) /\ x \in Locals /\ UserOf[x] = t /\ p[x] = Gone
    /\ \/ MayUse(t, y, {})
       \/ y \in Locals /\ Quiet(y) /\ Idle(UserOf[y])
    /\ Readable(y)
    /\ p' = [p EXCEPT ![x] = p[y]]
    /\ refcnt' = Inc(refcnt, p[y])
    /\ UNCHANGED <<exists, fresh, from, work>>

\* rptr(rptr &&)
MoveConstruct(t, x, y) ==
    /\ Idle(t) /\ x \in Locals /\ UserOf[x] = t /\ p[x] = Gone
    /\ MayUse(t, y, {}) /\ Readable(y)
    /\ p' = [p EXCEPT ![x] = p[y], ![y] = Emptied]
    /\ UNCHANGED <<refcnt, exists, fresh, from, work>>

\* ~rptr of a local.
DestroyPtr(t, x) ==
    /\ Idle(t) /\ x \in Locals /\ MayUse(t, x, {}) /\ p[x] # Gone
    /\ GiveUp(t, x, Gone, NoWork)

\* ~rptr of the pointer inside an object that is being deleted.
DestroyMember(t) ==
    /\ from[t] # NoWork
    /\ GiveUp(t, from[t], Gone, work[t])

\* operator = (rptr const &), operator = (rptr &&): first what x held is given up.
Assign(t, x, y, move) ==
    /\ Idle(t) /\ x # y
    /\ MayUse(t, x, {}) /\ MayUse(t, y, IF Careful THEN {x} ELSE {})
    /\ x \in Objects /\ Careful => \E l \in Locals \ {x, y} : UserOf[l] = t /\ p[l] = x
    /\ Readable(x) /\ Readable(y)
    /\ GiveUp(t, x, Loose, [target |-> x, source |-> y, plain |-> Null, move |-> move])

\* Then p_ is read from the source and counted.
AssignEnds(t) ==
    /\ work[t] # NoWork /\ from[t] = NoWork /\ work[t].source # Null
    /\ LET x == work[t].target
           y == work[t].source IN
          /\ \/ /\ work[t].move
                /\ p' = [p EXCEPT ![x] = p[y], ![y] = Emptied]
                /\ UNCHANGED refcnt
             \/ /\ ~work[t].move
                /\ p' = [p EXCEPT ![x] = p[y]]
                /\ refcnt' = Inc(refcnt, p[y])
    /\ work' = [work EXCEPT ![t] = NoWork]
    /\ UNCHANGED <<exists, fresh, from>>

\* reset(o), reset() when o is null: o is an object that the thread has in another variable.
Reset(t, x, o) ==
    /\ Idle(t)
    /\ MayUse(t, x, {}) /\ Readable(x)
    /\ x \in Objects /\ Careful => \E l \in Locals \ {x} : UserOf[l] = t /\ p[l] = x
    /\ o # Null => \E l \in Locals \ (IF Careful THEN {x} ELSE {}) :
                      UserOf[l] = t /\ p[l] = o /\ Quiet(l)
    /\ GiveUp(t, x, Loose, [target |-> x, source |-> Null, plain |-> o, move |-> FALSE])

ResetEnds(t) ==
    /\ work[t] # NoWork /\ from[t] = NoWork /\ work[t].source = Null
    /\ p' = [p EXCEPT ![work[t].target] = work[t].plain]
    /\ refcnt' = Inc(refcnt, work[t].plain)
    /\ work' = [work EXCEPT ![t] = NoWork]
    /\ UNCHANGED <<exists, fresh, from>>

Swap(t, x, y) ==
    /\ Idle(t) /\ x # y
    /\ MayUse(t, x, {}) /\ MayUse(t, y, {}) /\ p[x] # Gone /\ p[y] # Gone
    /\ p' = [p EXCEPT ![x] = p[y], ![y] = p[x]]
    /\ UNCHANGED <<refcnt, exists, fresh, from, work>>

RptrNext == \E t \in Users :
    \/ DestroyMember(t) \/ AssignEnds(t) \/ ResetEnds(t)
    \/ \E x \in Rptrs :
          \/ ConstructNull(t, x) \/ DestroyPtr(t, x) \/ Reset(t, x, Null)
          \/ \E o \in Objects : ConstructNew(t, x, o) \/ Reset(t, x, o)
          \/ \E y \in Rptrs : \/ CopyConstruct(t, x, y) \/ MoveConstruct(t, x, y)
                              \/ \E move \in BOOLEAN : Assign(t, x, y, move)
                              \/ Swap(t, x, y)

RptrSpec == RptrInit /\ [][RptrNext]_rptrVars

----------------------------------------------------------------------------
(* Properties.                                                             *)

RptrTypeOK ==
    /\ p \in [Rptrs -> Objects \cup {Null, MovedFrom, Gone, Loose}]
    /\ refcnt \in [Objects -> Nat]
    /\ exists \subseteq Objects /\ fresh \subseteq Objects /\ exists \cap fresh = {}
    /\ from \in [Users -> Objects \cup {NoWork}]
    /\ work \in [Users -> Works \cup {NoWork}]

\* The count of an object is the number of pointers to it, at every step of every thread
\* (tpointee_inc_ref_ and tpointee_dec_ref_ are called where a pointer begins and ceases
\* to point).
CountsPointers == \A o \in Objects : refcnt[o] = Cardinality(Pointing(p, o))

\* An object exists just as long as there is a pointer to it: no pointer dangles, and none
\* goes without the object going too.
ExistsWhilePointedTo == \A o \in Objects : o \in exists <=> Pointing(p, o) # {}

\* What an assignment is about to read, or point to, has not been deleted by what the
\* assignment gave up first.
SourceOutlivesTarget ==
    \A t \in Users : work[t] # NoWork =>
        /\ work[t].source \in Objects => work[t].source \in exists
        /\ work[t].plain \in Objects => work[t].plain \in exists
        /\ work[t].target \in Objects => work[t].target \in exists
=============================================================================
