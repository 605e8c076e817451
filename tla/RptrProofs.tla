----------------------------- MODULE RptrProofs -----------------------------
(***************************************************************************)
(* Proofs about Rptr, for any threads, pointers and objects and in both    *)
(* builds, where users keep the source of an assignment alive themselves.  *)
(***************************************************************************)
EXTENDS Rptr, FiniteSetTheorems, TLAPS

----------------------------------------------------------------------------
(* The inductive invariant.                                                *)

\* An object exists while its count is not zero.
ExistsWhileCounted == \A o \in Objects : o \in exists <=> refcnt[o] > 0

\* The pointer inside an object that has not been constructed has not been either.
FreshHoldNothing == \A o \in fresh : p[o] = Gone

\* An object that is being deleted is gone for everybody else.
DeletedIsGone == \A t \in Users : from[t] # NoWork => from[t] \notin exists \cup fresh

\* Between the two halves of an assignment its target points nowhere, and no other thread
\* is in an assignment to or from it.
WorksApart ==
    \A t \in Users : work[t] # NoWork =>
        /\ p[work[t].target] = Loose
        /\ work[t].target # work[t].source
        /\ \A u \in Users \ {t} : work[u] # NoWork =>
              work[t].target # work[u].target /\ work[t].target # work[u].source

\* t has a local pointer to o.
Keeps(t, o) == \E l \in Locals : UserOf[l] = t /\ p[l] = o

\* A thread in an assignment keeps the objects that are part of it; the variables are its own.
WorksKept ==
    \A t \in Users : work[t] # NoWork =>
        /\ \A x \in {work[t].target, work[t].source} \cap Locals : UserOf[x] = t
        /\ \A o \in {work[t].target, work[t].source, work[t].plain} \cap Objects : Keeps(t, o)

Counting == CountsPointers /\ ExistsWhileCounted /\ FreshHoldNothing /\ DeletedIsGone

RptrInv == RptrTypeOK /\ Counting /\ WorksApart /\ WorksKept

\* What a pointer may hold.
Pointees == Objects \cup {Null, MovedFrom, Gone, Loose}

----------------------------------------------------------------------------
(* How many pointers there are to an object.                               *)

\* The pointers to an object can be counted; there is one as soon as one points to it.
LEMMA PointingCounts ==
  ASSUME RptrAssumption, NEW q, NEW o
  PROVE  /\ IsFiniteSet(Pointing(q, o))
         /\ Cardinality(Pointing(q, o)) \in Nat
         /\ Cardinality(Pointing(q, o)) = 0 <=> Pointing(q, o) = {}
         /\ \A x \in Rptrs : q[x] = o => Cardinality(Pointing(q, o)) >= 1
<1>1. IsFiniteSet(Rptrs)
  BY FS_Union DEF RptrAssumption, Rptrs
<1>2. IsFiniteSet(Pointing(q, o))
  BY <1>1, FS_Subset DEF Pointing
<1>3. Cardinality(Pointing(q, o)) \in Nat /\ (Cardinality(Pointing(q, o)) = 0 <=> Pointing(q, o) = {})
  BY <1>2, FS_CardinalityType, FS_EmptySet
<1>4. ASSUME NEW x \in Rptrs, q[x] = o PROVE Pointing(q, o) # {}
  BY <1>4 DEF Pointing
<1>5. QED
  BY <1>2, <1>3, <1>4

\* r is q but for x.
But(x, q, r) == \A y \in Rptrs \ {x} : r[y] = q[y]

\* A pointer that is changed is one less to what it held, and one more to what it gets.
LEMMA PointingChanges ==
  ASSUME RptrAssumption, NEW q, NEW r, NEW x \in Rptrs, NEW o, But(x, q, r)
  PROVE  /\ q[x] # o /\ r[x] # o => Cardinality(Pointing(r, o)) = Cardinality(Pointing(q, o))
         /\ q[x] # o /\ r[x] = o => Cardinality(Pointing(r, o)) = Cardinality(Pointing(q, o)) + 1
         /\ q[x] = o /\ r[x] # o => Cardinality(Pointing(r, o)) = Cardinality(Pointing(q, o)) - 1
         /\ q[x] = o /\ r[x] = o => Cardinality(Pointing(r, o)) = Cardinality(Pointing(q, o))
<1>1. IsFiniteSet(Pointing(q, o)) /\ Cardinality(Pointing(q, o)) \in Nat
  BY PointingCounts
<1>2. CASE q[x] # o /\ r[x] # o
  <2>1. Pointing(r, o) = Pointing(q, o)
    BY <1>2 DEF Pointing, But
  <2>2. QED
    BY <2>1, <1>2
<1>3. CASE q[x] # o /\ r[x] = o
  <2>1. Pointing(r, o) = Pointing(q, o) \cup {x} /\ x \notin Pointing(q, o)
    BY <1>3 DEF Pointing, But
  <2>2. QED
    BY <2>1, <1>1, <1>3, FS_AddElement
<1>4. CASE q[x] = o /\ r[x] # o
  <2>1. Pointing(r, o) = Pointing(q, o) \ {x} /\ x \in Pointing(q, o)
    BY <1>4 DEF Pointing, But
  <2>2. QED
    BY <2>1, <1>1, <1>4, FS_RemoveElement
<1>5. CASE q[x] = o /\ r[x] = o
  <2>1. Pointing(r, o) = Pointing(q, o)
    BY <1>5 DEF Pointing, But
  <2>2. QED
    BY <2>1, <1>5
<1>6. QED
  BY <1>2, <1>3, <1>4, <1>5

\* What a pointer points to is counted, and exists.
LEMMA PointedExists ==
  ASSUME RptrAssumption, RptrTypeOK, Counting, NEW x \in Rptrs, p[x] \in Objects
  PROVE  refcnt[p[x]] \in Nat /\ refcnt[p[x]] >= 1 /\ p[x] \in exists /\ p[x] \notin fresh
<1>1. refcnt[p[x]] \in Nat /\ refcnt[p[x]] >= 1
  BY PointingCounts DEF Counting, CountsPointers
<1>2. QED
  BY <1>1 DEF Counting, ExistsWhileCounted, RptrTypeOK

\* What a thread may use is not about to be used by another, and is in no object that is
\* not there.
LEMMA UsedExists ==
  ASSUME RptrAssumption, RptrTypeOK, Counting, NEW t \in Users, NEW x \in Rptrs, NEW without,
         MayUse(t, x, without)
  PROVE  /\ Quiet(x)
         /\ x \notin fresh
         /\ x \in Objects => x \in exists /\ \E l \in Locals \ without : UserOf[l] = t /\ p[l] = x
         /\ x \in Locals => UserOf[x] = t
<1>1. CASE x \in Locals /\ UserOf[x] = t
  BY <1>1 DEF MayUse, RptrAssumption, RptrTypeOK
<1>2. ASSUME NEW l \in Locals \ without, UserOf[l] = t, p[l] = x
      PROVE  x \in Objects /\ x \in exists /\ x \notin fresh /\ x \notin Locals
  <2>1. x \in Objects
    BY <1>2 DEF RptrTypeOK, RptrAssumption, Rptrs
  <2>2. QED
    BY <1>2, <2>1, PointedExists DEF Rptrs, RptrAssumption
<1>3. QED
  BY <1>1, <1>2 DEF MayUse, RptrAssumption

----------------------------------------------------------------------------
LEMMA RptrInitHolds == ASSUME RptrAssumption PROVE RptrInit => RptrInv
<1> SUFFICES ASSUME RptrInit PROVE RptrInv
  OBVIOUS
<1>1. RptrTypeOK
  BY DEF RptrInit, RptrTypeOK
<1>2. ASSUME NEW o \in Objects PROVE Pointing(p, o) = {}
  BY <1>2 DEF RptrInit, Pointing, RptrAssumption
<1>3. CountsPointers
  BY <1>2, FS_EmptySet DEF RptrInit, CountsPointers
<1>4. ExistsWhileCounted /\ FreshHoldNothing /\ DeletedIsGone
  BY DEF RptrInit, ExistsWhileCounted, FreshHoldNothing, DeletedIsGone, Rptrs
<1>5. WorksApart /\ WorksKept
  BY DEF RptrInit, WorksApart, WorksKept
<1>6. QED
  BY <1>1, <1>3, <1>4, <1>5 DEF RptrInv, Counting

----------------------------------------------------------------------------
(* What giving up a pointer keeps.                                         *)

LEMMA GiveUpCounts ==
  ASSUME RptrAssumption, RptrTypeOK, Counting,
         NEW t \in Users, NEW x \in Rptrs, NEW q \in {Gone, Loose}, NEW w \in Works \cup {NoWork},
         x \notin fresh, GiveUp(t, x, q, w)
  PROVE  RptrTypeOK' /\ Counting'
<1>1. q \notin Objects
  BY DEF RptrAssumption
<1>2. /\ p \in [Rptrs -> Pointees] /\ p' \in [Rptrs -> Pointees]
      /\ work' \in [Users -> Works \cup {NoWork}]
      /\ p' = [p EXCEPT ![x] = q] /\ fresh' = fresh
  BY DEF GiveUp, RptrTypeOK, Pointees
<1>3. CASE p[x] \notin Objects
  <2>1. refcnt' = refcnt /\ exists' = exists /\ from' = [from EXCEPT ![t] = NoWork]
    BY <1>3 DEF GiveUp, Dec, Deletes
  <2>2. ASSUME NEW o \in Objects PROVE Cardinality(Pointing(p', o)) = Cardinality(Pointing(p, o))
    <3>1. p[x] # o /\ q # o
      BY <1>1, <1>3
    <3>2. QED
      BY <1>2, <3>1, PointingChanges DEF Pointing
  <2>3. RptrTypeOK'
    BY <1>2, <2>1 DEF RptrTypeOK, Pointees
  <2>4. CountsPointers' /\ ExistsWhileCounted'
    BY <2>1, <2>2 DEF Counting, CountsPointers, ExistsWhileCounted
  <2>5. FreshHoldNothing'
    BY <1>2 DEF Counting, FreshHoldNothing, RptrTypeOK, Rptrs
  <2>6. DeletedIsGone'
    BY <1>2, <2>1 DEF Counting, DeletedIsGone, RptrTypeOK
  <2>7. QED
    BY <2>3, <2>4, <2>5, <2>6 DEF Counting
<1>4. CASE p[x] \in Objects
  <2> DEFINE z == p[x]
  <2>1. refcnt[z] \in Nat /\ refcnt[z] >= 1 /\ z \in exists /\ z \notin fresh /\ z \in Objects
    BY <1>4, PointedExists
  <2>2. refcnt' = [refcnt EXCEPT ![z] = refcnt[z] - 1]
    BY <1>4 DEF GiveUp, Dec
  <2>3. /\ refcnt[z] = 1 => exists' = exists \ {z} /\ from' = [from EXCEPT ![t] = z]
        /\ refcnt[z] # 1 => exists' = exists /\ from' = [from EXCEPT ![t] = NoWork]
    BY <1>4 DEF GiveUp, Deletes
  <2>4. Cardinality(Pointing(p', z)) = Cardinality(Pointing(p, z)) - 1
    <3>1. p[x] = z /\ p'[x] # z /\ But(x, p, p')
      BY <1>1, <1>2, <1>4 DEF But
    <3> HIDE DEF z
    <3>2. QED
      BY <3>1, PointingChanges
  <2>5. ASSUME NEW o \in Objects \ {z} PROVE Cardinality(Pointing(p', o)) = Cardinality(Pointing(p, o))
    <3>1. p[x] # o /\ q # o
      BY <1>1
    <3>2. QED
      BY <1>2, <3>1, PointingChanges DEF Pointing
  <2> HIDE DEF z
  <2>6. RptrTypeOK'
    <3>1. refcnt' \in [Objects -> Nat]
      BY <2>1, <2>2 DEF RptrTypeOK
    <3>2. from' \in [Users -> Objects \cup {NoWork}]
      BY <2>1, <2>3 DEF RptrTypeOK
    <3>3. exists' \subseteq Objects /\ exists' \cap fresh' = {}
      BY <1>2, <2>1, <2>3 DEF RptrTypeOK
    <3>4. QED
      BY <1>2, <3>1, <3>2, <3>3 DEF RptrTypeOK, Pointees
  <2>7. CountsPointers'
    BY <2>1, <2>2, <2>4, <2>5 DEF Counting, CountsPointers, RptrTypeOK
  <2>8. ExistsWhileCounted'
    <3>1. ASSUME NEW o \in Objects \ {z} PROVE o \in exists' <=> refcnt'[o] > 0
      BY <2>1, <2>2, <2>3, <3>1 DEF Counting, ExistsWhileCounted, RptrTypeOK
    <3>2. z \in exists' <=> refcnt'[z] > 0
      BY <2>1, <2>2, <2>3 DEF RptrTypeOK
    <3>3. QED
      BY <3>1, <3>2 DEF ExistsWhileCounted
  <2>9. FreshHoldNothing'
    BY <1>2 DEF Counting, FreshHoldNothing, RptrTypeOK, Rptrs
  <2>10. DeletedIsGone'
    BY <1>2, <2>1, <2>3 DEF Counting, DeletedIsGone, RptrTypeOK
  <2>11. QED
    BY <2>6, <2>7, <2>8, <2>9, <2>10 DEF Counting
<1>5. QED
  BY <1>3, <1>4


\* One pointer, or two, get new values.
Becomes(x, v) == p' = [p EXCEPT ![x] = v]
BothBecome(x, a, y, b) == p' = [p EXCEPT ![x] = a, ![y] = b]

\* A pointer that pointed nowhere counts where it begins to point; the object is one
\* that exists already.
LEMMA TakeCounts ==
  ASSUME RptrAssumption, RptrTypeOK, Counting,
         NEW x \in Rptrs \ fresh, NEW v \in Pointees, p[x] \notin Objects,
         v \in Objects => v \in exists,
         Becomes(x, v), refcnt' = Inc(refcnt, v),
         UNCHANGED <<exists, fresh, from>>,
         work' \in [Users -> Works \cup {NoWork}]
  PROVE  RptrTypeOK' /\ Counting'
<1>1. p \in [Rptrs -> Pointees] /\ p' \in [Rptrs -> Pointees]
  BY DEF RptrTypeOK, Pointees, Becomes
<1>2. FreshHoldNothing' /\ DeletedIsGone'
  BY DEF Becomes, Counting, FreshHoldNothing, DeletedIsGone, RptrTypeOK, Rptrs
<1>3. ASSUME NEW o \in Objects, v # o PROVE Cardinality(Pointing(p', o)) = Cardinality(Pointing(p, o))
  <2>1. x \in Rptrs /\ p[x] # o /\ p'[x] # o /\ But(x, p, p')
    BY <1>1, <1>3 DEF Becomes, But
  <2>2. QED
    BY <2>1, PointingChanges
<1>4. CASE v \notin Objects
  <2>1. refcnt' = refcnt
    BY <1>4 DEF Inc
  <2>2. CountsPointers' /\ ExistsWhileCounted'
    BY <1>3, <1>4, <2>1 DEF Counting, CountsPointers, ExistsWhileCounted
  <2>3. QED
    BY <1>1, <1>2, <2>1, <2>2 DEF Counting, RptrTypeOK, Pointees
<1>5. CASE v \in Objects
  <2>1. refcnt' = [refcnt EXCEPT ![v] = refcnt[v] + 1] /\ refcnt[v] \in Nat /\ refcnt[v] > 0
    BY <1>5 DEF Inc, RptrTypeOK, Counting, ExistsWhileCounted
  <2>2. Cardinality(Pointing(p', v)) = Cardinality(Pointing(p, v)) + 1
    <3>1. x \in Rptrs /\ p[x] # v /\ p'[x] = v /\ But(x, p, p')
      BY <1>1, <1>5 DEF Becomes, But
    <3>2. QED
      BY <3>1, PointingChanges
  <2>3. refcnt' \in [Objects -> Nat]
    BY <1>5, <2>1 DEF RptrTypeOK
  <2>4. CountsPointers'
    BY <1>3, <1>5, <2>1, <2>2 DEF Counting, CountsPointers, RptrTypeOK
  <2>5. ExistsWhileCounted'
    BY <1>5, <2>1 DEF Counting, ExistsWhileCounted, RptrTypeOK
  <2>6. QED
    BY <1>1, <1>2, <2>3, <2>4, <2>5 DEF Counting, RptrTypeOK, Pointees
<1>6. QED
  BY <1>4, <1>5

\* What moves from one pointer to another need not be counted.
LEMMA MoveCounts ==
  ASSUME RptrAssumption, RptrTypeOK, Counting,
         NEW x \in Rptrs \ fresh, NEW y \in Rptrs \ fresh, x # y, NEW b \in Pointees,
         \/ b = p[x]
         \/ b \notin Objects /\ p[x] \notin Objects,
         BothBecome(x, p[y], y, b),
         UNCHANGED <<refcnt, exists, fresh, from>>,
         work' \in [Users -> Works \cup {NoWork}]
  PROVE  RptrTypeOK' /\ Counting'
<1> DEFINE a == p[y]
           r == [p EXCEPT ![x] = a]
<1>1. p \in [Rptrs -> Pointees] /\ r \in [Rptrs -> Pointees] /\ p' \in [Rptrs -> Pointees] /\ a \in Pointees
  BY DEF RptrTypeOK, Pointees, BothBecome
<1>2. p'[y] = b /\ r[y] = a /\ But(y, r, p')
  BY DEF RptrTypeOK, BothBecome, But
<1> HIDE DEF a, r
<1>3. ASSUME NEW o \in Objects PROVE Cardinality(Pointing(p', o)) = Cardinality(Pointing(p, o))
  <2>1. /\ p[x] # o /\ a # o => Cardinality(Pointing(r, o)) = Cardinality(Pointing(p, o))
        /\ p[x] # o /\ a = o => Cardinality(Pointing(r, o)) = Cardinality(Pointing(p, o)) + 1
        /\ p[x] = o /\ a # o => Cardinality(Pointing(r, o)) = Cardinality(Pointing(p, o)) - 1
        /\ p[x] = o /\ a = o => Cardinality(Pointing(r, o)) = Cardinality(Pointing(p, o))
    <3>1. x \in Rptrs /\ r[x] = a /\ But(x, p, r)
      BY <1>1 DEF r, But
    <3>2. QED
      BY <3>1, PointingChanges
  <2>2. /\ a # o /\ b # o => Cardinality(Pointing(p', o)) = Cardinality(Pointing(r, o))
        /\ a # o /\ b = o => Cardinality(Pointing(p', o)) = Cardinality(Pointing(r, o)) + 1
        /\ a = o /\ b # o => Cardinality(Pointing(p', o)) = Cardinality(Pointing(r, o)) - 1
        /\ a = o /\ b = o => Cardinality(Pointing(p', o)) = Cardinality(Pointing(r, o))
    BY <1>2, PointingChanges
  <2>3. Cardinality(Pointing(p, o)) \in Nat /\ Cardinality(Pointing(r, o)) \in Nat
    BY PointingCounts
  <2>4. (p[x] = o) <=> (b = o)
    BY <1>3
  <2>5. QED
    BY <2>1, <2>2, <2>3, <2>4
<1>4. CountsPointers' /\ ExistsWhileCounted'
  BY <1>3 DEF Counting, CountsPointers, ExistsWhileCounted
<1>5. FreshHoldNothing' /\ DeletedIsGone'
  BY DEF BothBecome, Counting, FreshHoldNothing, DeletedIsGone, RptrTypeOK, Rptrs
<1>6. QED
  BY <1>1, <1>4, <1>5 DEF Counting, RptrTypeOK, Pointees

----------------------------------------------------------------------------
(* What becomes of the assignments that threads are in.                    *)

\* C can change without u's assignment being disturbed: it has none of u's variables, not
\* the target, and nothing that is in an object u may have, or that was constructed.
Spares(u, C) ==
    \A x \in C : /\ x \in Locals => UserOf[x] # u
                 /\ x # work[u].target \/ x \in Objects \ exists \/ p[x] = Gone

LEMMA Undisturbed ==
  ASSUME RptrAssumption, RptrInv, NEW C \in SUBSET Rptrs,
         \A x \in Rptrs \ C : p'[x] = p[x],
         NEW u \in Users, work[u] # NoWork, Spares(u, C)
  PROVE  /\ p'[work[u].target] = Loose
         /\ \A o \in {work[u].target, work[u].source, work[u].plain} \cap Objects : Keeps(u, o)'
<1>1. work[u] \in Works /\ work[u].target \in Rptrs
  BY DEF RptrInv, RptrTypeOK, Works
<1>2. p[work[u].target] = Loose
  BY DEF RptrInv, WorksApart
<1>3. ASSUME NEW o \in {work[u].target, work[u].source, work[u].plain} \cap Objects
      PROVE  Keeps(u, o)' /\ o \in exists
  <2>1. PICK l \in Locals : UserOf[l] = u /\ p[l] = o
    BY <1>3 DEF RptrInv, WorksKept, Keeps
  <2>2. l \notin C /\ l \in Rptrs
    BY <2>1 DEF Rptrs, Spares
  <2>3. o \in exists
    BY <1>3, <2>1, <2>2, PointedExists DEF RptrInv
  <2>4. QED
    BY <2>1, <2>2, <2>3 DEF Keeps
<1>4. work[u].target \notin C
  <2>1. SUFFICES ASSUME work[u].target \in C PROVE FALSE
    OBVIOUS
  <2>2. work[u].target \notin Objects \ exists
    BY <1>3
  <2>3. p[work[u].target] # Gone
    BY <1>2 DEF RptrAssumption
  <2>4. QED
    BY <2>1, <2>2, <2>3 DEF Spares
<1>5. QED
  BY <1>1, <1>2, <1>3, <1>4

\* Assignments that no thread begins are where they were, as long as what changes
\* spares them.
LEMMA WorksUndisturbed ==
  ASSUME RptrAssumption, RptrInv, NEW C \in SUBSET Rptrs,
         \A x \in Rptrs \ C : p'[x] = p[x],
         \A u \in Users : work'[u] # NoWork => work'[u] = work[u] /\ Spares(u, C)
  PROVE  WorksApart' /\ WorksKept'
<1>1. ASSUME NEW u \in Users, work'[u] # NoWork
      PROVE  /\ work'[u] = work[u] /\ work[u] # NoWork
             /\ p'[work[u].target] = Loose
             /\ \A o \in {work[u].target, work[u].source, work[u].plain} \cap Objects : Keeps(u, o)'
  BY <1>1, Undisturbed
<1>2. WorksApart'
  <2>1. ASSUME NEW u \in Users, work'[u] # NoWork
        PROVE  /\ p'[work'[u].target] = Loose
               /\ work'[u].target # work'[u].source
               /\ \A v \in Users \ {u} : work'[v] # NoWork =>
                     work'[u].target # work'[v].target /\ work'[u].target # work'[v].source
    BY <1>1, <2>1 DEF RptrInv, WorksApart
  <2>2. QED
    BY <2>1 DEF WorksApart
<1>3. WorksKept'
  <2>1. ASSUME NEW u \in Users, work'[u] # NoWork
        PROVE  /\ \A x \in {work'[u].target, work'[u].source} \cap Locals : UserOf[x] = u
               /\ \A o \in {work'[u].target, work'[u].source, work'[u].plain} \cap Objects :
                     Keeps(u, o)'
    BY <1>1, <2>1 DEF RptrInv, WorksKept
  <2>2. QED
    BY <2>1 DEF WorksKept
<1>4. QED
  BY <1>2, <1>3

\* A thread begins an assignment to x, from pointers and objects that it keeps.
LEMMA WorkBegins ==
  ASSUME RptrAssumption, RptrInv, NEW t \in Users, NEW w \in Works, work[t] = NoWork,
         p' = [p EXCEPT ![w.target] = Loose], work' = [work EXCEPT ![t] = w],
         w.target # w.source,
         \A x \in {w.target, w.source} : x # Null => Quiet(x),
         \A x \in {w.target, w.source} \cap Locals : UserOf[x] = t,
         \A o \in {w.target, w.source, w.plain} \cap Objects :
            \E l \in Locals \ {w.target} : UserOf[l] = t /\ p[l] = o
  PROVE  WorksApart' /\ WorksKept'
<1>1. /\ w.target \in Rptrs /\ w.target # Null
      /\ \A x \in Rptrs \ {w.target} : p'[x] = p[x]
      /\ \A u \in Users \ {t} : work'[u] = work[u]
      /\ p'[w.target] = Loose /\ work'[t] = w
  BY DEF Works, RptrAssumption, Rptrs, RptrInv, RptrTypeOK
<1>2. ASSUME NEW u \in Users \ {t}, work[u] # NoWork
      PROVE  /\ p'[work[u].target] = Loose
             /\ \A o \in {work[u].target, work[u].source, work[u].plain} \cap Objects : Keeps(u, o)'
             /\ w.target # work[u].target /\ w.target # work[u].source
             /\ work[u].target # w.source
  <2>1. w.target # work[u].target /\ w.target # work[u].source
    BY <1>1, <1>2 DEF Quiet
  <2>2. work[u].target # w.source
    BY <1>2 DEF Quiet, RptrInv, RptrTypeOK, Works, RptrAssumption, Rptrs
  <2>3. Spares(u, {w.target})
    BY <2>1 DEF Spares
  <2>4. QED
    BY <1>1, <1>2, <2>1, <2>2, <2>3, Undisturbed
<1>3. ASSUME NEW o \in {w.target, w.source, w.plain} \cap Objects PROVE Keeps(t, o)'
  <2>1. PICK l \in Locals \ {w.target} : UserOf[l] = t /\ p[l] = o
    BY <1>3
  <2>2. p'[l] = o
    BY <1>1, <2>1 DEF Rptrs
  <2>3. QED
    BY <2>1, <2>2 DEF Keeps
<1>4. WorksApart'
  <2>1. ASSUME NEW u \in Users, work'[u] # NoWork
        PROVE  /\ p'[work'[u].target] = Loose
               /\ work'[u].target # work'[u].source
               /\ \A v \in Users \ {u} : work'[v] # NoWork =>
                     work'[u].target # work'[v].target /\ work'[u].target # work'[v].source
    <3>1. CASE u = t
      BY <1>1, <1>2, <3>1
    <3>2. CASE u # t
      BY <1>1, <1>2, <2>1, <3>2 DEF RptrInv, WorksApart
    <3>3. QED
      BY <3>1, <3>2
  <2>2. QED
    BY <2>1 DEF WorksApart
<1>5. WorksKept'
  <2>1. ASSUME NEW u \in Users, work'[u] # NoWork
        PROVE  /\ \A x \in {work'[u].target, work'[u].source} \cap Locals : UserOf[x] = u
               /\ \A o \in {work'[u].target, work'[u].source, work'[u].plain} \cap Objects :
                     Keeps(u, o)'
    <3>1. CASE u = t
      BY <1>1, <1>3, <3>1
    <3>2. CASE u # t
      BY <1>1, <1>2, <2>1, <3>2 DEF RptrInv, WorksKept
    <3>3. QED
      BY <3>1, <3>2
  <2>2. QED
    BY <2>1 DEF WorksKept
<1>6. QED
  BY <1>4, <1>5

----------------------------------------------------------------------------
(* Every operation keeps the invariant.                                    *)

\* t changes no other pointers than those of C, which it may use or construct.
Touches(t, C) ==
    /\ C \subseteq Rptrs
    /\ \A x \in C : (x \in Locals => UserOf[x] = t) /\ (Quiet(x) \/ p[x] = Gone)
    /\ \A x \in Rptrs \ C : p'[x] = p[x]

\* What a thread outside of any call changes spares the assignments of the others.
LEMMA IdleSpares ==
  ASSUME RptrAssumption, RptrInv, NEW t \in Users, Idle(t), NEW C, Touches(t, C),
         \/ UNCHANGED work
         \/ work' = [work EXCEPT ![t] = NoWork]
  PROVE  WorksApart' /\ WorksKept'
<1>1. ASSUME NEW u \in Users, work'[u] # NoWork PROVE work'[u] = work[u] /\ Spares(u, C)
  <2>1. u # t /\ work'[u] = work[u]
    BY <1>1 DEF Idle, RptrInv, RptrTypeOK
  <2>2. QED
    BY <1>1, <2>1 DEF Spares, Quiet, Touches
<1>2. QED
  BY <1>1, WorksUndisturbed DEF Touches

LEMMA LocalNotFresh ==
  ASSUME RptrAssumption, RptrTypeOK, NEW x \in Locals
  PROVE  x \in Rptrs \ fresh
BY DEF RptrAssumption, RptrTypeOK, Rptrs

LEMMA ConstructNullKeeps ==
  ASSUME RptrAssumption, RptrInv, NEW t \in Users, NEW x \in Rptrs, ConstructNull(t, x)
  PROVE  RptrInv'
<1>1. x \in Rptrs \ fresh /\ Null \in Pointees /\ Null \notin Objects /\ p[x] \notin Objects
  BY LocalNotFresh DEF ConstructNull, Pointees, RptrInv, RptrAssumption
<1>2. Becomes(x, Null) /\ refcnt' = Inc(refcnt, Null) /\ UNCHANGED <<exists, fresh, from>>
  BY <1>1 DEF ConstructNull, Becomes, Inc
<1>3. work' \in [Users -> Works \cup {NoWork}]
  BY DEF ConstructNull, RptrInv, RptrTypeOK
<1>4. RptrTypeOK' /\ Counting'
  BY <1>1, <1>2, <1>3, TakeCounts DEF RptrInv
<1>5. Idle(t) /\ UNCHANGED work /\ UserOf[x] = t /\ p[x] = Gone
      /\ \A y \in Rptrs \ {x} : p'[y] = p[y]
  BY DEF ConstructNull, RptrInv, RptrTypeOK
<1>6. WorksApart' /\ WorksKept'
  <2>1. Touches(t, {x})
    BY <1>5 DEF Touches
  <2>2. QED
    BY <1>5, <2>1, IdleSpares
<1>7. QED
  BY <1>4, <1>6 DEF RptrInv

LEMMA CopyConstructKeeps ==
  ASSUME RptrAssumption, RptrInv, NEW t \in Users, NEW x \in Rptrs, NEW y \in Rptrs,
         CopyConstruct(t, x, y)
  PROVE  RptrInv'
<1>1. x \in Rptrs \ fresh /\ p[y] \in Pointees /\ p[x] \notin Objects
  BY LocalNotFresh DEF CopyConstruct, Pointees, RptrInv, RptrTypeOK, RptrAssumption
<1>2. Becomes(x, p[y]) /\ refcnt' = Inc(refcnt, p[y]) /\ UNCHANGED <<exists, fresh, from>>
  BY DEF CopyConstruct, Becomes
<1>3. work' \in [Users -> Works \cup {NoWork}]
  BY DEF CopyConstruct, RptrInv, RptrTypeOK
<1>4. p[y] \in Objects => p[y] \in exists
  BY PointedExists DEF RptrInv
<1>5. RptrTypeOK' /\ Counting'
  BY <1>1, <1>2, <1>3, <1>4, TakeCounts DEF RptrInv
<1>6. Idle(t) /\ UNCHANGED work /\ UserOf[x] = t /\ p[x] = Gone
      /\ \A z \in Rptrs \ {x} : p'[z] = p[z]
  BY DEF CopyConstruct, RptrInv, RptrTypeOK
<1>7. WorksApart' /\ WorksKept'
  <2>1. Touches(t, {x})
    BY <1>6 DEF Touches
  <2>2. QED
    BY <1>6, <2>1, IdleSpares
<1>8. QED
  BY <1>5, <1>7 DEF RptrInv

LEMMA MoveConstructKeeps ==
  ASSUME RptrAssumption, RptrInv, NEW t \in Users, NEW x \in Rptrs, NEW y \in Rptrs,
         MoveConstruct(t, x, y)
  PROVE  RptrInv'
<1>1. x \in Rptrs \ fresh /\ Emptied \in Pointees /\ Emptied \notin Objects /\ p[x] \notin Objects
  BY LocalNotFresh DEF MoveConstruct, Pointees, Emptied, RptrInv, RptrAssumption
<1>2. y \in Rptrs \ fresh /\ Quiet(y) /\ (y \in Locals => UserOf[y] = t)
  BY UsedExists DEF MoveConstruct, RptrInv
<1>3. x # y
  BY DEF MoveConstruct, Readable, Usable, RptrAssumption
<1>4. BothBecome(x, p[y], y, Emptied) /\ UNCHANGED <<refcnt, exists, fresh, from>>
  BY DEF MoveConstruct, BothBecome
<1>5. work' \in [Users -> Works \cup {NoWork}]
  BY DEF MoveConstruct, RptrInv, RptrTypeOK
<1>6. RptrTypeOK' /\ Counting'
  BY <1>1, <1>2, <1>3, <1>4, <1>5, MoveCounts DEF RptrInv
<1>7. Idle(t) /\ UNCHANGED work /\ UserOf[x] = t /\ p[x] = Gone
      /\ \A z \in Rptrs \ {x, y} : p'[z] = p[z]
  BY DEF MoveConstruct, RptrInv, RptrTypeOK
<1>8. WorksApart' /\ WorksKept'
  <2>1. Touches(t, {x, y})
    BY <1>2, <1>7 DEF Touches
  <2>2. QED
    BY <1>7, <2>1, IdleSpares
<1>9. QED
  BY <1>6, <1>8 DEF RptrInv

LEMMA SwapKeeps ==
  ASSUME RptrAssumption, RptrInv, NEW t \in Users, NEW x \in Rptrs, NEW y \in Rptrs,
         Swap(t, x, y)
  PROVE  RptrInv'
<1>1. /\ x \in Rptrs \ fresh /\ Quiet(x) /\ (x \in Locals => UserOf[x] = t)
      /\ y \in Rptrs \ fresh /\ Quiet(y) /\ (y \in Locals => UserOf[y] = t)
  BY UsedExists DEF Swap, RptrInv
<1>2. BothBecome(x, p[y], y, p[x]) /\ x # y /\ UNCHANGED <<refcnt, exists, fresh, from>>
  BY DEF Swap, BothBecome
<1>3. work' \in [Users -> Works \cup {NoWork}] /\ p[x] \in Pointees
  BY DEF Swap, Pointees, RptrInv, RptrTypeOK
<1>4. RptrTypeOK' /\ Counting'
  BY <1>1, <1>2, <1>3, MoveCounts DEF RptrInv
<1>5. Idle(t) /\ UNCHANGED work /\ \A z \in Rptrs \ {x, y} : p'[z] = p[z]
  BY DEF Swap, RptrInv, RptrTypeOK
<1>6. WorksApart' /\ WorksKept'
  <2>1. Touches(t, {x, y})
    BY <1>1, <1>5 DEF Touches
  <2>2. QED
    BY <1>5, <2>1, IdleSpares
<1>7. QED
  BY <1>4, <1>6 DEF RptrInv

LEMMA ConstructNewKeeps ==
  ASSUME RptrAssumption, RptrInv, NEW t \in Users, NEW x \in Rptrs, NEW o \in Objects,
         ConstructNew(t, x, o)
  PROVE  RptrInv'
<1> DEFINE r == [p EXCEPT ![x] = o]
<1>1. /\ Idle(t) /\ UNCHANGED <<from, work>>
      /\ UserOf[x] = t /\ x \in Locals /\ x # o /\ p[x] = Gone /\ p[o] = Gone /\ o \in fresh
      /\ Gone \notin Objects /\ Null \notin Objects
      /\ exists' = exists \cup {o} /\ fresh' = fresh \ {o}
  BY DEF ConstructNew, RptrInv, Counting, FreshHoldNothing, RptrAssumption
<1>2. /\ p \in [Rptrs -> Pointees] /\ p' \in [Rptrs -> Pointees]
      /\ x \in Rptrs /\ o \in Rptrs
      /\ r[x] = o /\ p'[o] = Null /\ r[o] = p[o] /\ But(x, p, r) /\ But(o, r, p')
  BY <1>1 DEF ConstructNew, RptrInv, RptrTypeOK, Pointees, Rptrs, But
<1>3. refcnt[o] = 0 /\ refcnt' = [refcnt EXCEPT ![o] = 1]
  <2>1. refcnt[o] = 0
    BY <1>1 DEF RptrInv, RptrTypeOK, Counting, ExistsWhileCounted
  <2>2. QED
    BY <2>1 DEF ConstructNew, Inc
<1> HIDE DEF r
<1>4. Cardinality(Pointing(p', o)) = 1
  <2>1. Cardinality(Pointing(p, o)) = 0
    BY <1>3 DEF RptrInv, Counting, CountsPointers
  <2>2. p[x] # o /\ p[o] # o
    BY <1>1
  <2>3. Cardinality(Pointing(r, o)) = Cardinality(Pointing(p, o)) + 1
    BY <1>2, <2>2, PointingChanges
  <2>4. r[o] # o /\ p'[o] # o
    BY <1>1, <1>2
  <2>5. Cardinality(Pointing(p', o)) = Cardinality(Pointing(r, o))
    BY <1>2, <2>4, PointingChanges
  <2>6. QED
    BY <2>1, <2>3, <2>5
<1>5. ASSUME NEW z \in Objects \ {o} PROVE Cardinality(Pointing(p', z)) = Cardinality(Pointing(p, z))
  <2>1. p[x] # z /\ r[x] # z /\ r[o] # z /\ p'[o] # z
    BY <1>1, <1>2
  <2>2. Cardinality(Pointing(r, z)) = Cardinality(Pointing(p, z))
    BY <1>2, <2>1, PointingChanges
  <2>3. Cardinality(Pointing(p', z)) = Cardinality(Pointing(r, z))
    BY <1>2, <2>1, PointingChanges
  <2>4. QED
    BY <2>2, <2>3
<1>6. CountsPointers'
  BY <1>3, <1>4, <1>5 DEF RptrInv, RptrTypeOK, Counting, CountsPointers
<1>7. ExistsWhileCounted'
  BY <1>1, <1>3 DEF RptrInv, RptrTypeOK, Counting, ExistsWhileCounted
<1>8. FreshHoldNothing'
  BY <1>1 DEF ConstructNew, RptrInv, RptrTypeOK, Counting, FreshHoldNothing, Rptrs, RptrAssumption
<1>9. DeletedIsGone'
  BY <1>1 DEF RptrInv, RptrTypeOK, Counting, DeletedIsGone
<1>10. RptrTypeOK'
  BY <1>1, <1>2, <1>3 DEF RptrInv, RptrTypeOK, Pointees
<1>11. Touches(t, {x, o})
  BY <1>1, <1>2 DEF ConstructNew, Touches, RptrInv, RptrTypeOK, RptrAssumption
<1>12. WorksApart' /\ WorksKept'
  BY <1>1, <1>11, IdleSpares
<1>13. QED
  BY <1>6, <1>7, <1>8, <1>9, <1>10, <1>12 DEF RptrInv, Counting

LEMMA DestroyPtrKeeps ==
  ASSUME RptrAssumption, RptrInv, NEW t \in Users, NEW x \in Rptrs, DestroyPtr(t, x)
  PROVE  RptrInv'
<1>1. Idle(t) /\ GiveUp(t, x, Gone, NoWork) /\ x \notin fresh
  BY LocalNotFresh DEF DestroyPtr, RptrInv
<1>2. RptrTypeOK' /\ Counting'
  BY <1>1, GiveUpCounts DEF RptrInv
<1>3. Touches(t, {x}) /\ work' = [work EXCEPT ![t] = NoWork]
  BY UsedExists DEF DestroyPtr, GiveUp, Touches, RptrInv, RptrTypeOK
<1>4. WorksApart' /\ WorksKept'
  BY <1>1, <1>3, IdleSpares
<1>5. QED
  BY <1>2, <1>4 DEF RptrInv

LEMMA DestroyMemberKeeps ==
  ASSUME RptrAssumption, RptrInv, NEW t \in Users, DestroyMember(t)
  PROVE  RptrInv'
<1> DEFINE x == from[t]
<1>1. /\ x \in Objects \ (exists \cup fresh) /\ x \in Rptrs /\ x \notin Locals
      /\ GiveUp(t, x, Gone, work[t])
      /\ work[t] \in Works \cup {NoWork}
  BY DEF DestroyMember, RptrInv, RptrTypeOK, Counting, DeletedIsGone, Rptrs, RptrAssumption
<1> HIDE DEF x
<1>2. RptrTypeOK' /\ Counting'
  BY <1>1, GiveUpCounts DEF RptrInv
<1>3. work' = work /\ \A z \in Rptrs \ {x} : p'[z] = p[z]
  BY <1>1 DEF GiveUp, RptrInv, RptrTypeOK
<1>4. {x} \in SUBSET Rptrs /\ \A u \in Users : Spares(u, {x})
  BY <1>1 DEF Spares
<1>5. WorksApart' /\ WorksKept'
  BY <1>3, <1>4, WorksUndisturbed
<1>6. QED
  BY <1>2, <1>5 DEF RptrInv

LEMMA AssignKeeps ==
  ASSUME RptrAssumption, Careful, RptrInv, NEW t \in Users, NEW x \in Rptrs, NEW y \in Rptrs,
         NEW move \in BOOLEAN, Assign(t, x, y, move)
  PROVE  RptrInv'
<1> DEFINE w == [target |-> x, source |-> y, plain |-> Null, move |-> move]
<1>1. w \in Works /\ GiveUp(t, x, Loose, w) /\ x # y /\ work[t] = NoWork
  BY DEF Assign, Works, Idle
<1>2. /\ x \notin fresh /\ Quiet(x) /\ (x \in Locals => UserOf[x] = t)
      /\ Quiet(y) /\ (y \in Locals => UserOf[y] = t)
      /\ y \in Objects => \E l \in Locals \ {x} : UserOf[l] = t /\ p[l] = y
      /\ x \in Objects => \E l \in Locals \ {x} : UserOf[l] = t /\ p[l] = x
  BY UsedExists DEF Assign, RptrInv
<1>3. RptrTypeOK' /\ Counting'
  BY <1>1, <1>2, GiveUpCounts DEF RptrInv
<1>4. WorksApart' /\ WorksKept'
  <2>1. w.target = x /\ w.source = y /\ w.plain = Null /\ Null \notin Objects
    BY DEF RptrAssumption
  <2>2. p' = [p EXCEPT ![x] = Loose] /\ work' = [work EXCEPT ![t] = w]
    BY <1>1 DEF GiveUp
  <2> HIDE DEF w
  <2>3. \A o \in {w.target, w.source, w.plain} \cap Objects :
           \E l \in Locals \ {w.target} : UserOf[l] = t /\ p[l] = o
    BY <1>2, <2>1
  <2>4. /\ \A z \in {w.target, w.source} : z # Null => Quiet(z)
        /\ \A z \in {w.target, w.source} \cap Locals : UserOf[z] = t
    BY <1>2, <2>1
  <2>5. QED
    BY <1>1, <2>1, <2>2, <2>3, <2>4, WorkBegins
<1>5. QED
  BY <1>3, <1>4 DEF RptrInv

LEMMA ResetKeeps ==
  ASSUME RptrAssumption, Careful, RptrInv, NEW t \in Users, NEW x \in Rptrs,
         NEW o \in Objects \cup {Null}, Reset(t, x, o)
  PROVE  RptrInv'
<1> DEFINE w == [target |-> x, source |-> Null, plain |-> o, move |-> FALSE]
<1>1. w \in Works /\ GiveUp(t, x, Loose, w) /\ work[t] = NoWork /\ Null \notin Rptrs
  BY DEF Reset, Works, Idle, RptrAssumption, Rptrs
<1>2. /\ x \notin fresh /\ Quiet(x) /\ (x \in Locals => UserOf[x] = t)
      /\ o \in Objects => \E l \in Locals \ {x} : UserOf[l] = t /\ p[l] = o
      /\ x \in Objects => \E l \in Locals \ {x} : UserOf[l] = t /\ p[l] = x
  BY UsedExists DEF Reset, RptrInv, RptrAssumption
<1>3. RptrTypeOK' /\ Counting'
  BY <1>1, <1>2, GiveUpCounts DEF RptrInv
<1>4. WorksApart' /\ WorksKept'
  <2>1. w.target = x /\ w.source = Null /\ w.plain = o /\ Null \notin Objects \cup Locals
    BY DEF RptrAssumption
  <2>2. p' = [p EXCEPT ![x] = Loose] /\ work' = [work EXCEPT ![t] = w]
    BY <1>1 DEF GiveUp
  <2> HIDE DEF w
  <2>3. \A z \in {w.target, w.source, w.plain} \cap Objects :
           \E l \in Locals \ {w.target} : UserOf[l] = t /\ p[l] = z
    BY <1>2, <2>1
  <2>4. /\ \A z \in {w.target, w.source} : z # Null => Quiet(z)
        /\ \A z \in {w.target, w.source} \cap Locals : UserOf[z] = t
        /\ w.target # w.source
    BY <1>1, <1>2, <2>1
  <2>5. QED
    BY <1>1, <2>1, <2>2, <2>3, <2>4, WorkBegins
<1>5. QED
  BY <1>3, <1>4 DEF RptrInv

\* What is part of an assignment is there.
LEMMA WorkParts ==
  ASSUME RptrAssumption, RptrInv, NEW t \in Users, work[t] # NoWork
  PROVE  /\ work[t] \in Works
         /\ work[t].target \in Rptrs \ fresh /\ p[work[t].target] = Loose
         /\ work[t].source \in Rptrs \cup {Null} /\ work[t].source \notin fresh
         /\ work[t].plain \in Objects \cup {Null}
         /\ work[t].target # work[t].source
         /\ \A o \in {work[t].target, work[t].source, work[t].plain} \cap Objects : o \in exists
<1>1. /\ work[t] \in Works /\ work[t].target \in Rptrs /\ work[t].source \in Rptrs \cup {Null}
      /\ work[t].plain \in Objects \cup {Null}
      /\ p[work[t].target] = Loose /\ work[t].target # work[t].source
  BY DEF RptrInv, RptrTypeOK, Works, WorksApart
<1>2. ASSUME NEW o \in {work[t].target, work[t].source, work[t].plain} \cap Objects
      PROVE  o \in exists /\ o \notin fresh
  <2>1. PICK l \in Locals : UserOf[l] = t /\ p[l] = o
    BY <1>2 DEF RptrInv, WorksKept, Keeps
  <2>2. QED
    BY <1>2, <2>1, PointedExists DEF RptrInv, Rptrs
<1>3. fresh \subseteq Objects
  BY DEF RptrInv, RptrTypeOK
<1>4. QED
  BY <1>1, <1>2, <1>3

\* An assignment that ends spares those of the other threads.
LEMMA EndingSpares ==
  ASSUME RptrAssumption, RptrInv, NEW t \in Users, work[t] # NoWork, NEW C \in SUBSET Rptrs,
         C \subseteq {work[t].target, work[t].source},
         \A x \in Rptrs \ C : p'[x] = p[x],
         work' = [work EXCEPT ![t] = NoWork]
  PROVE  WorksApart' /\ WorksKept'
<1>1. ASSUME NEW u \in Users, work'[u] # NoWork PROVE work'[u] = work[u] /\ Spares(u, C)
  <2>1. u # t /\ work'[u] = work[u] /\ work[u] # NoWork
    BY <1>1 DEF RptrInv, RptrTypeOK
  <2>2. work[t].target # work[u].target /\ work[t].source # work[u].target
    BY <2>1 DEF RptrInv, WorksApart
  <2>3. \A x \in {work[t].target, work[t].source} \cap Locals : UserOf[x] = t
    BY DEF RptrInv, WorksKept
  <2>4. QED
    BY <2>1, <2>2, <2>3 DEF Spares
<1>2. QED
  BY <1>1, WorksUndisturbed

LEMMA AssignEndsKeeps ==
  ASSUME RptrAssumption, RptrInv, NEW t \in Users, AssignEnds(t)
  PROVE  RptrInv'
<1> DEFINE x == work[t].target
           y == work[t].source
<1>1. /\ work[t] # NoWork /\ x # y
      /\ x \in Rptrs \ fresh /\ y \in Rptrs \ fresh
      /\ p[x] = Loose /\ p[x] \notin Objects
      /\ work' = [work EXCEPT ![t] = NoWork] /\ UNCHANGED <<exists, fresh, from>>
  BY WorkParts DEF AssignEnds, RptrAssumption
<1>2. work' \in [Users -> Works \cup {NoWork}]
  BY <1>1 DEF RptrInv, RptrTypeOK
<1>3. \/ BothBecome(x, p[y], y, Emptied) /\ UNCHANGED refcnt
      \/ Becomes(x, p[y]) /\ refcnt' = Inc(refcnt, p[y])
  BY DEF AssignEnds, BothBecome, Becomes
<1>4. \A z \in Rptrs \ {x, y} : p'[z] = p[z]
  BY <1>3 DEF BothBecome, Becomes, RptrInv, RptrTypeOK
<1>5. WorksApart' /\ WorksKept'
  <2>1. {x, y} \in SUBSET Rptrs /\ {x, y} \subseteq {work[t].target, work[t].source}
    BY <1>1
  <2>2. QED
    BY <1>1, <1>4, <2>1, EndingSpares
<1> HIDE DEF x, y
<1>6. CASE BothBecome(x, p[y], y, Emptied) /\ UNCHANGED refcnt
  <2>1. Emptied \in Pointees /\ Emptied \notin Objects
    BY DEF Emptied, Pointees, RptrAssumption
  <2>2. RptrTypeOK' /\ Counting'
    BY <1>1, <1>2, <1>6, <2>1, MoveCounts DEF RptrInv
  <2>3. QED
    BY <1>5, <2>2 DEF RptrInv
<1>7. CASE Becomes(x, p[y]) /\ refcnt' = Inc(refcnt, p[y])
  <2>1. p[y] \in Pointees /\ (p[y] \in Objects => p[y] \in exists)
    BY <1>1, PointedExists DEF Pointees, RptrInv, RptrTypeOK
  <2>2. RptrTypeOK' /\ Counting'
    BY <1>1, <1>2, <1>7, <2>1, TakeCounts DEF RptrInv
  <2>3. QED
    BY <1>5, <2>2 DEF RptrInv
<1>8. QED
  BY <1>3, <1>6, <1>7

LEMMA ResetEndsKeeps ==
  ASSUME RptrAssumption, RptrInv, NEW t \in Users, ResetEnds(t)
  PROVE  RptrInv'
<1> DEFINE x == work[t].target
           o == work[t].plain
<1>1. /\ work[t] # NoWork
      /\ x \in Rptrs \ fresh /\ p[x] \notin Objects
      /\ o \in Pointees /\ (o \in Objects => o \in exists)
      /\ work' = [work EXCEPT ![t] = NoWork] /\ UNCHANGED <<exists, fresh, from>>
      /\ Becomes(x, o) /\ refcnt' = Inc(refcnt, o)
  BY WorkParts DEF ResetEnds, RptrAssumption, Becomes, Pointees
<1>2. work' \in [Users -> Works \cup {NoWork}]
  BY <1>1 DEF RptrInv, RptrTypeOK
<1>3. WorksApart' /\ WorksKept'
  <2>1. {x} \in SUBSET Rptrs /\ {x} \subseteq {work[t].target, work[t].source}
    BY <1>1
  <2>2. \A z \in Rptrs \ {x} : p'[z] = p[z]
    BY <1>1 DEF Becomes, RptrInv, RptrTypeOK
  <2>3. QED
    BY <1>1, <2>1, <2>2, EndingSpares
<1> HIDE DEF x, o
<1>4. RptrTypeOK' /\ Counting'
  BY <1>1, <1>2, TakeCounts DEF RptrInv
<1>5. QED
  BY <1>3, <1>4 DEF RptrInv

----------------------------------------------------------------------------
(* Theorems.                                                               *)

LEMMA RptrStepHolds ==
  ASSUME RptrAssumption, Careful, RptrInv, [RptrNext]_rptrVars
  PROVE  RptrInv'
<1>1. ASSUME NEW t \in Users, DestroyMember(t) PROVE RptrInv'
  BY <1>1, DestroyMemberKeeps
<1>2. ASSUME NEW t \in Users, AssignEnds(t) PROVE RptrInv'
  BY <1>2, AssignEndsKeeps
<1>3. ASSUME NEW t \in Users, ResetEnds(t) PROVE RptrInv'
  BY <1>3, ResetEndsKeeps
<1>4. ASSUME NEW t \in Users, NEW x \in Rptrs, ConstructNull(t, x) PROVE RptrInv'
  BY <1>4, ConstructNullKeeps
<1>5. ASSUME NEW t \in Users, NEW x \in Rptrs, DestroyPtr(t, x) PROVE RptrInv'
  BY <1>5, DestroyPtrKeeps
<1>6. ASSUME NEW t \in Users, NEW x \in Rptrs, NEW o \in Objects \cup {Null}, Reset(t, x, o)
      PROVE  RptrInv'
  BY <1>6, ResetKeeps
<1>7. ASSUME NEW t \in Users, NEW x \in Rptrs, NEW o \in Objects, ConstructNew(t, x, o)
      PROVE  RptrInv'
  BY <1>7, ConstructNewKeeps
<1>8. ASSUME NEW t \in Users, NEW x \in Rptrs, NEW y \in Rptrs, CopyConstruct(t, x, y)
      PROVE  RptrInv'
  BY <1>8, CopyConstructKeeps
<1>9. ASSUME NEW t \in Users, NEW x \in Rptrs, NEW y \in Rptrs, MoveConstruct(t, x, y)
      PROVE  RptrInv'
  BY <1>9, MoveConstructKeeps
<1>10. ASSUME NEW t \in Users, NEW x \in Rptrs, NEW y \in Rptrs, NEW move \in BOOLEAN,
              Assign(t, x, y, move)
       PROVE  RptrInv'
  BY <1>10, AssignKeeps
<1>11. ASSUME NEW t \in Users, NEW x \in Rptrs, NEW y \in Rptrs, Swap(t, x, y)
       PROVE  RptrInv'
  BY <1>11, SwapKeeps
<1>12. CASE UNCHANGED rptrVars
  BY <1>12 DEF rptrVars, RptrInv, RptrTypeOK, Counting, CountsPointers, ExistsWhileCounted,
               FreshHoldNothing, DeletedIsGone, WorksApart, WorksKept, Keeps, Pointing
<1>13. QED
  BY <1>1, <1>2, <1>3, <1>4, <1>5, <1>6, <1>7, <1>8, <1>9, <1>10, <1>11, <1>12 DEF RptrNext

\* The invariant holds at every step, of any threads.
THEOREM RptrInvariant ==
  ASSUME RptrAssumption, Careful
  PROVE  RptrSpec => []RptrInv
<1>1. RptrInit => RptrInv
  BY RptrInitHolds
<1>2. RptrInv /\ [RptrNext]_rptrVars => RptrInv'
  BY RptrStepHolds
<1>3. QED
  BY <1>1, <1>2, PTL DEF RptrSpec

\* The count of an object is always the number of pointers to it (tpointee_inc_ref_ and
\* tpointee_dec_ref_).
THEOREM CountsPointersHolds ==
  ASSUME RptrAssumption, Careful
  PROVE  RptrSpec => []CountsPointers
<1>1. RptrInv => CountsPointers
  BY DEF RptrInv, Counting
<1>2. QED
  BY <1>1, RptrInvariant, PTL

\* An object exists just as long as there is a pointer to it: it is deleted with the last one,
\* once, and no pointer dangles.
THEOREM ExistsWhilePointedToHolds ==
  ASSUME RptrAssumption, Careful
  PROVE  RptrSpec => []ExistsWhilePointedTo
<1>1. RptrInv => ExistsWhilePointedTo
  <2>1. SUFFICES ASSUME RptrInv, NEW o \in Objects PROVE o \in exists <=> Pointing(p, o) # {}
    BY DEF ExistsWhilePointedTo
  <2>2. (o \in exists <=> refcnt[o] > 0) /\ refcnt[o] = Cardinality(Pointing(p, o))
    BY <2>1 DEF RptrInv, Counting, ExistsWhileCounted, CountsPointers
  <2>3. Cardinality(Pointing(p, o)) \in Nat /\ (Cardinality(Pointing(p, o)) = 0 <=> Pointing(p, o) = {})
    BY PointingCounts
  <2>4. QED
    BY <2>2, <2>3
<1>2. QED
  BY <1>1, RptrInvariant, PTL

\* What an assignment that has given up its target's object is about to read has not been
\* deleted with it, when users keep the source alive themselves (operator = and reset
\* decrement before they increment).
THEOREM SourceOutlivesTargetHolds ==
  ASSUME RptrAssumption, Careful
  PROVE  RptrSpec => []SourceOutlivesTarget
<1>1. RptrInv => SourceOutlivesTarget
  BY WorkParts DEF SourceOutlivesTarget
<1>2. QED
  BY <1>1, RptrInvariant, PTL
=============================================================================
