------------------------------- MODULE Vector -------------------------------
(***************************************************************************)
(* qak::vector<T>: a few vectors, used by one thread.                      *)
(*                                                                         *)
(* A vector is three pointers.  Here it is its capacity z_ - b_, its size  *)
(* e_ - b_ and, for each slot of its storage, the element constructed      *)
(* there or Raw.  A call runs one element at a time, because the           *)
(* constructors and assignments of T may throw at any of them: one step    *)
(* constructs, assigns or destroys one element.                            *)
(***************************************************************************)
EXTENDS Elements

CONSTANTS
    Vectors,    \* the user's vectors
    That,       \* the local variable "that" of a call that reallocates
    MayThrow,   \* whether elements and allocations throw
    Avoided     \* the calls that the user avoids, out of Pitfalls

\* Calls that break a vector: resize to fewer elements; reserve, by itself or in
\* an assignment, on an emptied vector that has storage; assign(n, v[i]);
\* assign from a range shorter than the vector; a constructor left by an exception.
Pitfalls == {"shrink", "regrow", "own", "shorter", "unborn"}

VectorAssumption ==
    /\ That \notin Vectors
    /\ MayThrow \in BOOLEAN
    /\ Avoided \subseteq Pitfalls

VARIABLES
    vec,        \* each vector's [cap, size, slot]
    born,       \* the vectors whose constructor has begun
    phase,      \* the loop the running call is in
    call,       \* the running, or last, call
    ix,         \* the index variable of that loop
    threw,      \* whether the call ended, or is ending, by an exception
    goal,       \* what every vector holds when the call returns
    faults      \* what the calls so far did to memory that they should not

vars == <<vec, born, phase, call, ix, threw, goal, faults>>

Phases == {"idle", "append", "copy", "drop", "overwrite", "clear", "shrink", "destroy"}

Ops == {"construct", "destroy", "copy", "move", "assign", "fill", "replace",
        "resize", "reserve", "push", "clear", "none"}

make_new_storage(n) == [cap |-> n, size |-> 0, slot |-> [i \in 0..(n - 1) |-> Raw]]

Empty == make_new_storage(0)

\* The elements as a function on 0..size-1.
Elems(x) == [i \in 0..(x.size - 1) |-> x.slot[i]]

Contents(v) == Elems(vec[v])

Repeat(n, val) == [i \in 0..(n - 1) |-> val]

\* The first n elements of f, or f followed by copies of val.
Sized(f, n, val) == [i \in 0..(n - 1) |-> IF i \in DOMAIN f THEN f[i] ELSE val]

\* Ranges that the user assigns or constructs from.
Ranges == UNION {[0..(n - 1) -> Values] : n \in 0..MaxSize}

Count(f) == CHOOSE n \in 0..MaxSize : DOMAIN f = 0..(n - 1)

Init ==
    /\ vec = [v \in Vectors \cup {That} |-> Empty]
    /\ born = {} /\ phase = "idle" /\ ix = 0 /\ threw = FALSE /\ faults = {}
    /\ call = [op |-> "none", v |-> That, w |-> That, n |-> 0, src |-> Repeat(0, Default)]
    /\ goal = [v \in Vectors |-> Repeat(0, Default)]

----------------------------------------------------------------------------
(* What is done to a slot.                                                 *)

Live(x, i) == i \in 0..(x.cap - 1) /\ x.slot[i] # Raw

Put(x, i, e) == [x EXCEPT !.slot[i] = e]

\* new (e_) value_type(e); ++e_
Construct(x, e) ==
    [cap |-> x.cap, size |-> x.size + 1, slot |-> [x.slot EXCEPT ![x.size] = e]]

\* Mutant: e_ is decremented after the element it points to is destroyed.
DestroyAbove(x) ==
    [cap |-> x.cap, size |-> x.size - 1, slot |-> [x.slot EXCEPT ![x.size] = Raw]]

\* (--e_)->~value_type()
DestroyLast(x) ==
    [cap |-> x.cap, size |-> x.size - 1, slot |-> [x.slot EXCEPT ![x.size - 1] = Raw]]

\* A constructor runs where an element lives, or past the storage.
ConstructFault(x) ==
    IF x.size < x.cap /\ ~Live(x, x.size) THEN {} ELSE {"constructed over"}

DestroyFault(x, i) == IF Live(x, i) THEN {} ELSE {"destroyed nothing"}

AssignFault(x, i) == IF Live(x, i) THEN {} ELSE {"assigned nothing"}

\* The storage is deleted with elements in it.
FreeFault(x) == IF \E i \in 0..(x.cap - 1) : Live(x, i) THEN {"leaked"} ELSE {}

Blame(f) == faults' = faults \cup f

----------------------------------------------------------------------------
(* Calls.                                                                  *)

\* A call of op on v with the further vector w, that is to end with the n
\* elements src, starts in the given phase.
Begin(op, v, w, n, src, ph, i) ==
    /\ phase = "idle"
    /\ call' = [op |-> op, v |-> v, w |-> w, n |-> n, src |-> src]
    /\ phase' = ph /\ ix' = i /\ threw' = FALSE

\* What every vector holds, for calls that only change v.
WithGoal(v, f) ==
    goal' = [x \in Vectors |-> IF x = v THEN f ELSE Contents(x)]

\* vector(), vector(n), vector(n, val)
ConstructN(v, n, val) ==
    /\ v \notin born
    /\ born' = born \cup {v}
    /\ vec' = [vec EXCEPT ![v] = make_new_storage(n)]
    /\ Begin("construct", v, v, n, Repeat(n, val), "append", 0)
    /\ WithGoal(v, Repeat(n, val))
    /\ UNCHANGED faults

\* vector(first, last)
ConstructRange(v, f) ==
    /\ v \notin born
    /\ born' = born \cup {v}
    /\ Begin("construct", v, v, Count(f), f, "append", 0)
    /\ WithGoal(v, f)
    /\ UNCHANGED <<vec, faults>>

\* vector(vector const &)
ConstructCopy(v, w) ==
    /\ v \notin born /\ w \in born
    /\ born' = born \cup {v}
    /\ vec' = [vec EXCEPT ![v] = make_new_storage(vec[w].size)]
    /\ Begin("construct", v, w, vec[w].size, Contents(w), "append", 0)
    /\ WithGoal(v, Contents(w))
    /\ UNCHANGED faults

\* vector(vector &&)
ConstructMove(v, w) ==
    /\ v \notin born /\ w \in born
    /\ born' = born \cup {v}
    /\ vec' = [vec EXCEPT ![v] = vec[w], ![w] = Empty]
    /\ Begin("move", v, w, 0, Repeat(0, Default), "idle", 0)
    /\ goal' = [x \in Vectors |-> IF x = v THEN Contents(w)
                                  ELSE IF x = w THEN Elems(Empty) ELSE Contents(x)]
    /\ UNCHANGED faults

\* ~vector: the elements from the first, then the storage.
Destroy(v) ==
    /\ v \in born
    /\ Begin("destroy", v, v, 0, Repeat(0, Default), "destroy", 0)
    /\ WithGoal(v, Elems(Empty))
    /\ UNCHANGED <<vec, born, faults>>

\* operator = (vector const &), from another vector.
AssignCopy(v, w) ==
    /\ {v, w} \subseteq born /\ v # w
    /\ "regrow" \in Avoided => vec[v].cap = 0 \/ vec[w].size <= vec[v].cap
    /\ Begin("copy", v, w, vec[w].size, Contents(w), "clear", 0)
    /\ WithGoal(v, Contents(w))
    /\ UNCHANGED <<vec, born, faults>>

\* operator = (vector &&), from another vector.
AssignMove(v, w) ==
    /\ {v, w} \subseteq born /\ v # w
    /\ Begin("move", v, w, 0, Repeat(0, Default), "clear", 0)
    /\ goal' = [x \in Vectors |-> IF x = v THEN Contents(w)
                                  ELSE IF x = w THEN Elems(Empty) ELSE Contents(x)]
    /\ UNCHANGED <<vec, born, faults>>

\* assign(first, last), from outside the vector.
AssignRange(v, f) ==
    /\ v \in born
    /\ "shorter" \in Avoided => vec[v].size <= Count(f)
    /\ Begin("assign", v, v, Count(f), f, "overwrite", 0)
    /\ WithGoal(v, f)
    /\ UNCHANGED <<vec, born, faults>>

\* The loop of resize(n) that a vector of the given size and enough storage needs.
Resizing(n, size) == IF size <= n THEN "append" ELSE IF n = 0 THEN "clear" ELSE "shrink"

\* assign(n, val), val outside the vector.
AssignN(v, n, val) ==
    /\ v \in born
    /\ WithGoal(v, Repeat(n, val))
    /\ \/ /\ vec[v].cap < n
          /\ vec' = [vec EXCEPT ![That] = make_new_storage(n)]
          /\ Begin("replace", v, v, n, Repeat(n, val), "copy", 0)
       \/ /\ n <= vec[v].cap
          /\ "shrink" \in Avoided => n = 0 \/ vec[v].size <= n
          /\ Begin("fill", v, v, n, Repeat(n, val), Resizing(n, vec[v].size), vec[v].size)
          /\ UNCHANGED vec
    /\ UNCHANGED <<born, faults>>

\* assign(n, v[i]) makes a copy and calls itself with v[i] again.
AssignOwn(v, n, i) ==
    /\ phase = "idle" /\ v \in born /\ i < vec[v].size
    /\ "own" \notin Avoided
    /\ Blame({"never returned"})
    /\ UNCHANGED <<vec, born, phase, call, ix, threw, goal>>

resize(v, n) ==
    /\ v \in born
    /\ LET src == Sized(Contents(v), n, Default) IN
          /\ WithGoal(v, src)
          /\ \/ /\ vec[v].cap < n
                /\ vec' = [vec EXCEPT ![That] = make_new_storage(n)]
                /\ Begin("resize", v, v, n, src, "copy", 0)
             \/ /\ n <= vec[v].cap
                /\ "shrink" \in Avoided => n = 0 \/ vec[v].size <= n
                /\ Begin("resize", v, v, n, src, Resizing(n, vec[v].size), vec[v].size)
                /\ UNCHANGED vec
    /\ UNCHANGED <<born, faults>>

\* The storage of an empty vector is replaced without a look at "that"; the old one
\* is deleted as an array of T, which it never was.
Restore(v, n) ==
    /\ vec' = [vec EXCEPT ![v] = make_new_storage(n)]
    /\ Blame(FreeFault(vec[v]) \cup IF vec[v].cap = 0 THEN {} ELSE {"freed as elements"})

\* A call that leaves the elements as they are.
BeginReserve(v, ph) == Begin("reserve", v, v, vec[v].size, Contents(v), ph, 0)

reserve(v, n) ==
    /\ v \in born /\ vec[v].cap < n
    /\ WithGoal(v, Contents(v))
    /\ \/ /\ vec[v].size = 0
          /\ "regrow" \in Avoided => vec[v].cap = 0
          /\ BeginReserve(v, "idle")
          /\ Restore(v, n)
       \/ /\ vec[v].size > 0
          /\ BeginReserve(v, "copy")
          /\ vec' = [vec EXCEPT ![That] = make_new_storage(n)]
          /\ UNCHANGED faults
    /\ UNCHANGED born

shrink_to_fit(v) ==
    /\ v \in born /\ vec[v].size < vec[v].cap
    /\ WithGoal(v, Contents(v))
    /\ BeginReserve(v, "copy")
    /\ vec' = [vec EXCEPT ![That] = make_new_storage(vec[v].size)]
    /\ UNCHANGED <<born, faults>>

\* push_back(val)
push_back(v, val) ==
    /\ v \in born /\ vec[v].size < MaxSize
    /\ LET src == Sized(Contents(v), vec[v].size + 1, val) IN
          /\ Begin("push", v, v, vec[v].size + 1, src, "append", 0)
          /\ WithGoal(v, src)
    /\ UNCHANGED <<vec, born, faults>>

\* Mutant: v[i] is read after the storage has moved.
OwnMoved(x, i) == IF x.size = x.cap THEN Default ELSE x.slot[i]

\* What push_back(v[i]) constructs from: tmp, a copy made before the storage moves.
OwnElement(x, i) == x.slot[i]

\* push_back(v[i])
PushBackOwn(v, i) ==
    /\ v \in born /\ i < vec[v].size /\ vec[v].size < MaxSize
    /\ Begin("push", v, v, vec[v].size + 1,
             Sized(Contents(v), vec[v].size + 1, OwnElement(vec[v], i)), "append", 0)
    /\ WithGoal(v, Sized(Contents(v), vec[v].size + 1, vec[v].slot[i]))
    /\ UNCHANGED <<vec, born, faults>>

pop_back(v) ==
    /\ v \in born /\ vec[v].size > 0
    /\ LET last == vec[v].size - 1 IN
          /\ WithGoal(v, Sized(Contents(v), last, Default))
          /\ Begin("clear", v, v, last, Sized(Contents(v), last, Default), "idle", 0)
          /\ vec' = [vec EXCEPT ![v] = DestroyLast(@)]
          /\ Blame(DestroyFault(vec[v], last))
    /\ UNCHANGED born

clear(v) ==
    /\ v \in born
    /\ Begin("clear", v, v, 0, Repeat(0, Default), "clear", 0)
    /\ WithGoal(v, Repeat(0, Default))
    /\ UNCHANGED <<vec, born, faults>>

swap(v, w) ==
    /\ {v, w} \subseteq born /\ v # w
    /\ Begin("move", v, w, 0, Repeat(0, Default), "idle", 0)
    /\ vec' = [vec EXCEPT ![v] = vec[w], ![w] = vec[v]]
    /\ goal' = [x \in Vectors |-> IF x = v THEN Contents(w)
                                  ELSE IF x = w THEN Contents(v) ELSE Contents(x)]
    /\ UNCHANGED <<born, faults>>

----------------------------------------------------------------------------
(* Steps of a call.                                                        *)

self == vec[call.v]

Goto(ph, i) == phase' = ph /\ ix' = i

\* The exception leaves the call: nothing more is done.
Leave == Goto("idle", 0) /\ threw' = TRUE

\* The value that is constructed at e_.
Appended == IF call.op = "fill" THEN Default ELSE call.src[self.size]

\* Mutant: e_ <= z_.
RoomAtEnd == self.size <= self.cap

\* e_ < z_
HasRoom == self.size < self.cap

\* A new element at the end, where there is room for one.
AppendNext ==
    /\ phase = "append" /\ ~threw /\ self.size < call.n /\ HasRoom
    /\ vec' = [vec EXCEPT ![call.v] = Construct(@, Appended)]
    /\ Blame(ConstructFault(self))
    /\ UNCHANGED <<born, phase, call, ix, threw, goal>>

\* push_back finds the storage full and reserves more.
Grow ==
    /\ phase = "append" /\ ~threw /\ self.size < call.n /\ ~HasRoom
    /\ LET n == 1 + (3 * self.cap) \div 2 IN
          \/ /\ self.size = 0
             /\ Restore(call.v, n)
             /\ UNCHANGED <<phase, ix>>
          \/ /\ self.size > 0
             /\ vec' = [vec EXCEPT ![That] = make_new_storage(n)]
             /\ Goto("copy", 0)
             /\ UNCHANGED faults
    /\ UNCHANGED <<born, call, threw, goal>>

\* A constructor that is left by an exception runs no destructor.
Unborn(x) ==
    /\ "unborn" \notin Avoided
    /\ vec' = [vec EXCEPT ![x] = Empty]
    /\ Blame(IF vec[x].cap = 0 THEN {} ELSE {"leaked"})

AppendThrows ==
    /\ MayThrow
    /\ phase = "append" /\ self.size < call.n
    /\ \/ /\ call.op = "construct"
          /\ Unborn(call.v)
          /\ born' = born \ {call.v}
       \/ /\ call.op # "construct"
          /\ UNCHANGED <<vec, born, faults>>
    /\ Leave
    /\ UNCHANGED <<call, goal>>

AppendEnds ==
    /\ phase = "append" /\ self.size >= call.n
    /\ Goto(IF call.op = "fill" THEN "overwrite" ELSE "idle", 0)
    /\ UNCHANGED <<vec, born, call, threw, goal, faults>>

\* "that" gets all elements of a call that says how many, else those of the vector.
CopySize == IF call.op \in {"replace", "resize"} THEN call.n ELSE self.size

\* What is constructed in "that": copies of the vector's elements, then T(); all val in
\* assign(n, val).
Copied(i) ==
    IF call.op = "replace" THEN call.src[i]
    ELSE IF i < self.size THEN self.slot[i] ELSE Default

\* Mutant: the elements are moved out of the vector instead of copied.
CopyMovesOut ==
    /\ phase = "copy" /\ vec[That].size < CopySize
    /\ vec' = [vec EXCEPT ![That] = Construct(@, Copied(@.size)),
                          ![call.v] = IF vec[That].size < @.size
                                      THEN Put(@, vec[That].size, Default) ELSE @]
    /\ Blame(ConstructFault(vec[That]))
    /\ UNCHANGED <<born, phase, call, ix, threw, goal>>

Copy ==
    /\ phase = "copy" /\ vec[That].size < CopySize
    /\ vec' = [vec EXCEPT ![That] = Construct(@, Copied(@.size))]
    /\ Blame(ConstructFault(vec[That]))
    /\ UNCHANGED <<born, phase, call, ix, threw, goal>>

CopyThrows ==
    /\ MayThrow
    /\ phase = "copy" /\ vec[That].size < CopySize
    /\ \/ /\ call.op = "replace"
          /\ Unborn(That)
          /\ Goto("idle", 0)
       \/ /\ call.op # "replace"
          /\ call.op = "construct" => "unborn" \notin Avoided
          /\ Goto("drop", 0)
          /\ UNCHANGED <<vec, faults>>
    /\ threw' = TRUE
    /\ UNCHANGED <<born, call, goal>>

\* swap(that), and "that" goes out of scope.
CopyEnds ==
    /\ phase = "copy" /\ vec[That].size >= CopySize
    /\ vec' = [vec EXCEPT ![call.v] = vec[That], ![That] = self]
    /\ Goto("drop", 0)
    /\ UNCHANGED <<born, call, threw, goal, faults>>

\* One round of ~vector's loop.
DestroyNext(x) ==
    /\ ix < vec[x].size
    /\ vec' = [vec EXCEPT ![x] = Put(@, ix, Raw)]
    /\ ix' = ix + 1
    /\ Blame(DestroyFault(vec[x], ix))
    /\ UNCHANGED <<born, phase, call, threw, goal>>

Free(x) ==
    /\ ix >= vec[x].size
    /\ vec' = [vec EXCEPT ![x] = Empty]
    /\ Blame(FreeFault(vec[x]))

DropNext == phase = "drop" /\ DestroyNext(That)

\* The call goes on, or the exception leaves it; from append a constructor is left too.
DropEnds ==
    /\ phase = "drop"
    /\ Free(That)
    /\ Goto(IF threw /\ call.op # "construct" THEN "idle" ELSE "append", 0)
    /\ UNCHANGED <<born, call, threw, goal>>

DestructorNext == phase = "destroy" /\ DestroyNext(call.v)

DestructorEnds ==
    /\ phase = "destroy"
    /\ Free(call.v)
    /\ born' = born \ {call.v}
    /\ Goto("idle", 0)
    /\ UNCHANGED <<call, threw, goal>>

\* assign's loop over the elements that are there.
Overwrites == phase = "overwrite" /\ ix < self.size /\ ix < call.n

Overwrite ==
    /\ Overwrites
    /\ vec' = [vec EXCEPT ![call.v] = Put(@, ix, call.src[ix])]
    /\ ix' = ix + 1
    /\ Blame(AssignFault(self, ix))
    /\ UNCHANGED <<born, phase, call, threw, goal>>

OverwriteThrows ==
    /\ MayThrow
    /\ Overwrites
    /\ Leave
    /\ UNCHANGED <<vec, born, call, goal, faults>>

\* assign(first, last) then sets e_ to b_ + ix and goes on to construct the others.
OverwriteEnds ==
    /\ phase = "overwrite" /\ ~(ix < self.size /\ ix < call.n)
    /\ \/ /\ call.op = "assign"
          /\ vec' = [vec EXCEPT ![call.v].size = ix]
          /\ Goto("append", 0)
       \/ /\ call.op = "fill"
          /\ Goto("idle", 0)
          /\ UNCHANGED vec
    /\ UNCHANGED <<born, call, threw, goal, faults>>

\* while (e_ != b_) (--e_)->~value_type();
ClearNext ==
    /\ phase = "clear" /\ self.size > 0
    /\ vec' = [vec EXCEPT ![call.v] = DestroyLast(@)]
    /\ Blame(DestroyFault(self, self.size - 1))
    /\ UNCHANGED <<born, phase, call, ix, threw, goal>>

\* What assignments do with the vector they have cleared.
ClearEnds ==
    /\ phase = "clear" /\ self.size = 0
    /\ \/ /\ call.op \notin {"copy", "move"}
          /\ Goto("idle", 0)
          /\ UNCHANGED <<vec, faults>>
       \/ /\ call.op = "copy" /\ call.n = 0
          /\ vec' = [vec EXCEPT ![call.v] = Empty]
          /\ Blame(FreeFault(self))
          /\ Goto("idle", 0)
       \/ /\ call.op = "copy" /\ call.n > 0
          /\ IF self.cap < call.n THEN Restore(call.v, call.n) ELSE UNCHANGED <<vec, faults>>
          /\ Goto("append", 0)
       \/ /\ call.op = "move"
          /\ vec' = [vec EXCEPT ![call.v] = vec[call.w], ![call.w] = Empty]
          /\ Blame(FreeFault(self))
          /\ Goto("idle", 0)
    /\ UNCHANGED <<born, call, threw, goal>>

\* resize's loop, ix from the old size down to n: it moves e_ down first and then
\* destroys b_[ix], the slot above the one that e_ has left.
ShrinkNext ==
    /\ phase = "shrink" /\ call.n < ix
    /\ vec' = [vec EXCEPT ![call.v] = [Put(@, ix, Raw) EXCEPT !.size = @ - 1]]
    /\ Blame(DestroyFault(self, ix))
    /\ ix' = ix - 1
    /\ UNCHANGED <<born, phase, call, threw, goal>>

ShrinkEnds ==
    /\ phase = "shrink" /\ call.n >= ix
    /\ Goto(IF call.op = "fill" THEN "overwrite" ELSE "idle", 0)
    /\ UNCHANGED <<vec, born, call, threw, goal, faults>>

----------------------------------------------------------------------------
CallOn(v) ==
    \/ Destroy(v) \/ shrink_to_fit(v) \/ pop_back(v) \/ clear(v)
    \/ \E n \in 0..MaxSize : resize(v, n)
    \/ \E n \in 0..(MaxSize + 1) : reserve(v, n)
    \/ \E n \in 0..MaxSize, val \in Values : ConstructN(v, n, val) \/ AssignN(v, n, val)
    \/ \E f \in Ranges : ConstructRange(v, f) \/ AssignRange(v, f)
    \/ \E val \in Values : push_back(v, val)
    \/ \E i \in 0..(MaxSize - 1) : PushBackOwn(v, i) \/ AssignOwn(v, MaxSize, i)
    \/ \E w \in Vectors : \/ ConstructCopy(v, w) \/ ConstructMove(v, w)
                          \/ AssignCopy(v, w) \/ AssignMove(v, w) \/ swap(v, w)

Step ==
    \/ AppendNext \/ Grow \/ AppendThrows \/ AppendEnds
    \/ Copy \/ CopyThrows \/ CopyEnds
    \/ DropNext \/ DropEnds \/ DestructorNext \/ DestructorEnds
    \/ Overwrite \/ OverwriteThrows \/ OverwriteEnds
    \/ ClearNext \/ ClearEnds \/ ShrinkNext \/ ShrinkEnds

Next == Step \/ \E v \in Vectors : CallOn(v)

Spec == Init /\ [][Next]_vars

----------------------------------------------------------------------------
(* Properties.                                                             *)

\* A vector that a destructor is at work on; ix elements are gone.
Destroyed(v) == \/ phase = "destroy" /\ v = call.v
                \/ phase = "drop" /\ v = That

LiveFrom(x, lo) == \A i \in 0..(x.cap - 1) : x.slot[i] # Raw <=> lo <= i /\ i < x.size

\* At every step of every call, also after exceptions, the slots below e_ hold elements
\* and the others do not: what is assigned, read or destroyed there exists, and what is
\* constructed at e_ overwrites nothing.
SlotsHoldElements ==
    \A v \in Vectors \cup {That} :
        /\ vec[v].size <= vec[v].cap
        /\ LiveFrom(vec[v], IF Destroyed(v) THEN ix ELSE 0)

\* No call destroys what is not there, constructs over an element or past the storage,
\* frees storage with elements in it, or frees it as something else than it was
\* allocated as.
NoFaults == faults = {}

\* What every vector holds between calls.  A call that returns leaves the vector with what the
\* call is for, and all other vectors as they were; also when the storage moved on the way, and
\* when the new element is a copy of one that moved with it.  A push_back, reserve or shrink_to_fit
\* that an exception leaves has changed no element, and no exception changes another vector than
\* that of the call.
OutcomeAsPromised ==
    phase = "idle" =>
        /\ \A v \in (IF threw THEN born \ {call.v} ELSE born) : Contents(v) = goal[v]
        /\ threw /\ call.op = "reserve" => Contents(call.v) = goal[call.v]
        /\ threw /\ call.op = "push" => Contents(call.v) = Sized(goal[call.v], call.n - 1, Default)

IsVector(x) ==
    /\ x = [cap |-> x.cap, size |-> x.size, slot |-> x.slot]
    /\ x.cap \in Nat /\ x.size \in Nat
    /\ x.slot \in [0..(x.cap - 1) -> Values \cup {Raw}]

TypeOK ==
    /\ vec = [v \in Vectors \cup {That} |-> vec[v]]
    /\ \A v \in Vectors \cup {That} : IsVector(vec[v])
    /\ born \subseteq Vectors /\ phase \in Phases /\ ix \in Nat /\ threw \in BOOLEAN
    /\ call.op \in Ops /\ call.v \in Vectors \cup {That} /\ call.w \in Vectors \cup {That}
    /\ call.n \in Nat /\ call.src \in [0..(call.n - 1) -> Values]
=============================================================================
