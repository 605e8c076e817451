---------------------------- MODULE VectorProofs ----------------------------
(***************************************************************************)
(* For any element values, any vectors and any exceptions: as long as the  *)
(* user avoids the pitfalls, the slots below the size are the ones that    *)
(* hold elements, no element or storage is lost or released twice, and     *)
(* every call leaves the vectors as it promises.                           *)
(***************************************************************************)
EXTENDS Vector, TLAPS

CarefulUser == VectorAssumption /\ Avoided = Pitfalls

Sound(x) == IsVector(x) /\ x.size <= x.cap /\ LiveFrom(x, 0)

\* Where a running call is: which vectors and sizes it can rely on.
CallAgrees ==
    /\ phase # "idle" => call.v \in born
    /\ phase # "shrink"
    /\ phase = "copy" => CopySize <= vec[That].cap
    /\ phase \in {"append", "drop"} /\ ~threw /\ call.op \in {"replace", "resize"} =>
            call.n <= self.cap
    /\ phase = "overwrite" => /\ ix <= self.size
                              /\ call.op \in {"assign", "fill"}
                              /\ call.op = "assign" => self.size <= call.n
    /\ phase = "clear" /\ call.op \in {"copy", "move"} => /\ call.w \in Vectors
                                                          /\ call.w # call.v
    /\ phase = "clear" /\ call.op = "copy" => self.cap = 0 \/ call.n <= self.cap

VInv == TypeOK /\ SlotsHoldElements /\ NoFaults /\ CallAgrees

----------------------------------------------------------------------------
(* Slots.                                                                  *)

\* New storage holds nothing.
LEMMA NewStorage ==
    ASSUME CarefulUser, ElementsAssumption, NEW n \in Nat
    PROVE  /\ Sound(make_new_storage(n))
           /\ make_new_storage(n).size = 0 /\ make_new_storage(n).cap = n
  BY DEF Sound, IsVector, LiveFrom, make_new_storage, ElementsAssumption

LEMMA EmptySound ==
    ASSUME CarefulUser, ElementsAssumption
    PROVE  Sound(Empty) /\ Empty.size = 0 /\ Empty.cap = 0
  BY NewStorage DEF Empty

\* A constructor at the end of a vector that has room.
LEMMA ConstructSound ==
    ASSUME ElementsAssumption, NEW x, Sound(x), x.size < x.cap, NEW e \in Values
    PROVE  /\ Sound(Construct(x, e)) /\ ConstructFault(x) = {}
           /\ Construct(x, e).size = x.size + 1 /\ Construct(x, e).cap = x.cap
  <1>1. x.slot[x.size] = Raw
    BY DEF Sound, IsVector, LiveFrom
  <1>2. ConstructFault(x) = {}
    BY <1>1 DEF ConstructFault, Live
  <1>3. Construct(x, e) = [cap |-> x.cap, size |-> x.size + 1,
                           slot |-> [x.slot EXCEPT ![x.size] = e]]
    BY DEF Construct, Sound, IsVector
  <1>4. [x.slot EXCEPT ![x.size] = e] \in [0..(x.cap - 1) -> Values \cup {Raw}]
    BY DEF Sound, IsVector
  <1>5. \A i \in 0..(x.cap - 1) :
            [x.slot EXCEPT ![x.size] = e][i] # Raw <=> 0 <= i /\ i < x.size + 1
    BY <1>1, x.size \in Nat, x.cap \in Nat DEF Sound, IsVector, LiveFrom, ElementsAssumption
  <1> QED
    BY <1>2, <1>3, <1>4, <1>5 DEF Sound, IsVector, LiveFrom

\* The last element is destroyed.
LEMMA DestroyLastSound ==
    ASSUME ElementsAssumption, NEW x, Sound(x), x.size > 0
    PROVE  /\ Sound(DestroyLast(x)) /\ DestroyFault(x, x.size - 1) = {}
           /\ DestroyLast(x).size = x.size - 1 /\ DestroyLast(x).cap = x.cap
  <1>1. x.slot[x.size - 1] # Raw /\ x.size - 1 \in 0..(x.cap - 1)
    BY DEF Sound, IsVector, LiveFrom
  <1>2. DestroyFault(x, x.size - 1) = {}
    BY <1>1 DEF DestroyFault, Live
  <1>3. DestroyLast(x) = [cap |-> x.cap, size |-> x.size - 1,
                          slot |-> [x.slot EXCEPT ![x.size - 1] = Raw]]
    BY DEF DestroyLast, Sound, IsVector
  <1>4. [x.slot EXCEPT ![x.size - 1] = Raw] \in [0..(x.cap - 1) -> Values \cup {Raw}]
    BY DEF Sound, IsVector
  <1>5. \A i \in 0..(x.cap - 1) :
            [x.slot EXCEPT ![x.size - 1] = Raw][i] # Raw <=> 0 <= i /\ i < x.size - 1
    BY <1>1, x.size \in Nat, x.cap \in Nat DEF Sound, IsVector, LiveFrom
  <1> QED
    BY <1>2, <1>3, <1>4, <1>5, x.size - 1 \in Nat, x.size - 1 <= x.cap
    DEF Sound, IsVector, LiveFrom

\* A destructor that has come to slot i destroys the element there.
LEMMA DestroySound ==
    ASSUME ElementsAssumption, NEW x, IsVector(x), x.size <= x.cap, NEW i \in Nat,
           LiveFrom(x, i), i < x.size
    PROVE  /\ IsVector(Put(x, i, Raw)) /\ LiveFrom(Put(x, i, Raw), i + 1)
           /\ DestroyFault(x, i) = {}
           /\ Put(x, i, Raw).size = x.size /\ Put(x, i, Raw).cap = x.cap
  <1>1. x.slot[i] # Raw /\ i \in 0..(x.cap - 1)
    BY DEF IsVector, LiveFrom
  <1>2. DestroyFault(x, i) = {}
    BY <1>1 DEF DestroyFault, Live
  <1>3. Put(x, i, Raw) = [cap |-> x.cap, size |-> x.size, slot |-> [x.slot EXCEPT ![i] = Raw]]
    BY DEF Put, IsVector
  <1>4. [x.slot EXCEPT ![i] = Raw] \in [0..(x.cap - 1) -> Values \cup {Raw}]
    BY DEF IsVector
  <1>5. \A j \in 0..(x.cap - 1) :
            [x.slot EXCEPT ![i] = Raw][j] # Raw <=> i + 1 <= j /\ j < x.size
    BY <1>1, x.size \in Nat, x.cap \in Nat DEF IsVector, LiveFrom
  <1> QED
    BY <1>2, <1>3, <1>4, <1>5 DEF IsVector, LiveFrom

\* An element is assigned.
LEMMA AssignSound ==
    ASSUME ElementsAssumption, NEW x, Sound(x), NEW i \in Nat, i < x.size, NEW e \in Values
    PROVE  /\ Sound(Put(x, i, e)) /\ Live(x, i)
           /\ Put(x, i, e).size = x.size /\ Put(x, i, e).cap = x.cap
  <1>1. x.slot[i] # Raw /\ i \in 0..(x.cap - 1)
    BY DEF Sound, IsVector, LiveFrom
  <1>3. Put(x, i, e) = [cap |-> x.cap, size |-> x.size, slot |-> [x.slot EXCEPT ![i] = e]]
    BY DEF Put, Sound, IsVector
  <1>4. [x.slot EXCEPT ![i] = e] \in [0..(x.cap - 1) -> Values \cup {Raw}]
    BY DEF Sound, IsVector
  <1>5. \A j \in 0..(x.cap - 1) :
            [x.slot EXCEPT ![i] = e][j] # Raw <=> 0 <= j /\ j < x.size
    BY <1>1, x.size \in Nat, x.cap \in Nat DEF Sound, IsVector, LiveFrom, ElementsAssumption
  <1> QED
    BY <1>1, <1>3, <1>4, <1>5 DEF Sound, IsVector, LiveFrom, Live

\* When nothing lives from the size on or below it, nothing is lost with the storage.
LEMMA FreeSound ==
    ASSUME NEW x, IsVector(x), NEW i \in Nat, LiveFrom(x, i), i >= x.size
    PROVE  FreeFault(x) = {}
  BY DEF IsVector, LiveFrom, FreeFault, Live

\* What a sound vector holds are values.
LEMMA ContentsAreValues ==
    ASSUME ElementsAssumption, NEW x, Sound(x)
    PROVE  /\ \A i \in 0..(x.size - 1) : x.slot[i] \in Values
           /\ Elems(x) \in [0..(x.size - 1) -> Values]
           /\ \A n \in Nat, e \in Values : Sized(Elems(x), n, e) \in [0..(n - 1) -> Values]
  <1>1. \A i \in 0..(x.size - 1) : x.slot[i] \in Values
    BY DEF Sound, IsVector, LiveFrom
  <1> QED
    BY <1>1 DEF Elems, Sized

----------------------------------------------------------------------------
(* Steps.                                                                  *)

\* Away from destructors every vector is sound.
LEMMA AllSound ==
    ASSUME VInv, NEW v \in Vectors \cup {That}, ~Destroyed(v)
    PROVE  Sound(vec[v])
  BY DEF VInv, TypeOK, SlotsHoldElements, Sound

\* A call begins: what it has done by then left all vectors sound.
LEMMA CallStarts ==
    ASSUME CarefulUser, VInv,
           NEW op \in Ops, NEW v \in Vectors, NEW w \in Vectors, NEW n \in Nat,
           NEW src \in [0..(n - 1) -> Values], NEW ph \in Phases, NEW i \in Nat,
           Begin(op, v, w, n, src, ph, i), ph = "destroy" => i = 0, ph # "drop",
           vec' = [x \in Vectors \cup {That} |-> vec'[x]],
           \A x \in Vectors \cup {That} : Sound(vec'[x]),
           faults' = {}, born' \subseteq Vectors, CallAgrees'
    PROVE  VInv'
  <1>1. TypeOK'
    BY DEF Begin, TypeOK, Sound
  <1>2. SlotsHoldElements'
    <2>1. \A x \in Vectors \cup {That} : Destroyed(x)' => ix' = 0
      BY DEF Begin, Destroyed
    <2> QED
      BY <2>1 DEF SlotsHoldElements, Sound
  <1> QED
    BY <1>1, <1>2 DEF VInv, NoFaults

\* A step of a call that is not in a destructor.
LEMMA StepKeeps ==
    ASSUME CarefulUser, VInv, phase \notin {"destroy", "drop"},
           vec' = [x \in Vectors \cup {That} |-> vec'[x]],
           \A x \in Vectors \cup {That} : Sound(vec'[x]),
           phase' \in Phases \ {"destroy"}, phase' = "drop" => ix' = 0, ix' \in Nat,
           call' = call, threw' \in BOOLEAN, faults' = {}, born' \subseteq Vectors, CallAgrees'
    PROVE  VInv'
  <1>1. TypeOK'
    BY DEF VInv, TypeOK, Sound
  <1>2. SlotsHoldElements'
    <2>1. \A x \in Vectors \cup {That} : Destroyed(x)' => ix' = 0
      BY DEF Destroyed
    <2> QED
      BY <2>1 DEF SlotsHoldElements, Sound
  <1> QED
    BY <1>1, <1>2 DEF VInv, NoFaults

\* Replacing one sound vector by another.
LEMMA OneReplaced ==
    ASSUME CarefulUser, VInv, phase \notin {"destroy", "drop"}, NEW v \in Vectors \cup {That},
           NEW x, Sound(x), vec' = [vec EXCEPT ![v] = x]
    PROVE  /\ vec' = [y \in Vectors \cup {That} |-> vec'[y]]
           /\ \A y \in Vectors \cup {That} : Sound(vec'[y])
           /\ vec'[v] = x
           /\ \A y \in (Vectors \cup {That}) \ {v} : vec'[y] = vec[y]
  <1>1. \A y \in Vectors \cup {That} : Sound(vec[y])
    BY AllSound DEF Destroyed
  <1>2. vec = [y \in Vectors \cup {That} |-> vec[y]]
    BY DEF VInv, TypeOK
  <1> QED
    BY <1>1, <1>2

\* Replacing two.
LEMMA TwoReplaced ==
    ASSUME CarefulUser, VInv, phase \notin {"destroy", "drop"}, NEW v \in Vectors \cup {That},
           NEW w \in Vectors \cup {That}, v # w, NEW x, NEW z, Sound(x), Sound(z),
           vec' = [vec EXCEPT ![v] = x, ![w] = z]
    PROVE  /\ vec' = [y \in Vectors \cup {That} |-> vec'[y]]
           /\ \A y \in Vectors \cup {That} : Sound(vec'[y])
           /\ vec'[v] = x /\ vec'[w] = z
  <1>1. \A y \in Vectors \cup {That} : Sound(vec[y])
    BY AllSound DEF Destroyed
  <1>2. vec = [y \in Vectors \cup {That} |-> vec[y]]
    BY DEF VInv, TypeOK
  <1> QED
    BY <1>1, <1>2

\* Ranges of values are what a call can be given.
LEMMA RangeCounted ==
    ASSUME ElementsAssumption, NEW f \in Ranges
    PROVE  Count(f) \in Nat /\ f \in [0..(Count(f) - 1) -> Values]
  <1>1. PICK n \in 0..MaxSize : f \in [0..(n - 1) -> Values]
    BY DEF Ranges
  <1>2. DOMAIN f = 0..(n - 1) /\ \A i \in DOMAIN f : f[i] \in Values
    BY <1>1
  <1>3. Count(f) \in 0..MaxSize /\ DOMAIN f = 0..(Count(f) - 1)
    BY <1>2 DEF Count
  <1>4. f = [i \in DOMAIN f |-> f[i]]
    BY <1>1
  <1> QED
    BY <1>2, <1>3, <1>4 DEF ElementsAssumption

\* The vectors before anything is called.
LEMMA VInvInit == CarefulUser /\ ElementsAssumption /\ Init => VInv
  <1> SUFFICES ASSUME CarefulUser, ElementsAssumption, Init PROVE VInv
    OBVIOUS
  <1>1. \A v \in Vectors \cup {That} : vec[v] = Empty
    BY DEF Init
  <1>2. Sound(Empty)
    BY EmptySound
  <1>3. TypeOK
    BY <1>1, <1>2 DEF Init, TypeOK, Sound, Phases, Ops, Repeat, ElementsAssumption
  <1>4. SlotsHoldElements
    BY <1>1, <1>2 DEF Init, SlotsHoldElements, Sound, Destroyed
  <1>5. NoFaults /\ CallAgrees
    BY DEF Init, NoFaults, CallAgrees
  <1> QED
    BY <1>3, <1>4, <1>5 DEF VInv

----------------------------------------------------------------------------
(* The steps of a running call.                                            *)

\* Every step that is not in a destructor.
LEMMA StepInCall ==
    ASSUME CarefulUser, ElementsAssumption, VInv, phase \notin {"idle", "destroy", "drop"}, Step
    PROVE  VInv'
  <1>0. /\ call.v \in Vectors /\ call.v # That
        /\ Sound(self) /\ Sound(vec[That]) /\ faults = {} /\ born \subseteq Vectors
        /\ threw \in BOOLEAN /\ phase \in Phases /\ ix \in Nat
        /\ \A x \in Vectors \cup {That} : Sound(vec[x])
        /\ vec = [x \in Vectors \cup {That} |-> vec[x]]
        /\ call.n \in Nat /\ call.src \in [0..(call.n - 1) -> Values]
    <2>1. \A x \in Vectors \cup {That} : Sound(vec[x])
      BY AllSound DEF Destroyed
    <2> QED
      BY <2>1 DEF VInv, TypeOK, CallAgrees, NoFaults, self, CarefulUser, VectorAssumption
  <1>1. self.cap \in Nat /\ self.size \in Nat /\ self.size <= self.cap
    BY <1>0 DEF Sound, IsVector
  <1>2. CASE AppendNext
    <2>1. Appended \in Values
      BY <1>0, <1>1, <1>2 DEF AppendNext, Appended, ElementsAssumption
    <2>2. Sound(Construct(self, Appended)) /\ ConstructFault(self) = {}
      BY <1>0, <1>2, <2>1, ConstructSound DEF AppendNext, HasRoom
    <2>3. vec' = [vec EXCEPT ![call.v] = Construct(self, Appended)]
      BY <1>2 DEF AppendNext, self
    <2>4. self'.cap = self.cap
      BY <1>0, <1>1, <1>2, <2>1, <2>3, ConstructSound DEF AppendNext, HasRoom, self
    <2>5. faults' = {} /\ CallAgrees'
      BY <1>0, <1>2, <2>2, <2>4 DEF AppendNext, Blame, VInv, CallAgrees
    <2> QED
      BY <1>0, <1>2, <2>2, <2>3, <2>5, OneReplaced, StepKeeps DEF AppendNext
  <1>3. CASE Grow
    <2> DEFINE n == 1 + (3 * self.cap) \div 2
    <2>1. n \in Nat /\ n >= self.cap
      BY <1>1
    <2> HIDE DEF n
    <2>2. Sound(make_new_storage(n)) /\ make_new_storage(n).cap = n
      BY <2>1, NewStorage
    <2>3. CASE self.size = 0 /\ Restore(call.v, n) /\ UNCHANGED <<phase, ix>>
      <3>1. self.cap = 0
        BY <1>1, <1>3, <2>3 DEF Grow, HasRoom
      <3>2. FreeFault(self) = {}
        BY <3>1 DEF FreeFault
      <3>3. faults' = {}
        BY <1>0, <2>3, <3>1, <3>2 DEF Restore, Blame, self
      <3>4. CallAgrees'
        <4>1. call.op \notin {"replace", "resize"}
          BY <1>0, <1>1, <1>3 DEF Grow, HasRoom, VInv, CallAgrees
        <4> QED
          BY <1>0, <1>3, <2>3, <4>1 DEF Grow, VInv, CallAgrees
      <3>5. vec' = [vec EXCEPT ![call.v] = make_new_storage(n)]
        BY <2>3 DEF Restore
      <3> QED
        BY <1>0, <1>3, <2>2, <2>3, <3>3, <3>4, <3>5, OneReplaced, StepKeeps DEF Grow
    <2>4. CASE self.size > 0 /\ vec' = [vec EXCEPT ![That] = make_new_storage(n)]
               /\ Goto("copy", 0) /\ UNCHANGED faults
      <3>1. vec'[That] = make_new_storage(n) /\ vec'[call.v] = self
        BY <1>0, <2>4 DEF self
      <3>2. CopySize' <= vec'[That].cap
        <4>1. call.op \notin {"replace", "resize"}
          BY <1>0, <1>1, <1>3 DEF Grow, HasRoom, VInv, CallAgrees
        <4> QED
          BY <1>0, <1>1, <1>3, <2>1, <2>2, <3>1, <4>1 DEF CopySize, self, Grow
      <3>3. CallAgrees'
        BY <1>0, <1>3, <2>4, <3>2 DEF Grow, Goto, VInv, CallAgrees
      <3> QED
        BY <1>0, <1>3, <2>2, <2>4, <3>3, OneReplaced, StepKeeps DEF Grow, Goto, Phases
    <2> QED
      BY <1>3, <2>3, <2>4 DEF Grow, n
  <1>4. CASE AppendThrows
    <2>2. vec' = vec /\ born' = born /\ faults' = faults
      BY <1>4 DEF AppendThrows, Unborn, CarefulUser, Pitfalls
    <2>3. CallAgrees'
      BY <1>0, <1>4, <2>2 DEF AppendThrows, Leave, Goto, CallAgrees
    <2> QED
      BY <1>0, <1>4, <2>2, <2>3, StepKeeps DEF AppendThrows, Leave, Goto, Phases
  <1>5. CASE AppendEnds
    <2>1. CallAgrees'
      BY <1>0, <1>1, <1>5 DEF AppendEnds, Goto, VInv, CallAgrees, self
    <2> QED
      BY <1>0, <1>5, <2>1, StepKeeps DEF AppendEnds, Goto, Phases
  <1>6. CASE Copy
    <2> DEFINE t == vec[That]
    <2>1. t.size \in Nat /\ t.cap \in Nat /\ t.size < t.cap
      BY <1>0, <1>1, <1>6 DEF Sound, IsVector, Copy, VInv, CallAgrees, CopySize
    <2>2. Copied(t.size) \in Values
      <3>1. \A i \in 0..(self.size - 1) : self.slot[i] \in Values
        BY <1>0, ContentsAreValues
      <3> QED
        BY <1>0, <1>1, <1>6, <2>1, <3>1 DEF Copy, CopySize, Copied, ElementsAssumption
    <2>3. Sound(Construct(t, Copied(t.size))) /\ ConstructFault(t) = {}
          /\ Construct(t, Copied(t.size)).cap = t.cap
      BY <1>0, <2>1, <2>2, ConstructSound
    <2>4. vec' = [vec EXCEPT ![That] = Construct(t, Copied(t.size))]
      BY <1>6 DEF Copy
    <2>5. vec'[That].cap = t.cap /\ vec'[call.v] = self
      BY <1>0, <2>3, <2>4 DEF self
    <2>6. faults' = {} /\ CallAgrees'
      BY <1>0, <1>6, <2>3, <2>5 DEF Copy, Blame, VInv, CallAgrees, CopySize, self
    <2> QED
      BY <1>0, <1>6, <2>3, <2>4, <2>6, OneReplaced, StepKeeps DEF Copy
  <1>7. CASE CopyThrows
    <2>1. vec' = vec /\ faults' = faults /\ Goto("drop", 0)
      BY <1>7 DEF CopyThrows, Unborn, CarefulUser, Pitfalls
    <2>2. CallAgrees'
      BY <1>0, <1>7, <2>1 DEF CopyThrows, Goto, VInv, CallAgrees
    <2> QED
      BY <1>0, <1>7, <2>1, <2>2, StepKeeps DEF CopyThrows, Goto, Phases
  <1>8. CASE CopyEnds
    <2>1. vec' = [vec EXCEPT ![call.v] = vec[That], ![That] = self]
      BY <1>8 DEF CopyEnds
    <2>2. vec'[call.v] = vec[That]
      BY <1>0, <2>1
    <2>3. CallAgrees'
      BY <1>0, <1>8, <2>2 DEF CopyEnds, Goto, VInv, CallAgrees, CopySize, self
    <2> QED
      BY <1>0, <1>8, <2>1, <2>3, TwoReplaced, StepKeeps DEF CopyEnds, Goto, Phases
  <1>9. CASE Overwrite
    <2>0. ix < self.size /\ ix \in 0..(call.n - 1)
      BY <1>0, <1>1, <1>9 DEF Overwrite, Overwrites
    <2>1. ix < self.size /\ call.src[ix] \in Values
      BY <1>0, <2>0
    <2> DEFINE x == Put(self, ix, call.src[ix])
    <2>2. Sound(x) /\ Live(self, ix) /\ x.size = self.size
      BY <1>0, <2>1, AssignSound
    <2>3. vec' = [vec EXCEPT ![call.v] = x]
      BY <1>9 DEF Overwrite, self
    <2>4. faults' = {}
      BY <1>0, <1>9, <2>2 DEF Overwrite, Blame, AssignFault
    <2>5. self'.size = self.size
      BY <1>0, <1>9, <2>2, <2>3 DEF Overwrite, self
    <2> HIDE DEF x
    <2>6. CallAgrees'
      BY <1>0, <1>1, <1>9, <2>1, <2>5 DEF Overwrite, Overwrites, VInv, CallAgrees
    <2>7. /\ vec' = [y \in Vectors \cup {That} |-> vec'[y]]
          /\ \A y \in Vectors \cup {That} : Sound(vec'[y])
      BY <1>0, <1>9, <2>2, <2>3, OneReplaced DEF Overwrite, Overwrites
    <2>8. /\ phase' \in Phases \ {"destroy"} /\ phase' # "drop" /\ ix' \in Nat
          /\ call' = call /\ threw' \in BOOLEAN /\ born' \subseteq Vectors
      BY <1>0, <1>9 DEF Overwrite, Overwrites, Phases
    <2> QED
      BY <1>0, <2>4, <2>6, <2>7, <2>8, StepKeeps
  <1>10. CASE OverwriteThrows
    <2>1. CallAgrees'
      BY <1>10 DEF OverwriteThrows, Leave, Goto, CallAgrees
    <2> QED
      BY <1>0, <1>10, <2>1, StepKeeps DEF OverwriteThrows, Overwrites, Leave, Goto, Phases
  <1>11. CASE OverwriteEnds
    <2>1. CASE call.op = "assign" /\ vec' = [vec EXCEPT ![call.v].size = ix]
               /\ Goto("append", 0)
      <3>1. ix = self.size
        BY <1>0, <1>1, <1>11, <2>1 DEF OverwriteEnds, VInv, CallAgrees
      <3>2. self = [cap |-> self.cap, size |-> self.size, slot |-> self.slot]
        BY <1>0 DEF Sound, IsVector
      <3>3. [self EXCEPT !.size = ix] = self
        BY <3>1, <3>2
      <3>4. vec' = [vec EXCEPT ![call.v] = self]
        BY <2>1, <3>3 DEF self
      <3>5. CallAgrees'
        BY <1>0, <1>11, <2>1, <3>4 DEF OverwriteEnds, Goto, VInv, CallAgrees
      <3> QED
        BY <1>0, <1>11, <2>1, <3>4, <3>5, OneReplaced, StepKeeps DEF OverwriteEnds, Goto, Phases
    <2>2. CASE Goto("idle", 0) /\ UNCHANGED vec
      <3>1. CallAgrees'
        BY <1>0, <1>11, <2>2 DEF OverwriteEnds, Goto, CallAgrees
      <3> QED
        BY <1>0, <1>11, <2>2, <3>1, StepKeeps DEF OverwriteEnds, Goto, Phases
    <2> QED
      BY <1>11, <2>1, <2>2 DEF OverwriteEnds
  <1>12. CASE ClearNext
    <2>1. /\ Sound(DestroyLast(self)) /\ DestroyFault(self, self.size - 1) = {}
          /\ DestroyLast(self).cap = self.cap
      BY <1>0, <1>12, DestroyLastSound DEF ClearNext
    <2>2. vec' = [vec EXCEPT ![call.v] = DestroyLast(self)]
      BY <1>12 DEF ClearNext, self
    <2>3. self'.cap = self.cap
      BY <1>0, <1>12, <2>1, <2>2 DEF ClearNext, self
    <2>4. faults' = {} /\ CallAgrees'
      BY <1>0, <1>12, <2>1, <2>3 DEF ClearNext, Blame, VInv, CallAgrees
    <2> QED
      BY <1>0, <1>12, <2>1, <2>2, <2>4, OneReplaced, StepKeeps DEF ClearNext
  <1>13. CASE ClearEnds
    <2>1. FreeFault(self) = {}
      BY <1>0, <1>13, FreeSound DEF ClearEnds, Sound
    <2>2. Sound(Empty)
      BY EmptySound
    <2>3. CASE Goto("idle", 0) /\ UNCHANGED <<vec, faults>>
      <3>1. CallAgrees'
        BY <1>0, <1>13, <2>3 DEF ClearEnds, Goto, CallAgrees
      <3> QED
        BY <1>0, <1>13, <2>3, <3>1, StepKeeps DEF ClearEnds, Goto, Phases
    <2>4. CASE vec' = [vec EXCEPT ![call.v] = Empty] /\ Blame(FreeFault(self)) /\ Goto("idle", 0)
      <3>1. CallAgrees'
        BY <1>0, <1>13, <2>4 DEF ClearEnds, Goto, CallAgrees
      <3> QED
        BY <1>0, <1>13, <2>1, <2>2, <2>4, <3>1, OneReplaced, StepKeeps
        DEF ClearEnds, Goto, Blame, Phases
    <2>5. CASE /\ call.op = "copy" /\ Goto("append", 0)
               /\ IF self.cap < call.n THEN Restore(call.v, call.n) ELSE UNCHANGED <<vec, faults>>
      <3>1. CallAgrees'
        BY <1>0, <1>13, <2>5 DEF ClearEnds, Goto, VInv, CallAgrees
      <3>2. CASE self.cap < call.n
        <4>1. self.cap = 0
          BY <1>0, <1>1, <1>13, <2>5, <3>2 DEF ClearEnds, VInv, CallAgrees
        <4>2. vec' = [vec EXCEPT ![call.v] = make_new_storage(call.n)]
          BY <2>5, <3>2 DEF Restore
        <4>3. faults' = {}
          BY <1>0, <2>1, <2>5, <3>2, <4>1 DEF Restore, Blame, self
        <4>4. Sound(make_new_storage(call.n))
          BY <1>0, NewStorage
        <4> QED
          BY <1>0, <1>13, <2>5, <3>1, <4>2, <4>3, <4>4, OneReplaced, StepKeeps
          DEF ClearEnds, Goto, Phases
      <3>3. CASE ~(self.cap < call.n)
        BY <1>0, <1>13, <2>5, <3>1, <3>3, StepKeeps DEF ClearEnds, Goto, Phases
      <3> QED
        BY <3>2, <3>3
    <2>6. CASE /\ call.op = "move"
               /\ vec' = [vec EXCEPT ![call.v] = vec[call.w], ![call.w] = Empty]
               /\ Blame(FreeFault(self)) /\ Goto("idle", 0)
      <3>1. call.w \in Vectors /\ call.w # call.v
        BY <1>13, <2>6 DEF ClearEnds, VInv, CallAgrees
      <3>2. CallAgrees'
        BY <1>0, <1>13, <2>6 DEF ClearEnds, Goto, CallAgrees
      <3> QED
        BY <1>0, <1>13, <2>1, <2>2, <2>6, <3>1, <3>2, TwoReplaced, StepKeeps
        DEF ClearEnds, Goto, Blame, Phases
    <2> QED
      BY <1>13, <2>3, <2>4, <2>5, <2>6 DEF ClearEnds
  <1> QED
    BY <1>2, <1>3, <1>4, <1>5, <1>6, <1>7, <1>8, <1>9, <1>10, <1>11, <1>12, <1>13
    DEF Step, DropNext, DropEnds, DestructorNext, DestructorEnds, ShrinkNext, ShrinkEnds,
        VInv, CallAgrees

\* The steps of destructors.
LEMMA StepInDestructor ==
    ASSUME CarefulUser, ElementsAssumption, VInv, phase \in {"destroy", "drop"}, Step
    PROVE  VInv'
  <1> DEFINE x == IF phase = "drop" THEN That ELSE call.v
  <1>0. /\ x \in Vectors \cup {That} /\ call.v \in Vectors /\ call.v # That
        /\ faults = {} /\ born \subseteq Vectors /\ ix \in Nat /\ threw \in BOOLEAN
        /\ \A y \in Vectors \cup {That} : y # x => Sound(vec[y])
        /\ \A y \in Vectors \cup {That} : Destroyed(y) <=> y = x
        /\ vec = [y \in Vectors \cup {That} |-> vec[y]]
        /\ IsVector(vec[x]) /\ vec[x].size <= vec[x].cap /\ LiveFrom(vec[x], ix)
    <2>1. \A y \in Vectors \cup {That} : Destroyed(y) <=> y = x
      BY DEF Destroyed, VInv, CallAgrees
    <2>2. \A y \in Vectors \cup {That} : y # x => Sound(vec[y])
      BY <2>1, AllSound
    <2>3. x \in Vectors \cup {That} /\ call.v \in Vectors /\ call.v # That
      BY DEF VInv, TypeOK, CallAgrees, CarefulUser, VectorAssumption
    <2>4. IsVector(vec[x]) /\ vec[x].size <= vec[x].cap /\ LiveFrom(vec[x], ix)
      BY <2>1, <2>3 DEF VInv, TypeOK, SlotsHoldElements
    <2> QED
      BY <2>1, <2>2, <2>3, <2>4 DEF VInv, TypeOK, NoFaults
  <1>1. phase \in Phases /\ call.op \in Ops /\ call.v \in Vectors \cup {That}
        /\ call.w \in Vectors \cup {That} /\ call.n \in Nat
        /\ call.src \in [0..(call.n - 1) -> Values]
    BY DEF VInv, TypeOK
  <1>2. PICK z : z = x
    OBVIOUS
  <1>3. CASE DropNext \/ DestructorNext
    <2>1. DestroyNext(z)
      BY <1>2, <1>3 DEF DropNext, DestructorNext
    <2>2. /\ IsVector(Put(vec[z], ix, Raw)) /\ LiveFrom(Put(vec[z], ix, Raw), ix + 1)
          /\ DestroyFault(vec[z], ix) = {}
          /\ Put(vec[z], ix, Raw).size = vec[z].size /\ Put(vec[z], ix, Raw).cap = vec[z].cap
      BY <1>0, <1>2, <2>1, DestroySound DEF DestroyNext
    <2>3. /\ vec' = [vec EXCEPT ![z] = Put(vec[z], ix, Raw)] /\ ix' = ix + 1
          /\ faults' = {} /\ UNCHANGED <<born, phase, call, threw>>
      BY <1>0, <2>1, <2>2 DEF DestroyNext, Blame
    <2>4. vec'[z] = Put(vec[z], ix, Raw)
          /\ \A y \in Vectors \cup {That} : y # z => vec'[y] = vec[y]
      BY <1>0, <1>2, <2>3
    <2>5. vec' = [y \in Vectors \cup {That} |-> vec'[y]]
      BY <1>0, <2>3
    <2>6. TypeOK'
      <3>1. \A y \in Vectors \cup {That} : IsVector(vec'[y])
        BY <1>0, <1>2, <2>2, <2>4 DEF Sound
      <3>2. phase' \in Phases /\ ix' \in Nat /\ threw' \in BOOLEAN /\ born' \subseteq Vectors
        BY <1>0, <1>1, <2>3
      <3> QED
        BY <1>1, <2>3, <2>5, <3>1, <3>2 DEF TypeOK
    <2>7. \A y \in Vectors \cup {That} : Destroyed(y)' <=> y = z
      BY <1>0, <1>2, <2>3 DEF Destroyed
    <2>8. SlotsHoldElements'
      BY <1>0, <1>2, <2>2, <2>3, <2>4, <2>7 DEF SlotsHoldElements, Sound
    <2>9. self'.cap = self.cap
      BY <1>0, <1>2, <2>2, <2>3, <2>4 DEF self
    <2>10. CallAgrees'
      BY <2>3, <2>9 DEF VInv, CallAgrees
    <2> QED
      BY <2>3, <2>6, <2>8, <2>10 DEF VInv, NoFaults
  <1>4. CASE DropEnds \/ DestructorEnds
    <2>1. Free(z)
      BY <1>2, <1>4 DEF DropEnds, DestructorEnds
    <2>2. FreeFault(vec[z]) = {}
      BY <1>0, <1>2, <2>1, FreeSound DEF Free
    <2>3. Sound(Empty)
      BY EmptySound
    <2>4. vec' = [vec EXCEPT ![z] = Empty] /\ faults' = {}
      BY <1>0, <2>1, <2>2 DEF Free, Blame
    <2>5. /\ \A y \in Vectors \cup {That} : Sound(vec'[y])
          /\ vec' = [y \in Vectors \cup {That} |-> vec'[y]]
          /\ \A y \in Vectors \cup {That} : y # z => vec'[y] = vec[y]
      BY <1>0, <1>2, <2>3, <2>4
    <2>6. /\ phase' \in {"idle", "append"} /\ ix' = 0 /\ call' = call /\ threw' = threw
          /\ born' \subseteq Vectors
          /\ phase' # "idle" => phase = "drop" /\ born' = born
      BY <1>0, <1>4 DEF DropEnds, DestructorEnds, Goto
    <2>7. TypeOK'
      BY <1>0, <1>1, <2>5, <2>6 DEF TypeOK, Sound, Phases
    <2>8. SlotsHoldElements'
      BY <2>5, <2>6 DEF SlotsHoldElements, Sound, Destroyed
    <2>9. phase' # "idle" => self' = self
      BY <1>0, <1>2, <2>5, <2>6 DEF self
    <2>10. CallAgrees'
      BY <1>0, <2>6, <2>9 DEF VInv, CallAgrees
    <2> QED
      BY <2>4, <2>7, <2>8, <2>10 DEF VInv, NoFaults
  <1> QED
    BY <1>3, <1>4 DEF Step, AppendNext, Grow, AppendThrows, AppendEnds, Copy, CopyThrows, CopyEnds,
        Overwrite, OverwriteThrows, OverwriteEnds, Overwrites, ClearNext, ClearEnds,
        ShrinkNext, ShrinkEnds

----------------------------------------------------------------------------
(* Calls.                                                                  *)

\* Between calls every vector is sound.
LEMMA BetweenCalls ==
    ASSUME CarefulUser, ElementsAssumption, VInv, phase = "idle"
    PROVE  /\ faults = {} /\ born \subseteq Vectors /\ That \notin Vectors /\ MaxSize \in Nat
           /\ vec = [x \in Vectors \cup {That} |-> vec[x]]
           /\ \A x \in Vectors \cup {That} :
                  /\ Sound(vec[x]) /\ vec[x].size \in Nat /\ vec[x].cap \in Nat
                  /\ vec[x].size <= vec[x].cap
                  /\ Elems(vec[x]) \in [0..(vec[x].size - 1) -> Values]
                  /\ \A n \in Nat, e \in Values :
                         Sized(Elems(vec[x]), n, e) \in [0..(n - 1) -> Values]
  <1>1. \A x \in Vectors \cup {That} : Sound(vec[x])
    BY AllSound DEF Destroyed
  <1> QED
    BY <1>1, ContentsAreValues
    DEF VInv, TypeOK, NoFaults, CarefulUser, VectorAssumption, ElementsAssumption, Sound, IsVector

\* Constructors.
LEMMA ConstructorKeeps ==
    ASSUME CarefulUser, ElementsAssumption, VInv, NEW v \in Vectors,
           \/ \E n \in 0..MaxSize, val \in Values : ConstructN(v, n, val)
           \/ \E f \in Ranges : ConstructRange(v, f)
           \/ \E w \in Vectors : ConstructCopy(v, w) \/ ConstructMove(v, w)
    PROVE  VInv'
  <1>1. CASE \E n \in 0..MaxSize, val \in Values : ConstructN(v, n, val)
    <2>1. PICK n \in 0..MaxSize, val \in Values : ConstructN(v, n, val)
      BY <1>1
    <2>2. phase = "idle" /\ Begin("construct", v, v, n, Repeat(n, val), "append", 0)
      BY <2>1 DEF ConstructN, Begin
    <2>3. n \in Nat /\ Repeat(n, val) \in [0..(n - 1) -> Values]
      BY <2>2, BetweenCalls DEF Repeat
    <2>4. Sound(make_new_storage(n)) /\ make_new_storage(n).size = 0
      BY <2>3, NewStorage
    <2>5. vec' = [vec EXCEPT ![v] = make_new_storage(n)] /\ faults' = faults
          /\ born' = born \cup {v}
      BY <2>1 DEF ConstructN
    <2>6. CallAgrees'
      BY <2>2, <2>5 DEF Begin, CallAgrees
    <2>7. /\ vec' = [y \in Vectors \cup {That} |-> vec'[y]]
          /\ \A y \in Vectors \cup {That} : Sound(vec'[y])
      BY <2>2, <2>4, <2>5, OneReplaced
    <2>8. faults' = {} /\ born' \subseteq Vectors
      BY <2>2, <2>5, BetweenCalls
    <2> QED
      BY <2>2, <2>3, <2>6, <2>7, <2>8, CallStarts DEF Ops, Phases
  <1>2. CASE \E f \in Ranges : ConstructRange(v, f)
    <2>1. PICK f \in Ranges : ConstructRange(v, f)
      BY <1>2
    <2>2. phase = "idle" /\ Begin("construct", v, v, Count(f), f, "append", 0)
          /\ UNCHANGED <<vec, faults>> /\ born' = born \cup {v}
      BY <2>1 DEF ConstructRange, Begin
    <2>3. Count(f) \in Nat /\ f \in [0..(Count(f) - 1) -> Values]
      BY RangeCounted
    <2>4. CallAgrees'
      BY <2>2 DEF Begin, CallAgrees
    <2> QED
      BY <2>2, <2>3, <2>4, BetweenCalls, CallStarts DEF Ops, Phases
  <1>3. CASE \E w \in Vectors : ConstructCopy(v, w)
    <2>1. PICK w \in Vectors : ConstructCopy(v, w)
      BY <1>3
    <2>2. phase = "idle"
          /\ Begin("construct", v, w, vec[w].size, Contents(w), "append", 0)
          /\ vec' = [vec EXCEPT ![v] = make_new_storage(vec[w].size)]
          /\ faults' = faults /\ born' = born \cup {v}
      BY <2>1 DEF ConstructCopy, Begin
    <2>3. vec[w].size \in Nat /\ Contents(w) \in [0..(vec[w].size - 1) -> Values]
      BY <2>2, BetweenCalls DEF Contents
    <2>4. Sound(make_new_storage(vec[w].size))
      BY <2>3, NewStorage
    <2>5. CallAgrees'
      BY <2>2 DEF Begin, CallAgrees
    <2>6. /\ vec' = [y \in Vectors \cup {That} |-> vec'[y]]
          /\ \A y \in Vectors \cup {That} : Sound(vec'[y])
      BY <2>2, <2>4, OneReplaced
    <2>7. faults' = {} /\ born' \subseteq Vectors
      BY <2>2, BetweenCalls
    <2> QED
      BY <2>2, <2>3, <2>5, <2>6, <2>7, CallStarts DEF Ops, Phases
  <1>4. CASE \E w \in Vectors : ConstructMove(v, w)
    <2>1. PICK w \in Vectors : ConstructMove(v, w)
      BY <1>4
    <2>2. phase = "idle" /\ v # w
          /\ Begin("move", v, w, 0, Repeat(0, Default), "idle", 0)
          /\ vec' = [vec EXCEPT ![v] = vec[w], ![w] = Empty]
          /\ faults' = faults /\ born' = born \cup {v}
      BY <2>1 DEF ConstructMove, Begin
    <2>3. Repeat(0, Default) \in [0..(0 - 1) -> Values]
      BY DEF Repeat, ElementsAssumption
    <2>4. CallAgrees'
      BY <2>2 DEF Begin, CallAgrees
    <2>5. /\ vec' = [y \in Vectors \cup {That} |-> vec'[y]]
          /\ \A y \in Vectors \cup {That} : Sound(vec'[y])
      BY <2>2, BetweenCalls, EmptySound, TwoReplaced
    <2>6. faults' = {} /\ born' \subseteq Vectors
      BY <2>2, BetweenCalls
    <2> QED
      BY <2>2, <2>3, <2>4, <2>5, <2>6, CallStarts DEF Ops, Phases
  <1> QED
    BY <1>1, <1>2, <1>3, <1>4

\* Calls that start with a loop over the vector as it is.
LEMMA LoopCallKeeps ==
    ASSUME CarefulUser, ElementsAssumption, VInv, NEW v \in Vectors,
           \/ Destroy(v) \/ clear(v)
           \/ \E w \in Vectors : AssignCopy(v, w) \/ AssignMove(v, w)
           \/ \E f \in Ranges : AssignRange(v, f)
           \/ \E val \in Values : push_back(v, val)
           \/ \E i \in 0..(MaxSize - 1) : PushBackOwn(v, i)
    PROVE  VInv'
  <1>0. Repeat(0, Default) \in [0..(0 - 1) -> Values]
    BY DEF Repeat, ElementsAssumption
  <1>1. CASE Destroy(v)
    <2>1. phase = "idle" /\ Begin("destroy", v, v, 0, Repeat(0, Default), "destroy", 0)
          /\ UNCHANGED <<vec, born, faults>> /\ v \in born
      BY <1>1 DEF Destroy, Begin
    <2>2. CallAgrees'
      BY <2>1 DEF Begin, CallAgrees
    <2> QED
      BY <1>0, <2>1, <2>2, BetweenCalls, CallStarts DEF Ops, Phases
  <1>2. CASE clear(v)
    <2>1. phase = "idle" /\ Begin("clear", v, v, 0, Repeat(0, Default), "clear", 0)
          /\ UNCHANGED <<vec, born, faults>> /\ v \in born
      BY <1>2 DEF clear, Begin
    <2>2. CallAgrees'
      BY <2>1 DEF Begin, CallAgrees
    <2> QED
      BY <1>0, <2>1, <2>2, BetweenCalls, CallStarts DEF Ops, Phases
  <1>3. CASE \E w \in Vectors : AssignCopy(v, w)
    <2>1. PICK w \in Vectors : AssignCopy(v, w)
      BY <1>3
    <2>2. phase = "idle" /\ v # w /\ v \in born /\ (vec[v].cap = 0 \/ vec[w].size <= vec[v].cap)
          /\ Begin("copy", v, w, vec[w].size, Contents(w), "clear", 0)
          /\ UNCHANGED <<vec, born, faults>>
      BY <2>1 DEF AssignCopy, Begin, CarefulUser, Pitfalls
    <2>3. vec[w].size \in Nat /\ Contents(w) \in [0..(vec[w].size - 1) -> Values]
      BY <2>2, BetweenCalls DEF Contents
    <2>4. CallAgrees'
      BY <2>2 DEF Begin, CallAgrees, self
    <2> QED
      BY <2>2, <2>3, <2>4, BetweenCalls, CallStarts DEF Ops, Phases
  <1>4. CASE \E w \in Vectors : AssignMove(v, w)
    <2>1. PICK w \in Vectors : AssignMove(v, w)
      BY <1>4
    <2>2. phase = "idle" /\ v # w /\ v \in born
          /\ Begin("move", v, w, 0, Repeat(0, Default), "clear", 0)
          /\ UNCHANGED <<vec, born, faults>>
      BY <2>1 DEF AssignMove, Begin
    <2>3. CallAgrees'
      BY <2>2 DEF Begin, CallAgrees
    <2> QED
      BY <1>0, <2>2, <2>3, BetweenCalls, CallStarts DEF Ops, Phases
  <1>5. CASE \E f \in Ranges : AssignRange(v, f)
    <2>1. PICK f \in Ranges : AssignRange(v, f)
      BY <1>5
    <2>2. phase = "idle" /\ v \in born /\ vec[v].size <= Count(f)
          /\ Begin("assign", v, v, Count(f), f, "overwrite", 0)
          /\ UNCHANGED <<vec, born, faults>>
      BY <2>1 DEF AssignRange, Begin, CarefulUser, Pitfalls
    <2>3. Count(f) \in Nat /\ f \in [0..(Count(f) - 1) -> Values]
      BY RangeCounted
    <2>4. CallAgrees'
      BY <2>2, BetweenCalls DEF Begin, CallAgrees, self
    <2> QED
      BY <2>2, <2>3, <2>4, BetweenCalls, CallStarts DEF Ops, Phases
  <1>6. CASE \E val \in Values : push_back(v, val)
    <2>1. PICK val \in Values : push_back(v, val)
      BY <1>6
    <2> DEFINE n == vec[v].size + 1
               src == Sized(Contents(v), n, val)
    <2>2. phase = "idle" /\ v \in born /\ Begin("push", v, v, n, src, "append", 0)
          /\ UNCHANGED <<vec, born, faults>>
      BY <2>1 DEF push_back, Begin
    <2>3. n \in Nat /\ src \in [0..(n - 1) -> Values]
      BY <2>2, BetweenCalls DEF Contents
    <2>4. CallAgrees'
      BY <2>2 DEF Begin, CallAgrees
    <2> HIDE DEF n, src
    <2> QED
      BY <2>2, <2>3, <2>4, BetweenCalls, CallStarts DEF Ops, Phases
  <1>7. CASE \E i \in 0..(MaxSize - 1) : PushBackOwn(v, i)
    <2>1. PICK i \in 0..(MaxSize - 1) : PushBackOwn(v, i)
      BY <1>7
    <2> DEFINE n == vec[v].size + 1
               src == Sized(Contents(v), n, OwnElement(vec[v], i))
    <2>2. phase = "idle" /\ v \in born /\ Begin("push", v, v, n, src, "append", 0)
          /\ UNCHANGED <<vec, born, faults>> /\ i < vec[v].size
      BY <2>1 DEF PushBackOwn, Begin
    <2>3. OwnElement(vec[v], i) \in Values
      <3>1. \A j \in 0..(vec[v].size - 1) : vec[v].slot[j] \in Values
        BY <2>2, BetweenCalls, ContentsAreValues
      <3>2. i \in 0..(vec[v].size - 1)
        BY <2>2, BetweenCalls
      <3> QED
        BY <3>1, <3>2 DEF OwnElement
    <2>4. n \in Nat /\ src \in [0..(n - 1) -> Values]
      <3>0. vec[v].size \in Nat
        BY <2>2, BetweenCalls
      <3>1. n \in Nat
        BY <3>0
      <3>2. \A e \in Values : Sized(Contents(v), n, e) \in [0..(n - 1) -> Values]
        BY <2>2, <3>1, BetweenCalls DEF Contents
      <3> QED
        BY <2>3, <3>1, <3>2
    <2>5. CallAgrees'
      BY <2>2 DEF Begin, CallAgrees
    <2> HIDE DEF n, src
    <2> QED
      BY <2>2, <2>4, <2>5, BetweenCalls, CallStarts DEF Ops, Phases
  <1> QED
    BY <1>1, <1>2, <1>3, <1>4, <1>5, <1>6, <1>7

\* Calls that may need other storage.
LEMMA StorageCallKeeps ==
    ASSUME CarefulUser, ElementsAssumption, VInv, NEW v \in Vectors,
           \/ shrink_to_fit(v)
           \/ \E n \in 0..MaxSize : resize(v, n)
           \/ \E n \in 0..(MaxSize + 1) : reserve(v, n)
           \/ \E n \in 0..MaxSize, val \in Values : AssignN(v, n, val)
    PROVE  VInv'
  <1>1. CASE shrink_to_fit(v)
    <2>1. phase = "idle" /\ Begin("reserve", v, v, vec[v].size, Contents(v), "copy", 0)
          /\ v \in born
          /\ vec' = [vec EXCEPT ![That] = make_new_storage(vec[v].size)]
          /\ UNCHANGED <<born, faults>>
      BY <1>1 DEF shrink_to_fit, BeginReserve, Begin
    <2>2. vec[v].size \in Nat /\ Contents(v) \in [0..(vec[v].size - 1) -> Values]
      BY <2>1, BetweenCalls DEF Contents
    <2>3. Sound(make_new_storage(vec[v].size))
          /\ make_new_storage(vec[v].size).cap = vec[v].size
      BY <2>2, NewStorage
    <2>4. /\ vec' = [y \in Vectors \cup {That} |-> vec'[y]]
          /\ \A y \in Vectors \cup {That} : Sound(vec'[y])
          /\ vec'[That] = make_new_storage(vec[v].size) /\ vec'[v] = vec[v]
      BY <2>1, <2>3, BetweenCalls, OneReplaced
    <2>5. faults' = {} /\ born' \subseteq Vectors
      BY <2>1, BetweenCalls
    <2>6. CallAgrees'
      BY <2>1, <2>2, <2>3, <2>4 DEF Begin, CallAgrees, CopySize, self
    <2> QED
      BY <2>1, <2>2, <2>4, <2>5, <2>6, CallStarts DEF Ops, Phases
  <1>2. CASE \E n \in 0..MaxSize : resize(v, n)
    <2>1. PICK n \in 0..MaxSize : resize(v, n)
      BY <1>2
    <2>2. phase = "idle" /\ v \in born /\ UNCHANGED <<born, faults>>
      BY <2>1 DEF resize, Begin
    <2>3. n \in Nat /\ Sized(Contents(v), n, Default) \in [0..(n - 1) -> Values]
      BY <2>2, BetweenCalls DEF Contents, ElementsAssumption
    <2>4. PICK src : src = Sized(Contents(v), n, Default)
      OBVIOUS
    <2>5. faults' = {} /\ born' \subseteq Vectors
      BY <2>2, BetweenCalls
    <2>6. CASE /\ vec[v].cap < n /\ vec' = [vec EXCEPT ![That] = make_new_storage(n)]
               /\ Begin("resize", v, v, n, src, "copy", 0)
      <3>1. Sound(make_new_storage(n)) /\ make_new_storage(n).cap = n
        BY <2>3, NewStorage
      <3>2. /\ vec' = [y \in Vectors \cup {That} |-> vec'[y]]
            /\ \A y \in Vectors \cup {That} : Sound(vec'[y])
            /\ vec'[That] = make_new_storage(n)
        BY <2>2, <2>6, <3>1, BetweenCalls, OneReplaced
      <3>3. CallAgrees'
        BY <2>2, <2>3, <2>6, <3>1, <3>2 DEF Begin, CallAgrees, CopySize
      <3> QED
        BY <2>3, <2>4, <2>5, <2>6, <3>2, <3>3, CallStarts DEF Ops, Phases
    <2>7. CASE /\ n <= vec[v].cap /\ UNCHANGED vec /\ (n = 0 \/ vec[v].size <= n)
               /\ Begin("resize", v, v, n, src, Resizing(n, vec[v].size), vec[v].size)
      <3>1. Resizing(n, vec[v].size) \in {"append", "clear"} /\ vec[v].size \in Nat
        BY <2>2, <2>3, <2>7, BetweenCalls DEF Resizing
      <3>2. CallAgrees'
        BY <2>2, <2>7, <3>1 DEF Begin, CallAgrees, self
      <3>3. PICK ph : ph = Resizing(n, vec[v].size)
        OBVIOUS
      <3>4. /\ vec' = [y \in Vectors \cup {That} |-> vec'[y]]
            /\ \A y \in Vectors \cup {That} : Sound(vec'[y])
        BY <2>2, <2>7, BetweenCalls
      <3>5. ph \in Phases /\ ph \notin {"destroy", "drop"}
        BY <3>1, <3>3 DEF Phases
      <3> QED
        BY <2>3, <2>4, <2>5, <2>7, <3>1, <3>2, <3>3, <3>4, <3>5, CallStarts DEF Ops
    <2> QED
      BY <2>1, <2>4, <2>6, <2>7 DEF resize, CarefulUser, Pitfalls
  <1>3. CASE \E n \in 0..(MaxSize + 1) : reserve(v, n)
    <2>1. PICK n \in 0..(MaxSize + 1) : reserve(v, n)
      BY <1>3
    <2>2. phase = "idle" /\ v \in born /\ born' = born /\ vec[v].cap < n
      BY <2>1 DEF reserve, BeginReserve, Begin
    <2>3. vec[v].size \in Nat /\ Contents(v) \in [0..(vec[v].size - 1) -> Values] /\ n \in Nat
      BY <2>2, BetweenCalls DEF Contents
    <2>4. Sound(make_new_storage(n)) /\ make_new_storage(n).cap = n
      BY <2>3, NewStorage
    <2>5. CASE vec[v].size = 0 /\ vec[v].cap = 0 /\ BeginReserve(v, "idle") /\ Restore(v, n)
      <3>1. faults' = {}
        BY <2>2, <2>5, BetweenCalls DEF Restore, Blame, FreeFault
      <3>2. /\ vec' = [y \in Vectors \cup {That} |-> vec'[y]]
            /\ \A y \in Vectors \cup {That} : Sound(vec'[y])
        BY <2>2, <2>4, <2>5, OneReplaced DEF Restore
      <3>3. CallAgrees'
        BY <2>5 DEF BeginReserve, Begin, CallAgrees
      <3> QED
        BY <2>2, <2>3, <2>5, <3>1, <3>2, <3>3, BetweenCalls, CallStarts
        DEF BeginReserve, Ops, Phases
    <2>6. CASE /\ vec[v].size > 0 /\ BeginReserve(v, "copy")
               /\ vec' = [vec EXCEPT ![That] = make_new_storage(n)] /\ UNCHANGED faults
      <3>1. /\ vec' = [y \in Vectors \cup {That} |-> vec'[y]]
            /\ \A y \in Vectors \cup {That} : Sound(vec'[y])
            /\ vec'[That] = make_new_storage(n) /\ vec'[v] = vec[v]
        BY <2>2, <2>4, <2>6, BetweenCalls, OneReplaced
      <3>2. CallAgrees'
        BY <2>2, <2>3, <2>4, <2>6, <3>1, BetweenCalls
        DEF BeginReserve, Begin, CallAgrees, CopySize, self
      <3> QED
        BY <2>2, <2>3, <2>6, <3>1, <3>2, BetweenCalls, CallStarts DEF BeginReserve, Ops, Phases
    <2> QED
      BY <2>1, <2>5, <2>6 DEF reserve, CarefulUser, Pitfalls
  <1>4. CASE \E n \in 0..MaxSize, val \in Values : AssignN(v, n, val)
    <2>1. PICK n \in 0..MaxSize, val \in Values : AssignN(v, n, val)
      BY <1>4
    <2>2. phase = "idle" /\ v \in born /\ UNCHANGED <<born, faults>>
      BY <2>1 DEF AssignN, Begin
    <2>3. n \in Nat /\ Repeat(n, val) \in [0..(n - 1) -> Values]
      BY <2>2, BetweenCalls DEF Repeat
    <2>4. PICK src : src = Repeat(n, val)
      OBVIOUS
    <2>5. faults' = {} /\ born' \subseteq Vectors
      BY <2>2, BetweenCalls
    <2>6. CASE /\ vec[v].cap < n /\ vec' = [vec EXCEPT ![That] = make_new_storage(n)]
               /\ Begin("replace", v, v, n, src, "copy", 0)
      <3>1. Sound(make_new_storage(n)) /\ make_new_storage(n).cap = n
        BY <2>3, NewStorage
      <3>2. /\ vec' = [y \in Vectors \cup {That} |-> vec'[y]]
            /\ \A y \in Vectors \cup {That} : Sound(vec'[y])
            /\ vec'[That] = make_new_storage(n)
        BY <2>2, <2>6, <3>1, BetweenCalls, OneReplaced
      <3>3. CallAgrees'
        BY <2>2, <2>3, <2>6, <3>1, <3>2 DEF Begin, CallAgrees, CopySize
      <3> QED
        BY <2>3, <2>4, <2>5, <2>6, <3>2, <3>3, CallStarts DEF Ops, Phases
    <2>7. CASE /\ n <= vec[v].cap /\ UNCHANGED vec /\ (n = 0 \/ vec[v].size <= n)
               /\ Begin("fill", v, v, n, src, Resizing(n, vec[v].size), vec[v].size)
      <3>1. Resizing(n, vec[v].size) \in {"append", "clear"} /\ vec[v].size \in Nat
        BY <2>2, <2>3, <2>7, BetweenCalls DEF Resizing
      <3>2. CallAgrees'
        BY <2>2, <2>7, <3>1 DEF Begin, CallAgrees, self
      <3>3. PICK ph : ph = Resizing(n, vec[v].size)
        OBVIOUS
      <3>4. /\ vec' = [y \in Vectors \cup {That} |-> vec'[y]]
            /\ \A y \in Vectors \cup {That} : Sound(vec'[y])
        BY <2>2, <2>7, BetweenCalls
      <3>5. ph \in Phases /\ ph \notin {"destroy", "drop"}
        BY <3>1, <3>3 DEF Phases
      <3> QED
        BY <2>3, <2>4, <2>5, <2>7, <3>1, <3>2, <3>3, <3>4, <3>5, CallStarts DEF Ops
    <2> QED
      BY <2>1, <2>4, <2>6, <2>7 DEF AssignN, CarefulUser, Pitfalls
  <1> QED
    BY <1>1, <1>2, <1>3, <1>4

\* Calls that are over at once.
LEMMA ShortCallKeeps ==
    ASSUME CarefulUser, ElementsAssumption, VInv, NEW v \in Vectors,
           \/ pop_back(v)
           \/ \E w \in Vectors : swap(v, w)
           \/ \E i \in 0..(MaxSize - 1) : AssignOwn(v, MaxSize, i)
    PROVE  VInv'
  <1>1. CASE pop_back(v)
    <2> DEFINE last == vec[v].size - 1
               src == Sized(Contents(v), last, Default)
    <2>1. phase = "idle" /\ Begin("clear", v, v, last, src, "idle", 0)
          /\ vec[v].size > 0 /\ Blame(DestroyFault(vec[v], last))
          /\ vec' = [vec EXCEPT ![v] = DestroyLast(vec[v])] /\ UNCHANGED born
      BY <1>1 DEF pop_back, Begin
    <2>2. last \in Nat /\ src \in [0..(last - 1) -> Values]
      <3>1. last \in Nat
        BY <2>1, BetweenCalls
      <3>2. \A n \in Nat : Sized(Contents(v), n, Default) \in [0..(n - 1) -> Values]
        BY <2>1, BetweenCalls DEF Contents, ElementsAssumption
      <3> QED
        BY <3>1, <3>2
    <2>3. Sound(DestroyLast(vec[v])) /\ DestroyFault(vec[v], last) = {}
      BY <2>1, BetweenCalls, DestroyLastSound
    <2>4. /\ vec' = [y \in Vectors \cup {That} |-> vec'[y]]
          /\ \A y \in Vectors \cup {That} : Sound(vec'[y])
      BY <2>1, <2>3, OneReplaced
    <2>5. faults' = {} /\ born' \subseteq Vectors
      BY <2>1, <2>3, BetweenCalls DEF Blame
    <2> HIDE DEF last, src
    <2>6. CallAgrees'
      BY <2>1 DEF Begin, CallAgrees
    <2> QED
      BY <2>1, <2>2, <2>4, <2>5, <2>6, CallStarts DEF Ops, Phases
  <1>2. CASE \E w \in Vectors : swap(v, w)
    <2>1. PICK w \in Vectors : swap(v, w)
      BY <1>2
    <2>2. phase = "idle" /\ v # w /\ Begin("move", v, w, 0, Repeat(0, Default), "idle", 0)
          /\ vec' = [vec EXCEPT ![v] = vec[w], ![w] = vec[v]] /\ UNCHANGED <<born, faults>>
      BY <2>1 DEF swap, Begin
    <2>3. Repeat(0, Default) \in [0..(0 - 1) -> Values]
      BY DEF Repeat, ElementsAssumption
    <2>4. /\ vec' = [y \in Vectors \cup {That} |-> vec'[y]]
          /\ \A y \in Vectors \cup {That} : Sound(vec'[y])
      BY <2>2, BetweenCalls, TwoReplaced
    <2>5. faults' = {} /\ born' \subseteq Vectors
      BY <2>2, BetweenCalls
    <2>6. CallAgrees'
      BY <2>2 DEF Begin, CallAgrees
    <2> QED
      BY <2>2, <2>3, <2>4, <2>5, <2>6, CallStarts DEF Ops, Phases
  <1>3. CASE \E i \in 0..(MaxSize - 1) : AssignOwn(v, MaxSize, i)
    BY <1>3 DEF AssignOwn, CarefulUser, Pitfalls
  <1> QED
    BY <1>1, <1>2, <1>3

----------------------------------------------------------------------------
(* The theorems.                                                           *)

LEMMA VInvNext == CarefulUser /\ ElementsAssumption /\ VInv /\ [Next]_vars => VInv'
  <1> SUFFICES ASSUME CarefulUser, ElementsAssumption, VInv, [Next]_vars PROVE VInv'
    OBVIOUS
  <1>1. CASE Step
    <2>1. phase # "idle"
      BY <1>1 DEF Step, AppendNext, Grow, AppendThrows, AppendEnds, Copy, CopyThrows, CopyEnds,
          DropNext, DropEnds, DestructorNext, DestructorEnds,
          Overwrite, OverwriteThrows, OverwriteEnds, Overwrites, ClearNext, ClearEnds,
          ShrinkNext, ShrinkEnds
    <2> QED
      BY <1>1, <2>1, StepInCall, StepInDestructor
  <1>2. CASE \E v \in Vectors : CallOn(v)
    BY <1>2, ConstructorKeeps, LoopCallKeeps, StorageCallKeeps, ShortCallKeeps DEF CallOn
  <1>3. CASE UNCHANGED vars
    BY <1>3 DEF vars, VInv, TypeOK, SlotsHoldElements, NoFaults, CallAgrees, IsVector, LiveFrom,
        Destroyed, CopySize, self
  <1> QED
    BY <1>1, <1>2, <1>3 DEF Next

\* The parts of the invariant hold in every state, whatever throws.
THEOREM VectorInvariant == ASSUME CarefulUser, ElementsAssumption PROVE Spec => []VInv
  <1>1. Init => VInv
    BY VInvInit
  <1>2. VInv /\ [Next]_vars => VInv'
    BY VInvNext
  <1> QED
    BY <1>1, <1>2, PTL DEF Spec

\* The slots below the size of a vector, and no others, hold elements (lines 80-82: e_ is the
\* end of the sequence), at every constructor, assignment and destructor call.
THEOREM SlotsBelowSize == ASSUME CarefulUser, ElementsAssumption PROVE Spec => []SlotsHoldElements
  <1>1. VInv => SlotsHoldElements
    BY DEF VInv
  <1> QED
    BY <1>1, VectorInvariant, PTL

\* No element or storage is lost, released twice or used when it is not there.
THEOREM NothingLost == ASSUME CarefulUser, ElementsAssumption PROVE Spec => []NoFaults
  <1>1. VInv => NoFaults
    BY DEF VInv
  <1> QED
    BY <1>1, VectorInvariant, PTL

\* Sizes, capacities and indices stay what they are declared as.
THEOREM VectorTypes == ASSUME CarefulUser, ElementsAssumption PROVE Spec => []TypeOK
  <1>1. VInv => TypeOK
    BY DEF VInv
  <1> QED
    BY <1>1, VectorInvariant, PTL

----------------------------------------------------------------------------
(* What the calls promise.  OutcomeAsPromised says something of the states *)
(* between calls only; what each phase of a call has done by then is what  *)
(* makes it inductive, together with VInv.                                 *)

\* The elements of a vector are the first of those that the call is to end with.
Prefix(x) == x.size <= call.n /\ \A i \in 0..(x.size - 1) : x.slot[i] = call.src[i]

\* A vector that the call will move from, once the one it moves to is cleared.
StillToMove(v) == phase = "clear" /\ call.op = "move" /\ v = call.w

\* Vectors that the call is not on hold what they held before it.
OthersHeld == \A v \in born \ {call.v} : ~StillToMove(v) => Contents(v) = goal[v]

\* Vectors that are not constructed are empty.
UnbornEmpty == \A v \in Vectors \ born : vec[v].size = 0

\* What the call is for is what the user is to find.
GoalIsSource ==
    phase # "idle" =>
        IF call.op = "move"
        THEN phase = "clear" /\ goal[call.v] = Contents(call.w) /\ goal[call.w] = Elems(Empty)
        ELSE goal[call.v] = call.src

WhileAppending ==
    phase = "append" =>
        /\ ~threw
        /\ call.op = "fill" => self.size <= call.n /\ call.n <= self.cap
        /\ call.op # "fill" => Prefix(self)
        /\ call.op = "push" => call.n - 1 <= self.size
        /\ call.op = "reserve" => self.size = call.n

WhileCopying ==
    phase = "copy" =>
        /\ ~threw /\ call.op # "fill"
        /\ Prefix(vec[That]) /\ vec[That].size <= CopySize
        /\ call.op # "replace" => Prefix(self)
        /\ call.op = "resize" => \A i \in self.size..(call.n - 1) : call.src[i] = Default
        /\ call.op = "push" => self.size = call.n - 1
        /\ call.op = "reserve" => self.size = call.n

WhileDropping ==
    phase = "drop" =>
        /\ call.op # "fill" /\ (threw => call.op # "construct")
        /\ Prefix(self)
        /\ call.op = "push" => self.size = call.n - 1
        /\ call.op = "reserve" => self.size = call.n

WhileOverwriting ==
    phase = "overwrite" =>
        /\ ~threw
        /\ \A i \in 0..(ix - 1) : self.slot[i] = call.src[i]
        /\ call.op = "fill" => self.size = call.n

WhileClearing ==
    phase \in {"clear", "destroy"} => ~threw /\ (call.op \notin {"copy", "move"} => call.n = 0)

Promised ==
    /\ OthersHeld /\ UnbornEmpty /\ GoalIsSource
    /\ WhileAppending /\ WhileCopying /\ WhileDropping /\ WhileOverwriting /\ WhileClearing
    /\ OutcomeAsPromised

----------------------------------------------------------------------------
(* The steps of a running call.                                            *)

\* What a call knows of its vectors at each step.
LEMMA CallKnows ==
    ASSUME CarefulUser, VInv, phase # "idle"
    PROVE  /\ call.v \in Vectors /\ call.v \in born /\ call.v # That /\ That \notin Vectors
           /\ born \subseteq Vectors
           /\ vec = [x \in Vectors \cup {That} |-> vec[x]]
           /\ IsVector(self) /\ IsVector(vec[That])
           /\ self.size \in Nat /\ self.cap \in Nat /\ self.size <= self.cap
           /\ vec[That].size \in Nat
           /\ call.n \in Nat /\ call.src \in [0..(call.n - 1) -> Values] /\ ix \in Nat
           /\ threw \in BOOLEAN /\ call.op \in Ops
  BY DEF VInv, TypeOK, CallAgrees, SlotsHoldElements, IsVector, self, CarefulUser, VectorAssumption

\* A step that touches no other vector than the one the call is on, and "that".
LEMMA OthersKept ==
    ASSUME CarefulUser, VInv, Promised, phase # "idle", goal' = goal, call' = call, born' = born,
           \A x \in Vectors \ {call.v} : vec'[x] = vec[x],
           call.op = "move" => phase' = phase
    PROVE  OthersHeld' /\ UnbornEmpty' /\ GoalIsSource'
  <1>0. call.v \in born /\ born \subseteq Vectors
    BY CallKnows
  <1>1. call.op = "move" => phase = "clear" /\ call.w \in Vectors /\ call.w # call.v
    BY DEF Promised, GoalIsSource, VInv, CallAgrees
  <1>2. \A x \in Vectors \ {call.v} : Contents(x)' = Contents(x)
    BY DEF Contents, Elems
  <1>3. \A x \in Vectors : StillToMove(x)' <=> StillToMove(x)
    BY <1>1 DEF StillToMove
  <1>4. OthersHeld'
    BY <1>0, <1>2, <1>3 DEF Promised, OthersHeld
  <1>5. UnbornEmpty'
    BY <1>0 DEF Promised, UnbornEmpty
  <1>6. GoalIsSource'
    BY <1>0, <1>1, <1>2 DEF Promised, GoalIsSource, Elems, Empty, make_new_storage
  <1> QED
    BY <1>4, <1>5, <1>6

\* A vector with all elements of the call, or all but the last, holds these.
LEMMA PrefixHolds ==
    ASSUME NEW x, Prefix(x), call.n \in Nat, call.src \in [0..(call.n - 1) -> Values]
    PROVE  /\ x.size = call.n => Elems(x) = call.src
           /\ x.size = call.n - 1 => Elems(x) = Sized(call.src, call.n - 1, Default)
  <1>1. call.src = [i \in 0..(call.n - 1) |-> call.src[i]] /\ DOMAIN call.src = 0..(call.n - 1)
    OBVIOUS
  <1>2. x.size = call.n => Elems(x) = call.src
    BY <1>1 DEF Elems, Prefix
  <1>3. x.size = call.n - 1 => Elems(x) = Sized(call.src, call.n - 1, Default)
    <2> SUFFICES ASSUME x.size = call.n - 1 PROVE Elems(x) = Sized(call.src, call.n - 1, Default)
      OBVIOUS
    <2>1. Elems(x) = [i \in 0..(call.n - 1 - 1) |-> call.src[i]]
      BY DEF Elems, Prefix
    <2>2. \A i \in 0..(call.n - 1 - 1) : i \in DOMAIN call.src
      BY <1>1
    <2>3. Sized(call.src, call.n - 1, Default) = [i \in 0..(call.n - 1 - 1) |-> call.src[i]]
      BY <2>2 DEF Sized
    <2> QED
      BY <2>1, <2>3
  <1> QED
    BY <1>2, <1>3

\* One more element of the source makes a longer prefix.
LEMMA PrefixGrows ==
    ASSUME NEW x, IsVector(x), Prefix(x), x.size < call.n, x.size < x.cap, call.n \in Nat,
           NEW e, e = call.src[x.size]
    PROVE  Prefix(Construct(x, e))
  <1>1. x.size \in Nat /\ x.slot \in [0..(x.cap - 1) -> Values \cup {Raw}] /\ x.cap \in Nat
    BY DEF IsVector
  <1>2. Construct(x, e).size = x.size + 1 /\ Construct(x, e).slot = [x.slot EXCEPT ![x.size] = e]
    BY DEF Construct
  <1>3. \A i \in 0..x.size : [x.slot EXCEPT ![x.size] = e][i] = call.src[i]
    BY <1>1 DEF Prefix
  <1> QED
    BY <1>1, <1>2, <1>3 DEF Prefix


\* In a phase, only what is said of that phase matters.
LEMMA CallGoesOn ==
    ASSUME OthersHeld', UnbornEmpty', GoalIsSource', phase' # "idle",
           phase' = "append" => WhileAppending',
           phase' = "copy" => WhileCopying',
           phase' = "drop" => WhileDropping',
           phase' = "overwrite" => WhileOverwriting',
           phase' \in {"clear", "destroy"} => WhileClearing'
    PROVE  Promised'
  BY DEF Promised, WhileAppending, WhileCopying, WhileDropping, WhileOverwriting, WhileClearing,
      OutcomeAsPromised

\* A call returns, or is left by an exception.
LEMMA CallReturns ==
    ASSUME OthersHeld', UnbornEmpty', phase' = "idle", ~threw',
           call.v \in born' => Contents(call.v)' = goal'[call.v], call' = call
    PROVE  Promised'
  BY DEF Promised, WhileAppending, WhileCopying, WhileDropping, WhileOverwriting, WhileClearing,
      OutcomeAsPromised, OthersHeld, StillToMove, GoalIsSource

LEMMA CallThrows ==
    ASSUME OthersHeld', UnbornEmpty', phase' = "idle", threw', call' = call,
           call.op = "reserve" => Contents(call.v)' = goal'[call.v],
           call.op = "push" => Contents(call.v)' = Sized(goal'[call.v], call.n - 1, Default)
    PROVE  Promised'
  BY DEF Promised, WhileAppending, WhileCopying, WhileDropping, WhileOverwriting, WhileClearing,
      OutcomeAsPromised, OthersHeld, StillToMove, GoalIsSource

\* The steps of the loop that constructs elements at the end.
LEMMA AppendingPromised ==
    ASSUME CarefulUser, ElementsAssumption, VInv, Promised,
           AppendNext \/ Grow \/ AppendThrows \/ AppendEnds
    PROVE  Promised'
  <1>0. /\ phase = "append" /\ ~threw
        /\ call.op = "fill" => self.size <= call.n /\ call.n <= self.cap
        /\ call.op # "fill" => Prefix(self)
        /\ call.op = "push" => call.n - 1 <= self.size
        /\ call.op = "reserve" => self.size = call.n
        /\ call.op # "move" /\ goal[call.v] = call.src
    BY DEF AppendNext, Grow, AppendThrows, AppendEnds, Promised, WhileAppending, GoalIsSource
  <1>1. /\ call.v \in Vectors /\ call.v \in born /\ call.v # That
        /\ vec = [x \in Vectors \cup {That} |-> vec[x]]
        /\ IsVector(self) /\ self.size \in Nat /\ self.cap \in Nat /\ self.size <= self.cap
        /\ call.n \in Nat /\ call.src \in [0..(call.n - 1) -> Values]
    BY <1>0, CallKnows
  <1>2. CASE AppendNext
    <2>1. vec' = [vec EXCEPT ![call.v] = Construct(self, Appended)] /\ self.size < self.cap
          /\ self.size < call.n /\ UNCHANGED <<born, phase, call, ix, threw, goal>>
      BY <1>2 DEF AppendNext, HasRoom, self
    <2>2. self' = Construct(self, Appended)
          /\ \A x \in Vectors \ {call.v} : vec'[x] = vec[x]
      BY <1>1, <2>1 DEF self
    <2>3. OthersHeld' /\ UnbornEmpty' /\ GoalIsSource'
      BY <1>0, <2>1, <2>2, OthersKept
    <2>4. self'.size = self.size + 1 /\ self'.cap = self.cap
      BY <2>2 DEF Construct
    <2>5. call.op # "fill" => Prefix(self)'
      <3>1. call.op # "fill" => Appended = call.src[self.size]
        BY DEF Appended
      <3>2. call.op # "fill" => Prefix(Construct(self, Appended))
        BY <1>0, <1>1, <2>1, <3>1, PrefixGrows
      <3> QED
        BY <2>1, <2>2, <3>2 DEF Prefix
    <2>6. WhileAppending'
      BY <1>0, <1>1, <2>1, <2>4, <2>5 DEF WhileAppending
    <2> QED
      BY <1>0, <2>1, <2>3, <2>6, CallGoesOn
  <1>3. CASE Grow
    <2> DEFINE n == 1 + (3 * self.cap) \div 2
    <2>1. /\ phase = "append" /\ ~threw /\ self.size < call.n /\ self.size = self.cap
          /\ UNCHANGED <<born, call, threw, goal>>
      BY <1>1, <1>3 DEF Grow, HasRoom
    <2>2. call.op \notin {"fill", "replace", "resize", "reserve"} /\ Prefix(self)
          /\ (call.op = "push" => self.size = call.n - 1)
      BY <1>0, <1>1, <2>1 DEF VInv, CallAgrees
    <2>3. PICK m : m = n
      OBVIOUS
    <2>4. make_new_storage(m).size = 0
      BY DEF make_new_storage
    <2>5. CASE self.size = 0 /\ Restore(call.v, m) /\ UNCHANGED <<phase, ix>>
      <3>1. self' = make_new_storage(m)
            /\ \A x \in Vectors \ {call.v} : vec'[x] = vec[x]
        BY <1>1, <2>1, <2>5 DEF Restore, self
      <3>2. OthersHeld' /\ UnbornEmpty' /\ GoalIsSource'
        BY <1>0, <2>1, <2>5, <3>1, OthersKept
      <3>3. Prefix(self)' /\ self'.size = 0
        BY <1>1, <2>1, <2>4, <3>1 DEF Prefix
      <3>4. WhileAppending'
        BY <1>0, <2>1, <2>2, <2>5, <3>3 DEF WhileAppending
      <3> QED
        BY <2>1, <2>5, <3>2, <3>4, CallGoesOn
    <2>6. CASE self.size > 0 /\ vec' = [vec EXCEPT ![That] = make_new_storage(m)]
               /\ phase' = "copy"
      <3>1. self' = self /\ vec'[That] = make_new_storage(m)
            /\ \A x \in Vectors \ {call.v} : vec'[x] = vec[x]
        BY <1>1, <2>1, <2>6, CallKnows, <1>0 DEF self
      <3>2. OthersHeld' /\ UnbornEmpty' /\ GoalIsSource'
        BY <1>0, <2>1, <3>1, OthersKept
      <3>3. Prefix(vec[That])' /\ vec'[That].size = 0 /\ CopySize' = self.size
        BY <1>1, <2>1, <2>2, <2>4, <3>1 DEF Prefix, CopySize
      <3>4. Prefix(self)'
        BY <2>1, <2>2, <3>1 DEF Prefix
      <3>5. WhileCopying'
        BY <1>1, <2>1, <2>2, <3>1, <3>3, <3>4 DEF WhileCopying
      <3> QED
        BY <2>6, <3>2, <3>5, CallGoesOn
    <2> QED
      BY <1>3, <2>3, <2>5, <2>6 DEF Grow, Goto
  <1>4. CASE AppendThrows
    <2>1. /\ phase' = "idle" /\ threw' /\ UNCHANGED <<vec, born, call, goal>>
          /\ self.size < call.n
      BY <1>4 DEF AppendThrows, Leave, Goto, Unborn, CarefulUser, Pitfalls
    <2>2. OthersHeld' /\ UnbornEmpty'
      BY <1>0, <2>1, OthersKept
    <2>3. call.op # "reserve"
      BY <1>0, <1>1, <2>1
    <2>4. call.op = "push" => Contents(call.v)' = Sized(goal'[call.v], call.n - 1, Default)
      <3>1. call.op = "push" => self.size = call.n - 1 /\ Prefix(self)
        BY <1>0, <1>1, <2>1
      <3>2. call.op = "push" => Elems(self) = Sized(call.src, call.n - 1, Default)
        BY <1>1, <3>1, PrefixHolds
      <3>3. Contents(call.v)' = Elems(self)
        BY <2>1 DEF Contents, Elems, self
      <3> QED
        BY <1>0, <2>1, <3>2, <3>3
    <2> QED
      BY <2>1, <2>2, <2>3, <2>4, CallThrows
  <1>5. CASE AppendEnds
    <2>1. /\ self.size >= call.n /\ UNCHANGED <<vec, born, call, threw, goal>>
          /\ phase' = (IF call.op = "fill" THEN "overwrite" ELSE "idle") /\ ix' = 0
      BY <1>5 DEF AppendEnds, Goto
    <2>2. OthersHeld' /\ UnbornEmpty' /\ GoalIsSource'
      BY <1>0, <2>1, OthersKept
    <2>3. self.size = call.n
      BY <1>0, <1>1, <2>1 DEF Prefix
    <2>4. CASE call.op = "fill"
      <3>1. WhileOverwriting'
        BY <1>0, <2>1, <2>3 DEF WhileOverwriting, self
      <3> QED
        BY <2>1, <2>2, <2>4, <3>1, CallGoesOn
    <2>5. CASE call.op # "fill"
      <3>1. Elems(self) = call.src
        BY <1>0, <1>1, <2>3, <2>5, PrefixHolds
      <3>2. Contents(call.v)' = goal'[call.v]
        BY <1>0, <2>1, <3>1 DEF Contents, Elems, self
      <3> QED
        BY <1>0, <2>1, <2>2, <2>5, <3>2, CallReturns
    <2> QED
      BY <2>4, <2>5
  <1> QED
    BY <1>2, <1>3, <1>4, <1>5


\* The steps of the loop that copies the elements to new storage, and the swap after it.
LEMMA CopyingPromised ==
    ASSUME CarefulUser, ElementsAssumption, VInv, Promised, Copy \/ CopyThrows \/ CopyEnds
    PROVE  Promised'
  <1> DEFINE t == vec[That]
  <1>0. /\ phase = "copy" /\ ~threw /\ call.op # "fill"
        /\ Prefix(t) /\ t.size <= CopySize /\ CopySize <= t.cap
        /\ call.op # "replace" => Prefix(self)
        /\ call.op = "resize" => \A i \in self.size..(call.n - 1) : call.src[i] = Default
        /\ call.op = "push" => self.size = call.n - 1
        /\ call.op = "reserve" => self.size = call.n
        /\ call.op # "move" /\ goal[call.v] = call.src
    BY DEF Copy, CopyThrows, CopyEnds, Promised, WhileCopying, GoalIsSource, VInv, CallAgrees
  <1>1. /\ call.v \in Vectors /\ call.v \in born /\ call.v # That /\ That \notin Vectors
        /\ vec = [x \in Vectors \cup {That} |-> vec[x]]
        /\ IsVector(self) /\ self.size \in Nat /\ IsVector(t) /\ t.size \in Nat
        /\ call.n \in Nat /\ call.src \in [0..(call.n - 1) -> Values]
    BY <1>0, CallKnows
  <1>2. CASE Copy
    <2> DEFINE e == Copied(t.size)
    <2>1. vec' = [vec EXCEPT ![That] = Construct(t, e)] /\ t.size < CopySize
          /\ UNCHANGED <<born, phase, call, ix, threw, goal>>
      BY <1>2 DEF Copy
    <2>2. CopySize \in Nat /\ CopySize <= call.n
      BY <1>0, <1>1 DEF CopySize, Prefix
    <2>3. t.size < call.n /\ t.size < t.cap /\ t.cap \in Nat
      BY <1>0, <1>1, <2>1, <2>2 DEF IsVector
    <2>4. e = call.src[t.size]
      <3>1. CASE call.op = "replace"
        BY <3>1 DEF Copied
      <3>2. CASE call.op # "replace" /\ t.size < self.size
        BY <1>0, <1>1, <3>2 DEF Copied, Prefix
      <3>3. CASE call.op = "resize" /\ ~(t.size < self.size)
        <4>1. t.size \in self.size..(call.n - 1)
          BY <1>1, <2>3, <3>3
        <4> QED
          BY <1>0, <3>3, <4>1 DEF Copied
      <3>4. CASE call.op \notin {"replace", "resize"} /\ ~(t.size < self.size)
        BY <2>1, <3>4 DEF CopySize
      <3> QED
        BY <3>1, <3>2, <3>3, <3>4
    <2>5. PICK c : c = Construct(t, e)
      OBVIOUS
    <2>6. Prefix(c) /\ c.size = t.size + 1
      <3>1. Prefix(Construct(t, e))
        BY <1>0, <1>1, <2>3, <2>4, PrefixGrows
      <3> QED
        BY <2>5, <3>1 DEF Construct
    <2>7. vec'[That] = c /\ self' = self
          /\ \A x \in Vectors \ {call.v} : vec'[x] = vec[x]
      BY <1>1, <2>1, <2>5 DEF self
    <2>8. OthersHeld' /\ UnbornEmpty' /\ GoalIsSource'
      BY <1>0, <2>1, <2>7, OthersKept
    <2>9. Prefix(vec[That])' /\ (call.op # "replace" => Prefix(self)')
      BY <1>0, <2>1, <2>6, <2>7 DEF Prefix
    <2>10. CopySize' = CopySize /\ vec'[That].size <= CopySize
      BY <1>1, <2>1, <2>2, <2>6, <2>7 DEF CopySize
    <2>11. WhileCopying'
      BY <1>0, <2>1, <2>7, <2>9, <2>10 DEF WhileCopying
    <2> QED
      BY <1>0, <2>1, <2>8, <2>11, CallGoesOn
  <1>3. CASE CopyThrows
    <2>1. /\ phase' = "drop" /\ threw' /\ UNCHANGED <<vec, born, call, goal>>
          /\ call.op # "replace" /\ call.op # "construct"
      BY <1>3 DEF CopyThrows, Goto, Unborn, CarefulUser, Pitfalls
    <2>2. OthersHeld' /\ UnbornEmpty' /\ GoalIsSource'
      BY <1>0, <2>1, OthersKept
    <2>3. Prefix(self)' /\ self' = self
      BY <1>0, <2>1 DEF Prefix, self
    <2>4. WhileDropping'
      BY <1>0, <2>1, <2>3 DEF WhileDropping
    <2> QED
      BY <2>1, <2>2, <2>4, CallGoesOn
  <1>4. CASE CopyEnds
    <2>1. /\ vec' = [vec EXCEPT ![call.v] = t, ![That] = self] /\ t.size >= CopySize
          /\ phase' = "drop" /\ UNCHANGED <<born, call, threw, goal>>
      BY <1>4 DEF CopyEnds, Goto
    <2>2. self' = t /\ \A x \in Vectors \ {call.v} : vec'[x] = vec[x]
      BY <1>1, <2>1 DEF self
    <2>3. OthersHeld' /\ UnbornEmpty' /\ GoalIsSource'
      BY <1>0, <2>1, <2>2, OthersKept
    <2>4. Prefix(self)'
      BY <1>0, <2>1, <2>2 DEF Prefix
    <2>5. self'.size = CopySize
      BY <1>0, <1>1, <2>1, <2>2 DEF CopySize
    <2>6. WhileDropping'
      BY <1>0, <2>1, <2>4, <2>5 DEF WhileDropping, CopySize
    <2> QED
      BY <2>1, <2>3, <2>6, CallGoesOn
  <1> QED
    BY <1>2, <1>3, <1>4

\* "that" goes out of scope.
LEMMA DroppingPromised ==
    ASSUME CarefulUser, ElementsAssumption, VInv, Promised, DropNext \/ DropEnds
    PROVE  Promised'
  <1>0. /\ phase = "drop" /\ call.op # "fill" /\ (threw => call.op # "construct")
        /\ Prefix(self)
        /\ call.op = "push" => self.size = call.n - 1
        /\ call.op = "reserve" => self.size = call.n
        /\ call.op # "move" /\ goal[call.v] = call.src
    BY DEF DropNext, DropEnds, Promised, WhileDropping, GoalIsSource
  <1>1. /\ call.v \in Vectors /\ call.v \in born /\ call.v # That /\ That \notin Vectors
        /\ vec = [x \in Vectors \cup {That} |-> vec[x]]
        /\ self.size \in Nat
        /\ call.n \in Nat /\ call.src \in [0..(call.n - 1) -> Values]
    BY <1>0, CallKnows
  <1>2. /\ \A x \in Vectors : vec'[x] = vec[x]
        /\ UNCHANGED <<born, call, threw, goal>>
    BY <1>1 DEF DropNext, DestroyNext, DropEnds, Free
  <1>3. self' = self /\ OthersHeld' /\ UnbornEmpty' /\ GoalIsSource'
    BY <1>0, <1>1, <1>2, OthersKept DEF self
  <1>4. Prefix(self)'
    BY <1>0, <1>2, <1>3 DEF Prefix
  <1>5. CASE DropNext
    <2>1. phase' = "drop" /\ WhileDropping'
      BY <1>0, <1>2, <1>3, <1>4, <1>5 DEF DropNext, DestroyNext, WhileDropping
    <2> QED
      BY <1>3, <2>1, CallGoesOn
  <1>6. CASE DropEnds /\ threw
    <2>1. phase' = "idle"
      BY <1>0, <1>6 DEF DropEnds, Goto
    <2>2. Contents(call.v)' = Elems(self)
      BY <1>2, <1>3 DEF Contents, self, Elems
    <2>3. call.op = "reserve" => Contents(call.v)' = goal'[call.v]
      BY <1>0, <1>1, <1>2, <2>2, PrefixHolds
    <2>4. call.op = "push" => Contents(call.v)' = Sized(goal'[call.v], call.n - 1, Default)
      BY <1>0, <1>1, <1>2, <2>2, PrefixHolds
    <2> QED
      BY <1>2, <1>3, <1>6, <2>1, <2>3, <2>4, CallThrows
  <1>7. CASE DropEnds /\ ~threw
    <2>1. phase' = "append"
      BY <1>0, <1>7 DEF DropEnds, Goto
    <2>2. WhileAppending'
      BY <1>0, <1>1, <1>2, <1>3, <1>4, <1>7 DEF WhileAppending
    <2> QED
      BY <1>3, <2>1, <2>2, CallGoesOn
  <1> QED
    BY <1>5, <1>6, <1>7, <1>0 DEF VInv, TypeOK

\* The loop that assigns to elements that are there.
LEMMA OverwritingPromised ==
    ASSUME CarefulUser, ElementsAssumption, VInv, Promised,
           Overwrite \/ OverwriteThrows \/ OverwriteEnds
    PROVE  Promised'
  <1>0. /\ phase = "overwrite" /\ ~threw
        /\ \A i \in 0..(ix - 1) : self.slot[i] = call.src[i]
        /\ call.op = "fill" => self.size = call.n
        /\ call.op # "move" /\ goal[call.v] = call.src
        /\ ix <= self.size /\ call.op \in {"assign", "fill"}
        /\ call.op = "assign" => self.size <= call.n
    BY DEF Overwrite, OverwriteThrows, OverwriteEnds, Overwrites, Promised, WhileOverwriting,
        GoalIsSource, VInv, CallAgrees
  <1>1. /\ call.v \in Vectors /\ call.v \in born /\ call.v # That
        /\ vec = [x \in Vectors \cup {That} |-> vec[x]]
        /\ IsVector(self) /\ self.size \in Nat /\ self.cap \in Nat /\ self.size <= self.cap
        /\ call.n \in Nat /\ call.src \in [0..(call.n - 1) -> Values] /\ ix \in Nat
    BY <1>0, CallKnows
  <1>2. CASE Overwrite
    <2>1. vec' = [vec EXCEPT ![call.v] = Put(self, ix, call.src[ix])] /\ ix < self.size
          /\ ix' = ix + 1 /\ UNCHANGED <<born, phase, call, threw, goal>>
      BY <1>2 DEF Overwrite, Overwrites, self
    <2>2. self' = Put(self, ix, call.src[ix])
          /\ \A x \in Vectors \ {call.v} : vec'[x] = vec[x]
      BY <1>1, <2>1 DEF self
    <2>3. OthersHeld' /\ UnbornEmpty' /\ GoalIsSource'
      BY <1>0, <2>1, <2>2, OthersKept
    <2>4. self = [cap |-> self.cap, size |-> self.size, slot |-> self.slot]
          /\ self.slot \in [0..(self.cap - 1) -> Values \cup {Raw}]
      BY <1>1 DEF IsVector
    <2>5. self'.size = self.size /\ self'.slot = [self.slot EXCEPT ![ix] = call.src[ix]]
      BY <2>2, <2>4 DEF Put
    <2>6. \A i \in 0..ix : self'.slot[i] = call.src[i]
      BY <1>0, <1>1, <2>1, <2>4, <2>5
    <2>7. WhileOverwriting'
      BY <1>0, <1>1, <2>1, <2>5, <2>6 DEF WhileOverwriting
    <2> QED
      BY <1>0, <2>1, <2>3, <2>7, CallGoesOn
  <1>3. CASE OverwriteThrows
    <2>1. phase' = "idle" /\ threw' /\ UNCHANGED <<vec, born, call, goal>>
      BY <1>3 DEF OverwriteThrows, Leave, Goto
    <2>2. OthersHeld' /\ UnbornEmpty'
      BY <1>0, <2>1, OthersKept
    <2> QED
      BY <1>0, <2>1, <2>2, CallThrows
  <1>4. CASE OverwriteEnds
    <2>1. ix = self.size /\ UNCHANGED <<born, call, threw, goal>>
      BY <1>0, <1>1, <1>4 DEF OverwriteEnds
    <2>2. Prefix(self)
      BY <1>0, <1>1, <2>1 DEF Prefix
    <2>3. CASE call.op = "assign" /\ vec' = [vec EXCEPT ![call.v].size = ix]
               /\ Goto("append", 0)
      <3>1. self' = self /\ \A x \in Vectors \ {call.v} : vec'[x] = vec[x]
        <4>1. [self EXCEPT !.size = ix] = self
          BY <1>1, <2>1 DEF IsVector
        <4> QED
          BY <1>1, <2>1, <2>3, <4>1 DEF self
      <3>2. OthersHeld' /\ UnbornEmpty' /\ GoalIsSource'
        BY <1>0, <2>1, <3>1, OthersKept
      <3>3. Prefix(self)'
        BY <2>1, <2>2, <3>1 DEF Prefix
      <3>4. phase' = "append" /\ WhileAppending'
        BY <1>0, <2>1, <2>3, <3>3 DEF Goto, WhileAppending
      <3> QED
        BY <3>2, <3>4, CallGoesOn
    <2>4. CASE call.op = "fill" /\ Goto("idle", 0) /\ UNCHANGED vec
      <3>1. OthersHeld' /\ UnbornEmpty' /\ GoalIsSource'
        BY <1>0, <2>1, <2>4, OthersKept
      <3>2. Contents(call.v)' = goal'[call.v]
        BY <1>0, <1>1, <2>1, <2>2, <2>4, PrefixHolds DEF Contents, Elems, self
      <3> QED
        BY <1>0, <2>1, <2>4, <3>1, <3>2, CallReturns DEF Goto
    <2> QED
      BY <1>4, <2>3, <2>4 DEF OverwriteEnds
  <1> QED
    BY <1>2, <1>3, <1>4


\* A vector without elements holds what a call for none is for.
LEMMA NothingHeld ==
    ASSUME NEW x, x.size = 0, NEW f \in [0..(0 - 1) -> Values]
    PROVE  Elems(x) = f /\ Elems(x) = Elems(Empty)
  <1>1. Elems(x) = [i \in {} |-> Raw] /\ Elems(Empty) = [i \in {} |-> Raw]
    BY DEF Elems, Empty, make_new_storage
  <1>2. f = [i \in {} |-> Raw]
    OBVIOUS
  <1> QED
    BY <1>1, <1>2

\* The loop of clear, and what assignments do after it.
LEMMA ClearingPromised ==
    ASSUME CarefulUser, ElementsAssumption, VInv, Promised, ClearNext \/ ClearEnds
    PROVE  Promised'
  <1>0. /\ phase = "clear" /\ ~threw /\ (call.op \notin {"copy", "move"} => call.n = 0)
        /\ call.op # "move" => goal[call.v] = call.src
        /\ call.op = "move" => /\ goal[call.v] = Contents(call.w)
                               /\ goal[call.w] = Elems(Empty)
                               /\ call.w \in Vectors /\ call.w # call.v
    BY DEF ClearNext, ClearEnds, Promised, WhileClearing, GoalIsSource, VInv, CallAgrees
  <1>1. /\ call.v \in Vectors /\ call.v \in born /\ call.v # That /\ born \subseteq Vectors
        /\ vec = [x \in Vectors \cup {That} |-> vec[x]]
        /\ self.size \in Nat
        /\ call.n \in Nat /\ call.src \in [0..(call.n - 1) -> Values]
    BY <1>0, CallKnows
  <1>2. CASE ClearNext
    <2>1. vec' = [vec EXCEPT ![call.v] = DestroyLast(self)]
          /\ UNCHANGED <<born, phase, call, threw, goal>>
      BY <1>2 DEF ClearNext, self
    <2>2. \A x \in Vectors \ {call.v} : vec'[x] = vec[x]
      BY <1>1, <2>1
    <2>3. OthersHeld' /\ UnbornEmpty' /\ GoalIsSource'
      BY <1>0, <2>1, <2>2, OthersKept
    <2>4. WhileClearing'
      BY <1>0, <2>1 DEF WhileClearing
    <2> QED
      BY <1>0, <2>1, <2>3, <2>4, CallGoesOn
  <1>3. CASE ClearEnds
    <2>1. self.size = 0 /\ UNCHANGED <<born, call, threw, goal>>
      BY <1>3 DEF ClearEnds
    <2>2. CASE call.op \notin {"copy", "move"} /\ Goto("idle", 0) /\ UNCHANGED vec
      <3>1. OthersHeld' /\ UnbornEmpty'
        BY <1>0, <2>1, <2>2, OthersKept
      <3>2. Elems(self) = call.src
        BY <1>0, <1>1, <2>1, <2>2, NothingHeld
      <3>3. Contents(call.v)' = goal'[call.v]
        BY <1>0, <2>1, <2>2, <3>2 DEF Contents, Elems, self
      <3> QED
        BY <1>0, <2>1, <2>2, <3>1, <3>3, CallReturns DEF Goto
    <2>3. CASE call.op = "copy" /\ call.n = 0 /\ vec' = [vec EXCEPT ![call.v] = Empty]
               /\ Goto("idle", 0)
      <3>1. vec'[call.v] = Empty /\ \A x \in Vectors \ {call.v} : vec'[x] = vec[x]
        BY <1>1, <2>1, <2>3
      <3>2. OthersHeld' /\ UnbornEmpty'
        BY <1>0, <2>1, <2>3, <3>1, OthersKept
      <3>3. Elems(Empty) = call.src
        BY <1>1, <2>3, NothingHeld DEF Empty, make_new_storage
      <3>4. Contents(call.v)' = Elems(Empty)
        BY <2>1, <3>1 DEF Contents, Elems
      <3>5. Contents(call.v)' = goal'[call.v]
        BY <1>0, <2>1, <2>3, <3>3, <3>4
      <3> QED
        BY <1>0, <2>1, <2>3, <3>2, <3>5, CallReturns DEF Goto
    <2>4. CASE /\ call.op = "copy" /\ Goto("append", 0)
               /\ IF self.cap < call.n THEN Restore(call.v, call.n) ELSE UNCHANGED <<vec, faults>>
      <3>1. self'.size = 0 /\ \A x \in Vectors \ {call.v} : vec'[x] = vec[x]
        <4>1. CASE self.cap < call.n
          <5>1. vec' = [vec EXCEPT ![call.v] = make_new_storage(call.n)]
            BY <2>4, <4>1 DEF Restore
          <5>2. self' = make_new_storage(call.n) /\ \A x \in Vectors \ {call.v} : vec'[x] = vec[x]
            BY <1>1, <2>1, <5>1 DEF self
          <5> QED
            BY <5>2 DEF make_new_storage
        <4>2. CASE ~(self.cap < call.n)
          BY <2>1, <2>4, <4>2 DEF self
        <4> QED
          BY <4>1, <4>2
      <3>2. OthersHeld' /\ UnbornEmpty' /\ GoalIsSource'
        BY <1>0, <2>1, <2>4, <3>1, OthersKept
      <3>3. Prefix(self)'
        BY <1>1, <2>1, <3>1 DEF Prefix
      <3>4. phase' = "append" /\ WhileAppending'
        BY <1>0, <2>1, <2>4, <3>3 DEF Goto, WhileAppending
      <3> QED
        BY <3>2, <3>4, CallGoesOn
    <2>5. CASE /\ call.op = "move" /\ Goto("idle", 0)
               /\ vec' = [vec EXCEPT ![call.v] = vec[call.w], ![call.w] = Empty]
      <3>1. /\ vec'[call.v] = vec[call.w] /\ vec'[call.w] = Empty
            /\ \A x \in Vectors \ {call.v, call.w} : vec'[x] = vec[x]
        BY <1>0, <1>1, <2>5
      <3>2. UnbornEmpty'
        BY <1>0, <1>1, <2>1, <3>1 DEF Promised, UnbornEmpty, Empty, make_new_storage
      <3>3. \A x \in born \ {call.v, call.w} : Contents(x)' = goal[x]
        BY <1>1, <3>1 DEF Promised, OthersHeld, StillToMove, Contents, Elems
      <3>4. Contents(call.w)' = goal[call.w]
        BY <1>0, <2>1, <2>5, <3>1 DEF Contents, Elems, Empty, make_new_storage
      <3>5. OthersHeld'
        BY <2>1, <3>3, <3>4 DEF OthersHeld
      <3>6. Contents(call.v)' = goal'[call.v]
        <4>1. Contents(call.v)' = Contents(call.w)
          BY <2>1, <3>1 DEF Contents, Elems
        <4> QED
          BY <1>0, <2>1, <2>5, <4>1
      <3> QED
        BY <1>0, <2>1, <2>5, <3>2, <3>5, <3>6, CallReturns DEF Goto
    <2> QED
      BY <1>3, <2>2, <2>3, <2>4, <2>5 DEF ClearEnds
  <1> QED
    BY <1>2, <1>3

\* ~vector
LEMMA DestroyingPromised ==
    ASSUME CarefulUser, ElementsAssumption, VInv, Promised, DestructorNext \/ DestructorEnds
    PROVE  Promised'
  <1>0. /\ phase = "destroy" /\ ~threw /\ (call.op \notin {"copy", "move"} => call.n = 0)
        /\ call.op # "move"
    BY DEF DestructorNext, DestructorEnds, Promised, WhileClearing, GoalIsSource
  <1>1. /\ call.v \in Vectors /\ call.v \in born /\ born \subseteq Vectors
        /\ vec = [x \in Vectors \cup {That} |-> vec[x]]
    BY <1>0, CallKnows
  <1>2. /\ \A x \in Vectors \ {call.v} : vec'[x] = vec[x]
        /\ UNCHANGED <<call, threw, goal>>
    BY <1>1 DEF DestructorNext, DestroyNext, DestructorEnds, Free
  <1>3. CASE DestructorNext
    <2>1. phase' = phase /\ born' = born
      BY <1>3 DEF DestructorNext, DestroyNext
    <2>2. OthersHeld' /\ UnbornEmpty' /\ GoalIsSource'
      BY <1>0, <1>2, <2>1, OthersKept
    <2>3. WhileClearing'
      BY <1>0, <1>2, <2>1 DEF WhileClearing
    <2> QED
      BY <1>0, <2>1, <2>2, <2>3, CallGoesOn
  <1>4. CASE DestructorEnds
    <2>1. phase' = "idle" /\ born' = born \ {call.v} /\ vec' = [vec EXCEPT ![call.v] = Empty]
      BY <1>4 DEF DestructorEnds, Free, Goto
    <2>2. vec'[call.v].size = 0
      BY <1>1, <2>1 DEF Empty, make_new_storage
    <2>3. UnbornEmpty'
      BY <1>2, <2>1, <2>2 DEF Promised, UnbornEmpty
    <2>4. OthersHeld'
      <3>1. \A x \in born \ {call.v} : Contents(x) = goal[x]
        BY <1>0 DEF Promised, OthersHeld, StillToMove
      <3>2. \A x \in born \ {call.v} : Contents(x)' = Contents(x)
        BY <1>1, <1>2 DEF Contents, Elems
      <3> QED
        BY <1>2, <2>1, <3>1, <3>2 DEF OthersHeld
    <2> QED
      BY <1>0, <1>2, <2>1, <2>3, <2>4, CallReturns
  <1> QED
    BY <1>3, <1>4

----------------------------------------------------------------------------
(* Calls.                                                                  *)

\* A call that moves nothing to another vector begins.
LEMMA CallBegins ==
    ASSUME CarefulUser, ElementsAssumption, VInv, Promised, phase = "idle", NEW v \in Vectors,
           NEW op \in Ops \ {"move"}, NEW w, NEW n, NEW src, NEW ph, NEW i,
           Begin(op, v, w, n, src, ph, i), WithGoal(v, src), born' = born \cup {v},
           \A x \in Vectors \ {v} : vec'[x] = vec[x]
    PROVE  /\ OthersHeld' /\ UnbornEmpty' /\ GoalIsSource'
           /\ call' = [op |-> op, v |-> v, w |-> w, n |-> n, src |-> src]
           /\ phase' = ph /\ ix' = i /\ ~threw' /\ goal'[v] = src
           /\ self' = vec'[v]
  <1>0. /\ call' = [op |-> op, v |-> v, w |-> w, n |-> n, src |-> src]
        /\ phase' = ph /\ ix' = i /\ ~threw' /\ born \subseteq Vectors
        /\ goal' = [x \in Vectors |-> IF x = v THEN src ELSE Contents(x)]
    BY DEF Begin, WithGoal, VInv, TypeOK
  <1>1. OthersHeld'
    <2>1. \A x \in Vectors \ {v} : Contents(x)' = goal'[x]
      BY <1>0 DEF Contents, Elems
    <2> QED
      BY <1>0, <2>1 DEF OthersHeld
  <1>2. UnbornEmpty'
    BY <1>0 DEF Promised, UnbornEmpty
  <1>3. GoalIsSource' /\ goal'[v] = src /\ self' = vec'[v]
    BY <1>0 DEF GoalIsSource, self
  <1> QED
    BY <1>0, <1>1, <1>2, <1>3


\* A call that is over at once.
LEMMA CallAtOnce ==
    ASSUME phase' = "idle", ~threw', UnbornEmpty', \A x \in born' : Contents(x)' = goal'[x]
    PROVE  Promised'
  BY DEF Promised, WhileAppending, WhileCopying, WhileDropping, WhileOverwriting, WhileClearing,
      OutcomeAsPromised, OthersHeld, GoalIsSource

\* What a vector holds is the beginning of it with further elements.
LEMMA SizedBegins ==
    ASSUME NEW x, x.size \in Nat, NEW n \in Nat, x.size <= n, NEW e
    PROVE  /\ \A i \in 0..(x.size - 1) : Sized(Elems(x), n, e)[i] = x.slot[i]
           /\ \A i \in x.size..(n - 1) : Sized(Elems(x), n, e)[i] = e
  BY DEF Sized, Elems

\* Constructors.
LEMMA ConstructorPromised ==
    ASSUME CarefulUser, ElementsAssumption, VInv, Promised, NEW v \in Vectors,
           \/ \E n \in 0..MaxSize, val \in Values : ConstructN(v, n, val)
           \/ \E f \in Ranges : ConstructRange(v, f)
           \/ \E w \in Vectors : ConstructCopy(v, w) \/ ConstructMove(v, w)
    PROVE  Promised'
  <1>0. vec = [x \in Vectors \cup {That} |-> vec[x]] /\ That \notin Vectors /\ born \subseteq Vectors
    BY DEF VInv, TypeOK, CarefulUser, VectorAssumption
  <1>1. ASSUME NEW w, NEW n \in Nat, NEW src, phase = "idle",
               Begin("construct", v, w, n, src, "append", 0), WithGoal(v, src),
               born' = born \cup {v}, vec'[v].size = 0, \A x \in Vectors \ {v} : vec'[x] = vec[x]
        PROVE  Promised'
    <2>1. /\ OthersHeld' /\ UnbornEmpty' /\ GoalIsSource' /\ phase' = "append" /\ ~threw'
          /\ call' = [op |-> "construct", v |-> v, w |-> w, n |-> n, src |-> src]
          /\ self' = vec'[v]
      BY <1>1, CallBegins DEF Ops
    <2>2. Prefix(self)'
      BY <1>1, <2>1 DEF Prefix
    <2>3. WhileAppending'
      BY <2>1, <2>2 DEF WhileAppending
    <2> QED
      BY <2>1, <2>3, CallGoesOn
  <1>2. CASE \E n \in 0..MaxSize, val \in Values : ConstructN(v, n, val)
    <2>1. PICK n \in 0..MaxSize, val \in Values : ConstructN(v, n, val)
      BY <1>2
    <2>2. phase = "idle" /\ vec'[v].size = 0 /\ n \in Nat
          /\ \A x \in Vectors \ {v} : vec'[x] = vec[x]
      BY <1>0, <2>1 DEF ConstructN, Begin, make_new_storage
    <2> QED
      BY <1>1, <2>1, <2>2 DEF ConstructN
  <1>3. CASE \E f \in Ranges : ConstructRange(v, f)
    <2>1. PICK f \in Ranges : ConstructRange(v, f)
      BY <1>3
    <2>2. phase = "idle" /\ vec'[v].size = 0 /\ Count(f) \in Nat
          /\ \A x \in Vectors \ {v} : vec'[x] = vec[x]
      BY <2>1, RangeCounted DEF ConstructRange, Begin, Promised, UnbornEmpty
    <2> QED
      BY <1>1, <2>1, <2>2 DEF ConstructRange
  <1>4. CASE \E w \in Vectors : ConstructCopy(v, w)
    <2>1. PICK w \in Vectors : ConstructCopy(v, w)
      BY <1>4
    <2>2. phase = "idle" /\ vec'[v].size = 0
          /\ \A x \in Vectors \ {v} : vec'[x] = vec[x]
      BY <1>0, <2>1 DEF ConstructCopy, Begin, make_new_storage
    <2>3. vec[w].size \in Nat
      BY <2>2, BetweenCalls
    <2> QED
      BY <1>1, <2>1, <2>2, <2>3 DEF ConstructCopy
  <1>5. CASE \E w \in Vectors : ConstructMove(v, w)
    <2>1. PICK w \in Vectors : ConstructMove(v, w)
      BY <1>5
    <2>2. /\ phase' = "idle" /\ ~threw' /\ v # w /\ born' = born \cup {v} /\ w \in born
          /\ vec' = [vec EXCEPT ![v] = vec[w], ![w] = Empty]
          /\ goal' = [x \in Vectors |-> IF x = v THEN Contents(w)
                                        ELSE IF x = w THEN Elems(Empty) ELSE Contents(x)]
      BY <2>1 DEF ConstructMove, Begin
    <2>3. /\ vec'[v] = vec[w] /\ vec'[w] = Empty
          /\ \A x \in Vectors \ {v, w} : vec'[x] = vec[x]
      BY <1>0, <2>2
    <2>4. UnbornEmpty'
      BY <2>2, <2>3 DEF Promised, UnbornEmpty
    <2>5. \A x \in Vectors : Contents(x)' = goal'[x]
      <3>1. /\ Contents(v)' = Contents(w) /\ Contents(w)' = Elems(Empty)
            /\ \A x \in Vectors \ {v, w} : Contents(x)' = Contents(x)
        BY <2>3 DEF Contents, Elems, Empty, make_new_storage
      <3> QED
        BY <2>2, <3>1
    <2> QED
      BY <1>0, <2>2, <2>4, <2>5, CallAtOnce
  <1> QED
    BY <1>2, <1>3, <1>4, <1>5

\* Calls that start with a loop over the vector as it is.
LEMMA LoopCallPromised ==
    ASSUME CarefulUser, ElementsAssumption, VInv, Promised, NEW v \in Vectors,
           \/ Destroy(v) \/ clear(v)
           \/ \E w \in Vectors : AssignCopy(v, w) \/ AssignMove(v, w)
           \/ \E f \in Ranges : AssignRange(v, f)
           \/ \E val \in Values : push_back(v, val)
           \/ \E i \in 0..(MaxSize - 1) : PushBackOwn(v, i)
    PROVE  Promised'
  <1>0. Elems(Empty) = Repeat(0, Default)
    BY DEF Elems, Empty, make_new_storage, Repeat
  <1>1. ASSUME NEW op \in {"destroy", "clear", "copy"}, NEW w, NEW n, NEW src,
               NEW ph \in {"destroy", "clear"}, op # "copy" => n = 0,
               phase = "idle", Begin(op, v, w, n, src, ph, 0), WithGoal(v, src),
               born' = born \cup {v}, UNCHANGED vec
        PROVE  Promised'
    <2>1. /\ OthersHeld' /\ UnbornEmpty' /\ GoalIsSource' /\ phase' = ph /\ ~threw'
          /\ call' = [op |-> op, v |-> v, w |-> w, n |-> n, src |-> src]
      BY <1>1, CallBegins DEF Ops
    <2>2. WhileClearing'
      BY <1>1, <2>1 DEF WhileClearing
    <2> QED
      BY <1>1, <2>1, <2>2, CallGoesOn
  <1>2. CASE Destroy(v)
    <2>1. phase = "idle" /\ Begin("destroy", v, v, 0, Repeat(0, Default), "destroy", 0)
          /\ WithGoal(v, Repeat(0, Default)) /\ born' = born \cup {v} /\ UNCHANGED vec
      BY <1>0, <1>2 DEF Destroy, Begin
    <2> QED
      BY <1>1, <2>1
  <1>3. CASE clear(v)
    <2>1. phase = "idle" /\ Begin("clear", v, v, 0, Repeat(0, Default), "clear", 0)
          /\ WithGoal(v, Repeat(0, Default)) /\ born' = born \cup {v} /\ UNCHANGED vec
      BY <1>3 DEF clear, Begin
    <2> QED
      BY <1>1, <2>1
  <1>4. CASE \E w \in Vectors : AssignCopy(v, w)
    <2>1. PICK w \in Vectors : AssignCopy(v, w)
      BY <1>4
    <2>2. phase = "idle" /\ Begin("copy", v, w, vec[w].size, Contents(w), "clear", 0)
          /\ WithGoal(v, Contents(w)) /\ born' = born \cup {v} /\ UNCHANGED vec
      BY <2>1 DEF AssignCopy, Begin
    <2> QED
      BY <1>1, <2>2
  <1>5. CASE \E w \in Vectors : AssignMove(v, w)
    <2>1. PICK w \in Vectors : AssignMove(v, w)
      BY <1>5
    <2>2. /\ phase' = "clear" /\ ~threw' /\ v # w /\ UNCHANGED <<vec, born>>
          /\ call' = [op |-> "move", v |-> v, w |-> w, n |-> 0, src |-> Repeat(0, Default)]
          /\ goal' = [x \in Vectors |-> IF x = v THEN Contents(w)
                                        ELSE IF x = w THEN Elems(Empty) ELSE Contents(x)]
          /\ born \subseteq Vectors
      BY <2>1 DEF AssignMove, Begin, VInv, TypeOK
    <2>3. \A x \in Vectors : Contents(x)' = Contents(x)
      BY <2>2 DEF Contents, Elems
    <2>4. UnbornEmpty'
      BY <2>2 DEF Promised, UnbornEmpty
    <2>5. OthersHeld'
      BY <2>2, <2>3 DEF OthersHeld, StillToMove
    <2>6. GoalIsSource'
      <3>1. Elems(Empty)' = Elems(Empty)
        BY DEF Elems, Empty, make_new_storage
      <3> QED
        BY <2>2, <2>3, <3>1 DEF GoalIsSource
    <2>7. WhileClearing'
      BY <2>2 DEF WhileClearing
    <2> QED
      BY <2>2, <2>4, <2>5, <2>6, <2>7, CallGoesOn
  <1>6. CASE \E f \in Ranges : AssignRange(v, f)
    <2>1. PICK f \in Ranges : AssignRange(v, f)
      BY <1>6
    <2>2. phase = "idle" /\ Begin("assign", v, v, Count(f), f, "overwrite", 0)
          /\ WithGoal(v, f) /\ born' = born \cup {v} /\ UNCHANGED vec
      BY <2>1 DEF AssignRange, Begin
    <2>3. /\ OthersHeld' /\ UnbornEmpty' /\ GoalIsSource' /\ phase' = "overwrite" /\ ~threw'
          /\ call'.op = "assign" /\ ix' = 0
      BY <2>2, CallBegins DEF Ops
    <2>4. WhileOverwriting'
      BY <2>3 DEF WhileOverwriting
    <2> QED
      BY <2>3, <2>4, CallGoesOn
  <1>7. ASSUME NEW e, phase = "idle",
               Begin("push", v, v, vec[v].size + 1, Sized(Contents(v), vec[v].size + 1, e),
                     "append", 0),
               WithGoal(v, Sized(Contents(v), vec[v].size + 1, e)), born' = born \cup {v},
               UNCHANGED vec
        PROVE  Promised'
    <2>1. PICK n, src : n = vec[v].size + 1 /\ src = Sized(Contents(v), n, e)
      OBVIOUS
    <2>2. vec[v].size \in Nat
      BY <1>7, BetweenCalls
    <2>3. /\ OthersHeld' /\ UnbornEmpty' /\ GoalIsSource' /\ phase' = "append" /\ ~threw'
          /\ call' = [op |-> "push", v |-> v, w |-> v, n |-> n, src |-> src]
          /\ self' = vec[v]
      BY <1>7, <2>1, CallBegins DEF Ops
    <2>4. \A i \in 0..(vec[v].size - 1) : src[i] = vec[v].slot[i]
      <3>1. n \in Nat /\ vec[v].size <= n
        BY <2>1, <2>2
      <3>2. \A i \in 0..(vec[v].size - 1) : Sized(Elems(vec[v]), n, e)[i] = vec[v].slot[i]
        BY <2>2, <3>1, SizedBegins
      <3> QED
        BY <2>1, <3>2 DEF Contents
    <2>5. Prefix(self)'
      BY <2>1, <2>2, <2>3, <2>4 DEF Prefix
    <2>6. WhileAppending'
      BY <2>1, <2>2, <2>3, <2>5 DEF WhileAppending
    <2> QED
      BY <2>3, <2>6, CallGoesOn
  <1>8. CASE \E val \in Values : push_back(v, val)
    BY <1>7, <1>8 DEF push_back, Begin
  <1>9. CASE \E i \in 0..(MaxSize - 1) : PushBackOwn(v, i)
    BY <1>7, <1>9 DEF PushBackOwn, Begin, OwnElement
  <1> QED
    BY <1>2, <1>3, <1>4, <1>5, <1>6, <1>8, <1>9


\* Calls that may need other storage.
LEMMA StorageCallPromised ==
    ASSUME CarefulUser, ElementsAssumption, VInv, Promised, NEW v \in Vectors,
           \/ shrink_to_fit(v)
           \/ \E n \in 0..MaxSize : resize(v, n)
           \/ \E n \in 0..(MaxSize + 1) : reserve(v, n)
           \/ \E n \in 0..MaxSize, val \in Values : AssignN(v, n, val)
    PROVE  Promised'
  <1>0. /\ phase = "idle" /\ v \in born /\ born' = born
        /\ That \notin Vectors /\ vec = [x \in Vectors \cup {That} |-> vec[x]]
        /\ vec[v].size \in Nat /\ vec[v].cap \in Nat /\ vec[v].size <= vec[v].cap
        /\ MaxSize \in Nat
    <2>1. phase = "idle" /\ v \in born /\ born' = born
      BY DEF shrink_to_fit, resize, reserve, AssignN, BeginReserve, Begin
    <2> QED
      BY <2>1, BetweenCalls
  \* A call that needs other storage.
  <1>1. ASSUME NEW op \in {"replace", "resize", "reserve"}, NEW n \in Nat, NEW src, NEW m,
               Begin(op, v, v, n, src, "copy", 0), WithGoal(v, src),
               vec' = [vec EXCEPT ![That] = make_new_storage(m)],
               op # "replace" => /\ vec[v].size <= n
                                 /\ \A i \in 0..(vec[v].size - 1) : src[i] = vec[v].slot[i],
               op = "resize" => \A i \in vec[v].size..(n - 1) : src[i] = Default,
               op = "reserve" => vec[v].size = n
        PROVE  Promised'
    <2>1. vec'[That].size = 0 /\ \A x \in Vectors : vec'[x] = vec[x]
      BY <1>0, <1>1 DEF make_new_storage
    <2>2. /\ OthersHeld' /\ UnbornEmpty' /\ GoalIsSource' /\ phase' = "copy" /\ ~threw'
          /\ call' = [op |-> op, v |-> v, w |-> v, n |-> n, src |-> src]
          /\ self' = vec[v]
      BY <1>0, <1>1, <2>1, CallBegins DEF Ops
    <2>3. Prefix(vec[That])' /\ vec'[That].size <= CopySize'
      BY <1>0, <1>1, <2>1, <2>2 DEF Prefix, CopySize
    <2>4. op # "replace" => Prefix(self)'
      BY <1>1, <2>2 DEF Prefix
    <2>5. WhileCopying'
      BY <1>1, <2>2, <2>3, <2>4 DEF WhileCopying
    <2> QED
      BY <2>2, <2>5, CallGoesOn
  \* A call that changes the vector's size in the storage it has.
  <1>2. ASSUME NEW op \in {"fill", "resize"}, NEW n \in Nat, NEW src, NEW ph,
               Begin(op, v, v, n, src, ph, vec[v].size), WithGoal(v, src), UNCHANGED vec,
               n <= vec[v].cap, n = 0 \/ vec[v].size <= n, ph = Resizing(n, vec[v].size),
               op = "resize" /\ vec[v].size <= n =>
                   \A i \in 0..(vec[v].size - 1) : src[i] = vec[v].slot[i]
        PROVE  Promised'
    <2>1. /\ OthersHeld' /\ UnbornEmpty' /\ GoalIsSource' /\ phase' = ph /\ ~threw'
          /\ call' = [op |-> op, v |-> v, w |-> v, n |-> n, src |-> src]
          /\ self' = vec[v]
      BY <1>0, <1>2, CallBegins DEF Ops
    <2>2. CASE vec[v].size <= n
      <3>1. ph = "append"
        BY <1>2, <2>2 DEF Resizing
      <3>2. op = "resize" => Prefix(self)'
        BY <1>2, <2>1, <2>2 DEF Prefix
      <3>3. WhileAppending'
        BY <1>2, <2>1, <2>2, <3>2 DEF WhileAppending
      <3> QED
        BY <2>1, <3>1, <3>3, CallGoesOn
    <2>3. CASE ~(vec[v].size <= n)
      <3>1. ph = "clear" /\ n = 0
        BY <1>2, <2>3 DEF Resizing
      <3>2. WhileClearing'
        BY <2>1, <3>1 DEF WhileClearing
      <3> QED
        BY <2>1, <3>1, <3>2, CallGoesOn
    <2> QED
      BY <2>2, <2>3
  <1>3. CASE \E n \in 0..MaxSize, val \in Values : AssignN(v, n, val)
    <2>1. PICK n \in 0..MaxSize, val \in Values : AssignN(v, n, val)
      BY <1>3
    <2>2. PICK src : src = Repeat(n, val)
      OBVIOUS
    <2>3. CASE /\ Begin("replace", v, v, n, src, "copy", 0) /\ WithGoal(v, src)
               /\ vec' = [vec EXCEPT ![That] = make_new_storage(n)]
      <3>1. n \in Nat
        BY <1>0
      <3> QED
        BY <1>1, <2>3, <3>1
    <2>4. CASE /\ Begin("fill", v, v, n, src, Resizing(n, vec[v].size), vec[v].size)
               /\ WithGoal(v, src) /\ n <= vec[v].cap /\ UNCHANGED vec
               /\ n = 0 \/ vec[v].size <= n
      <3>1. n \in Nat
        BY <1>0
      <3> QED
        BY <1>2, <2>4, <3>1
    <2> QED
      BY <2>1, <2>2, <2>3, <2>4 DEF AssignN, CarefulUser, Pitfalls
  <1>4. CASE \E n \in 0..MaxSize : resize(v, n)
    <2>1. PICK n \in 0..MaxSize : resize(v, n)
      BY <1>4
    <2>2. PICK src : src = Sized(Contents(v), n, Default)
      OBVIOUS
    <2>3. n \in Nat
      BY <1>0
    <2>4. vec[v].size <= n =>
              /\ \A i \in 0..(vec[v].size - 1) : src[i] = vec[v].slot[i]
              /\ \A i \in vec[v].size..(n - 1) : src[i] = Default
      BY <1>0, <2>2, <2>3, SizedBegins DEF Contents
    <2>5. CASE /\ Begin("resize", v, v, n, src, "copy", 0) /\ WithGoal(v, src)
               /\ vec' = [vec EXCEPT ![That] = make_new_storage(n)] /\ vec[v].cap < n
      <3>1. vec[v].size <= n
        BY <1>0, <2>3, <2>5
      <3> QED
        BY <1>1, <2>3, <2>4, <2>5, <3>1
    <2>6. CASE /\ Begin("resize", v, v, n, src, Resizing(n, vec[v].size), vec[v].size)
               /\ WithGoal(v, src) /\ n <= vec[v].cap /\ UNCHANGED vec
               /\ n = 0 \/ vec[v].size <= n
      BY <1>2, <2>3, <2>4, <2>6
    <2> QED
      BY <2>1, <2>2, <2>5, <2>6 DEF resize, CarefulUser, Pitfalls
  <1>5. vec[v].size <= vec[v].size
        /\ \A i \in 0..(vec[v].size - 1) : Contents(v)[i] = vec[v].slot[i]
    BY <1>0 DEF Contents, Elems
  <1>6. CASE shrink_to_fit(v)
    <2>1. /\ Begin("reserve", v, v, vec[v].size, Contents(v), "copy", 0)
          /\ WithGoal(v, Contents(v))
          /\ vec' = [vec EXCEPT ![That] = make_new_storage(vec[v].size)]
      BY <1>6 DEF shrink_to_fit, BeginReserve
    <2> QED
      BY <1>0, <1>1, <1>5, <2>1
  <1>7. CASE \E n \in 0..(MaxSize + 1) : reserve(v, n)
    <2>1. PICK n \in 0..(MaxSize + 1) : reserve(v, n)
      BY <1>7
    <2>2. CASE /\ Begin("reserve", v, v, vec[v].size, Contents(v), "copy", 0)
               /\ vec' = [vec EXCEPT ![That] = make_new_storage(n)]
      <3>1. WithGoal(v, Contents(v))
        BY <2>1 DEF reserve
      <3> QED
        BY <1>0, <1>1, <1>5, <2>2, <3>1
    <2>3. CASE vec[v].size = 0 /\ BeginReserve(v, "idle") /\ Restore(v, n)
      <3>1. PICK src : src = Contents(v)
        OBVIOUS
      <3>2. vec' = [vec EXCEPT ![v] = make_new_storage(n)]
            /\ Begin("reserve", v, v, 0, src, "idle", 0) /\ WithGoal(v, src)
        BY <2>1, <2>3, <3>1 DEF reserve, Restore, BeginReserve
      <3>3. vec'[v].size = 0 /\ \A x \in Vectors \ {v} : vec'[x] = vec[x]
        BY <1>0, <3>2 DEF make_new_storage
      <3>4. /\ OthersHeld' /\ UnbornEmpty' /\ phase' = "idle" /\ ~threw'
            /\ call'.v = v /\ call'.op = "reserve" /\ goal'[v] = src
        <4>1. born' = born \cup {v} /\ "reserve" \in Ops \ {"move"}
          BY <1>0 DEF Ops
        <4>2. Begin("reserve", v, v, 0, src, "idle", 0) /\ WithGoal(v, src) /\ phase = "idle"
              /\ \A x \in Vectors \ {v} : vec'[x] = vec[x]
          BY <1>0, <3>2, <3>3
        <4>3. /\ OthersHeld' /\ UnbornEmpty' /\ phase' = "idle" /\ ~threw' /\ goal'[v] = src
              /\ call' = [op |-> "reserve", v |-> v, w |-> v, n |-> 0, src |-> src]
          BY <4>1, <4>2, CallBegins
        <4> QED
          BY <4>3
      <3>5. Contents(v)' = src
        BY <2>3, <3>1, <3>3 DEF Contents, Elems
      <3>6. \A x \in born' : Contents(x)' = goal'[x]
        BY <3>4, <3>5 DEF OthersHeld, StillToMove
      <3> QED
        BY <3>4, <3>6, CallAtOnce
    <2> QED
      BY <2>1, <2>2, <2>3 DEF reserve, BeginReserve
  <1> QED
    BY <1>3, <1>4, <1>6, <1>7

\* Calls that are over at once.
LEMMA ShortCallPromised ==
    ASSUME CarefulUser, ElementsAssumption, VInv, Promised, NEW v \in Vectors,
           \/ pop_back(v)
           \/ \E w \in Vectors : swap(v, w)
           \/ \E i \in 0..(MaxSize - 1) : AssignOwn(v, MaxSize, i)
    PROVE  Promised'
  <1>0. vec = [x \in Vectors \cup {That} |-> vec[x]] /\ born \subseteq Vectors
    BY DEF VInv, TypeOK
  <1>1. CASE pop_back(v)
    <2>1. PICK last, src : last = vec[v].size - 1 /\ src = Sized(Contents(v), last, Default)
      OBVIOUS
    <2>2. /\ phase = "idle" /\ Begin("clear", v, v, last, src, "idle", 0)
          /\ v \in born /\ vec[v].size > 0 /\ WithGoal(v, src) /\ born' = born \cup {v}
          /\ vec' = [vec EXCEPT ![v] = DestroyLast(vec[v])]
      BY <1>1, <2>1 DEF pop_back, Begin
    <2>3. vec[v].size \in Nat /\ vec[v].cap \in Nat /\ vec[v].size <= vec[v].cap
          /\ IsVector(vec[v])
      BY <2>2, BetweenCalls DEF Sound
    <2>4. vec'[v] = DestroyLast(vec[v]) /\ \A x \in Vectors \ {v} : vec'[x] = vec[x]
      BY <1>0, <2>2
    <2>5. /\ OthersHeld' /\ UnbornEmpty' /\ phase' = "idle" /\ ~threw'
          /\ call'.v = v /\ call'.op = "clear" /\ goal'[v] = src
      BY <2>2, <2>4, CallBegins DEF Ops
    <2>6. Contents(v)' = src
      <3>1. vec'[v].size = last /\ \A i \in 0..(last - 1) : vec'[v].slot[i] = vec[v].slot[i]
        BY <2>1, <2>2, <2>3, <2>4 DEF DestroyLast, IsVector
      <3>2. Contents(v)' = [i \in 0..(last - 1) |-> vec[v].slot[i]]
        BY <3>1 DEF Contents, Elems
      <3>3. src = [i \in 0..(last - 1) |-> vec[v].slot[i]]
        BY <2>1, <2>3 DEF Sized, Contents, Elems
      <3> QED
        BY <3>2, <3>3
    <2>7. \A x \in born' : Contents(x)' = goal'[x]
      BY <2>5, <2>6 DEF OthersHeld, StillToMove
    <2> QED
      BY <2>5, <2>7, CallAtOnce
  <1>2. CASE \E w \in Vectors : swap(v, w)
    <2>1. PICK w \in Vectors : swap(v, w)
      BY <1>2
    <2>2. /\ phase' = "idle" /\ ~threw' /\ {v, w} \subseteq born /\ v # w /\ born' = born
          /\ vec' = [vec EXCEPT ![v] = vec[w], ![w] = vec[v]]
          /\ goal' = [x \in Vectors |-> IF x = v THEN Contents(w)
                                        ELSE IF x = w THEN Contents(v) ELSE Contents(x)]
      BY <2>1 DEF swap, Begin
    <2>3. /\ vec'[v] = vec[w] /\ vec'[w] = vec[v]
          /\ \A x \in Vectors \ {v, w} : vec'[x] = vec[x]
      BY <1>0, <2>2
    <2>4. UnbornEmpty'
      BY <2>2, <2>3 DEF Promised, UnbornEmpty
    <2>5. \A x \in Vectors : Contents(x)' = goal'[x]
      <3>1. /\ Contents(v)' = Contents(w) /\ Contents(w)' = Contents(v)
            /\ \A x \in Vectors \ {v, w} : Contents(x)' = Contents(x)
        BY <2>3 DEF Contents, Elems
      <3> QED
        BY <2>2, <3>1
    <2> QED
      BY <1>0, <2>2, <2>4, <2>5, CallAtOnce
  <1>3. CASE \E i \in 0..(MaxSize - 1) : AssignOwn(v, MaxSize, i)
    BY <1>3 DEF AssignOwn, CarefulUser, Pitfalls
  <1> QED
    BY <1>1, <1>2, <1>3

----------------------------------------------------------------------------
(* The theorem.                                                            *)

\* No call has promised anything before the first.
LEMMA PromisedInit == Init => Promised
  <1> SUFFICES ASSUME Init PROVE Promised
    OBVIOUS
  <1>1. born = {} /\ phase = "idle" /\ ~threw /\ \A v \in Vectors : vec[v].size = 0
    BY DEF Init, Empty, make_new_storage
  <1> QED
    BY <1>1 DEF Promised, OthersHeld, UnbornEmpty, GoalIsSource, WhileAppending, WhileCopying,
        WhileDropping, WhileOverwriting, WhileClearing, OutcomeAsPromised

\* Every step keeps what is promised.
LEMMA PromisedNext ==
    ASSUME CarefulUser, ElementsAssumption, VInv, Promised, [Next]_vars PROVE Promised'
  <1>1. CASE Step
    <2>1. ~ShrinkNext /\ ~ShrinkEnds
      BY DEF ShrinkNext, ShrinkEnds, VInv, CallAgrees
    <2> QED
      BY <1>1, <2>1, AppendingPromised, CopyingPromised, DroppingPromised, DestroyingPromised,
          OverwritingPromised, ClearingPromised DEF Step
  <1>2. CASE \E v \in Vectors : CallOn(v)
    BY <1>2, ConstructorPromised, LoopCallPromised, StorageCallPromised, ShortCallPromised
    DEF CallOn
  <1>3. CASE UNCHANGED vars
    <2>0. UNCHANGED <<vec, born, phase, call, ix, threw, goal>> /\ self' = self
      BY <1>3 DEF vars, self
    <2>1. \A v : Contents(v)' = Contents(v)
      BY <2>0 DEF Contents, Elems
    <2>2. OthersHeld' /\ UnbornEmpty' /\ OutcomeAsPromised'
      BY <2>0, <2>1 DEF Promised, OthersHeld, UnbornEmpty, OutcomeAsPromised, StillToMove, Sized
    <2>3. GoalIsSource'
      <3>1. Elems(Empty)' = Elems(Empty)
        BY DEF Elems, Empty, make_new_storage
      <3> QED
        BY <2>0, <2>1, <3>1 DEF Promised, GoalIsSource
    <2>4. WhileAppending' /\ WhileCopying' /\ WhileDropping'
      BY <2>0 DEF Promised, WhileAppending, WhileCopying, WhileDropping, Prefix, CopySize
    <2>5. WhileOverwriting' /\ WhileClearing'
      BY <2>0 DEF Promised, WhileOverwriting, WhileClearing
    <2> QED
      BY <2>2, <2>3, <2>4, <2>5 DEF Promised
  <1> QED
    BY <1>1, <1>2, <1>3 DEF Next

\* A call that returns leaves the vector with what it is for and the others as they were; what an
\* exception leaves unchanged.
THEOREM CallsKeepPromises ==
    ASSUME CarefulUser, ElementsAssumption PROVE Spec => []OutcomeAsPromised
  <1>1. Init => Promised
    BY PromisedInit
  <1>2. VInv /\ Promised /\ [Next]_vars => Promised'
    BY PromisedNext
  <1>3. Promised => OutcomeAsPromised
    BY DEF Promised
  <1> QED
    BY <1>1, <1>2, <1>3, VectorInvariant, PTL DEF Spec
=============================================================================
