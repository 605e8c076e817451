---------------------------- MODULE ThreadProofs ----------------------------
(***************************************************************************)
(* Proofs about Thread, for any finite set of clients and any exit codes.  *)
(***************************************************************************)
EXTENDS Thread, FiniteSetTheorems, TLAPS

\* The inductive invariant.
ThreadInv == TypeOK /\ RefsCounted /\ HandlesAccounted /\ PlacesAgree /\ ExitAgrees

\* The references of the clients can be counted.
LEMMA HeldCounts ==
  ASSUME TypeOK
  PROVE  /\ Cardinality(HeldBy) \in Nat
         /\ Cardinality(HeldBy) = 0 <=> HeldBy = {}
         /\ \A c \in Clients : has[c] =>
               /\ Cardinality(HeldBy \ {c}) = Cardinality(HeldBy) - 1
               /\ Cardinality(HeldBy) >= 1
         /\ \A c \in Clients : ~has[c] =>
               Cardinality(HeldBy \cup {c}) = Cardinality(HeldBy) + 1
<1>1. IsFiniteSet(HeldBy)
  BY ThreadAssumption, FS_Subset DEF HeldBy
<1>2. Cardinality(HeldBy) \in Nat /\ (Cardinality(HeldBy) = 0 <=> HeldBy = {})
  BY <1>1, FS_CardinalityType, FS_EmptySet
<1>3. ASSUME NEW c \in Clients, has[c]
      PROVE  /\ Cardinality(HeldBy \ {c}) = Cardinality(HeldBy) - 1
             /\ Cardinality(HeldBy) >= 1
  <2>1. c \in HeldBy
    BY <1>3 DEF HeldBy
  <2>2. QED
    BY <1>1, <1>2, <2>1, FS_RemoveElement
<1>4. ASSUME NEW c \in Clients, ~has[c]
      PROVE  Cardinality(HeldBy \cup {c}) = Cardinality(HeldBy) + 1
  <2>1. c \notin HeldBy
    BY <1>4 DEF HeldBy
  <2>2. QED
    BY <1>1, <2>1, FS_AddElement
<1>5. QED
  BY <1>2, <1>3, <1>4

\* The references held at the places where one is.
LEMMA RefsKnown ==
  ASSUME TypeOK
  PROVE  StarterRefs \in 0..3 /\ RunnerRefs \in 0..2
BY DEF StarterRefs, RunnerRefs

LEMMA ThreadInit == Init => ThreadInv
<1> SUFFICES ASSUME Init PROVE ThreadInv
  OBVIOUS
<1>1. TypeOK
  BY ThreadAssumption DEF Init, TypeOK, ExitMethods, Handles, StartPcs, ThreadPcs
<1>2. HeldBy = {}
  BY DEF Init, HeldBy
<1>3. RefsCounted
  BY <1>2, FS_EmptySet DEF Init, RefsCounted, StarterRefs, RunnerRefs
<1>4. HandlesAccounted /\ PlacesAgree /\ ExitAgrees
  BY DEF Init, HandlesAccounted, PlacesAgree, ExitAgrees, Handles
<1>5. QED
  BY <1>1, <1>3, <1>4 DEF ThreadInv

----------------------------------------------------------------------------
(* The reference count.                                                    *)

\* A step that adds references, or leaves them alone, while there are some.
LEMMA AddKeeps ==
  ASSUME TypeOK, RefsCounted, NEW n \in 0..2, AddRefs(n), refcnt # 0,
         NEW a \in Int, NEW b \in Int, NEW k \in Int,
         StarterRefs' = StarterRefs + a, RunnerRefs' = RunnerRefs + b,
         Cardinality(HeldBy)' = Cardinality(HeldBy) + k, a + b + k = n
  PROVE  RefsCounted'
<1>1. StarterRefs \in Int /\ RunnerRefs \in Int /\ Cardinality(HeldBy) \in Int
  BY RefsKnown, HeldCounts
<1>2. refcnt' = refcnt + n /\ freed' = freed /\ refcnt \in Nat
  BY DEF AddRefs, TypeOK
<1>3. QED
  BY <1>1, <1>2 DEF RefsCounted

\* A step that drops references it has.
LEMMA DropKeeps ==
  ASSUME TypeOK, RefsCounted, NEW n \in 1..3, DropRefs(n), refcnt # 0,
         NEW a \in Int, NEW b \in Int, NEW k \in Int,
         StarterRefs' = StarterRefs - a, RunnerRefs' = RunnerRefs - b,
         Cardinality(HeldBy)' = Cardinality(HeldBy) - k, a + b + k = n
  PROVE  RefsCounted'
<1>1. StarterRefs \in Int /\ RunnerRefs \in Int /\ Cardinality(HeldBy) \in Int
  BY RefsKnown, HeldCounts
<1>2. refcnt' = refcnt - n /\ (freed' <=> freed \/ refcnt - n = 0) /\ refcnt \in Nat
  BY DEF DropRefs, TypeOK
<1>3. QED
  BY <1>1, <1>2 DEF RefsCounted

\* Who is at a place with a reference knows that the count is not zero.
LEMMA RefsPositive ==
  ASSUME TypeOK, RefsCounted
  PROVE  /\ refcnt >= StarterRefs /\ refcnt >= RunnerRefs
         /\ HeldBy # {} => refcnt # 0
         /\ refcnt >= StarterRefs + RunnerRefs
         /\ \A c \in Clients : has[c] => refcnt >= 1
<1>1. /\ StarterRefs \in 0..3 /\ RunnerRefs \in 0..2
      /\ Cardinality(HeldBy) \in Nat /\ (Cardinality(HeldBy) = 0 <=> HeldBy = {})
  BY RefsKnown, HeldCounts
<1>2. \A c \in Clients : has[c] => Cardinality(HeldBy) >= 1
  BY HeldCounts
<1>3. QED
  BY <1>1, <1>2 DEF RefsCounted

LEMMA StarterCounts ==
  ASSUME ThreadInv, Starter
  PROVE  RefsCounted'
<1> USE DEF ThreadInv
<1>1. CASE StartReserves
  <2>1. /\ AddRefs(2) /\ startPc = "new" /\ startPc' = "create"
        /\ threadPc' = threadPc /\ has' = has
    BY <1>1 DEF StartReserves, StartRefs, joins
  <2>2. StarterRefs = 1 /\ StarterRefs' = StarterRefs + 2 /\ RunnerRefs' = RunnerRefs + 0
    BY <2>1, RefsKnown DEF StarterRefs, RunnerRefs
  <2>3. HeldBy' = HeldBy /\ Cardinality(HeldBy)' = Cardinality(HeldBy) + 0
    BY <2>1, HeldCounts DEF HeldBy
  <2>4. refcnt # 0
    BY <2>2, RefsPositive DEF TypeOK
  <2>5. QED
    BY <2>1, <2>2, <2>3, <2>4, AddKeeps
<1>2. CASE CreateFails
  <2>1. /\ DropRefs(3) /\ startPc = "create" /\ startPc' = "threw"
        /\ threadPc' = threadPc /\ has' = has
    BY <1>2 DEF CreateFails, FailureRefs, joins
  <2>2. StarterRefs = 3 /\ StarterRefs' = StarterRefs - 3 /\ RunnerRefs' = RunnerRefs - 0
    BY <2>1, RefsKnown DEF StarterRefs, RunnerRefs
  <2>3. Cardinality(HeldBy)' = Cardinality(HeldBy) - 0
    BY <2>1, HeldCounts DEF HeldBy
  <2>4. refcnt # 0
    BY <2>2, RefsPositive DEF TypeOK
  <2>5. QED
    BY <2>1, <2>2, <2>3, <2>4, DropKeeps
<1>3. CASE CreateSucceeds
  <2>1. /\ UNCHANGED <<refcnt, freed, has>> /\ threadPc = "none"
        /\ startPc = "create" /\ startPc' = "assign" /\ threadPc' = "created"
    BY <1>3 DEF CreateSucceeds, counted, joins, PlacesAgree
  <2>2. StarterRefs = 3 /\ StarterRefs' = 2 /\ RunnerRefs = 0 /\ RunnerRefs' = 1
    BY <2>1 DEF StarterRefs, RunnerRefs
  <2>3. HeldBy' = HeldBy
    BY <2>1 DEF HeldBy
  <2>4. QED
    BY <2>1, <2>2, <2>3, HeldCounts DEF RefsCounted
<1>4. CASE StarterAssigns
  <2>1. /\ UNCHANGED <<refcnt, freed, has, threadPc>>
        /\ startPc = "assign" /\ startPc' = "return"
    BY <1>4 DEF StarterAssigns, counted, joins
  <2>2. QED
    BY <2>1 DEF RefsCounted, StarterRefs, RunnerRefs, HeldBy
<1>5. ASSUME NEW c \in Clients, StartReturns(c) PROVE RefsCounted'
  <2>1. /\ DropRefs(1) /\ startPc = "return" /\ startPc' = "done"
        /\ threadPc' = threadPc /\ has' = [has EXCEPT ![c] = TRUE] /\ ~has[c]
    BY <1>5 DEF StartReturns, PlacesAgree
  <2>2. StarterRefs = 2 /\ StarterRefs' = StarterRefs - 2 /\ RunnerRefs' = RunnerRefs - 0
    BY <2>1, RefsKnown DEF StarterRefs, RunnerRefs
  <2>3. Cardinality(HeldBy)' = Cardinality(HeldBy) - (-1)
    <3>1. HeldBy' = HeldBy \cup {c}
      BY <2>1 DEF HeldBy, TypeOK
    <3>2. QED
      BY <2>1, <3>1, HeldCounts
  <2>4. refcnt # 0
    BY <2>2, RefsPositive DEF TypeOK
  <2>5. QED
    BY <2>1, <2>2, <2>3, <2>4, DropKeeps
<1>6. QED
  BY <1>1, <1>2, <1>3, <1>4, <1>5 DEF Starter

LEMMA RunnerCounts ==
  ASSUME ThreadInv, Runner
  PROVE  RefsCounted'
<1> USE DEF ThreadInv
<1>1. /\ has' = has /\ startPc' = startPc
  BY DEF Runner, ConsumesReserved, ChecksHandle, OpensItself, ThreadAssigns, SetsTls, FnReturns,
         RecordsExit, FnThrows, ResetsTls, ThreadReleases, ThreadEnds, joins
<1>2. /\ StarterRefs' = StarterRefs /\ StarterRefs \in Int /\ RunnerRefs \in Int
      /\ HeldBy' = HeldBy /\ Cardinality(HeldBy) \in Int
  BY <1>1, RefsKnown, HeldCounts DEF StarterRefs, HeldBy
<1>3. CASE SetsTls
  <2>1. AddRefs(1) /\ threadPc = "tls" /\ threadPc' = "fn"
    BY <1>3 DEF SetsTls
  <2>2. RunnerRefs = 1 /\ RunnerRefs' = RunnerRefs + 1
    BY <2>1 DEF RunnerRefs
  <2>3. refcnt # 0
    BY <2>2, RefsPositive DEF TypeOK
  <2>4. refcnt' = refcnt + 1 /\ freed' = freed /\ refcnt \in Nat
    BY <2>1 DEF AddRefs, TypeOK
  <2>5. QED
    BY <1>2, <2>2, <2>3, <2>4 DEF RefsCounted
<1>4. CASE ResetsTls \/ ThreadReleases
  <2>1. /\ DropRefs(1)
        /\ \/ threadPc = "tail" /\ threadPc' = "release"
           \/ threadPc = "release" /\ threadPc' = "exit"
    BY <1>4 DEF ResetsTls, ThreadReleases
  <2>2. RunnerRefs >= 1 /\ RunnerRefs' = RunnerRefs - 1
    BY <2>1 DEF RunnerRefs
  <2>3. refcnt # 0
    BY <2>2, <1>2, RefsPositive DEF TypeOK
  <2>4. StarterRefs' = StarterRefs - 0 /\ Cardinality(HeldBy)' = Cardinality(HeldBy) - 0
    BY <1>2
  <2>5. QED
    BY <2>1, <2>2, <2>3, <2>4, DropKeeps
<1>5. CASE \/ ConsumesReserved \/ ChecksHandle \/ OpensItself \/ ThreadAssigns
           \/ \E code \in ExitCodes : FnReturns(code)
           \/ RecordsExit \/ FnThrows \/ ThreadEnds
  <2>1. refcnt' = refcnt /\ freed' = freed
    BY <1>5 DEF ConsumesReserved, ChecksHandle, OpensItself, ThreadAssigns, FnReturns,
                RecordsExit, FnThrows, ThreadEnds, counted
  <2>2. RunnerRefs' = RunnerRefs
    BY <1>5 DEF ConsumesReserved, ChecksHandle, OpensItself, ThreadAssigns, FnReturns,
                RecordsExit, FnThrows, ThreadEnds, RunnerRefs
  <2>3. QED
    BY <1>2, <2>1, <2>2 DEF RefsCounted
<1>6. QED
  BY <1>3, <1>4, <1>5 DEF Runner

LEMMA JoinerCounts ==
  ASSUME ThreadInv, NEW c \in Clients, Joiner(c)
  PROVE  RefsCounted'
<1> USE DEF ThreadInv
<1>1. startPc' = startPc /\ threadPc' = threadPc
  BY DEF Joiner, CallJoin, JoinSeesExit, JoinTimesOut, JoinReports, CopyRef, DropRef
<1>2. /\ StarterRefs' = StarterRefs /\ RunnerRefs' = RunnerRefs
      /\ StarterRefs \in Int /\ RunnerRefs \in Int
  BY <1>1, RefsKnown DEF StarterRefs, RunnerRefs
<1>3. ASSUME NEW d \in Clients, CopyRef(c, d) PROVE RefsCounted'
  <2>1. AddRefs(1) /\ has[c] /\ ~has[d] /\ has' = [has EXCEPT ![d] = TRUE]
    BY <1>3 DEF CopyRef
  <2>2. HeldBy' = HeldBy \cup {d}
    BY <2>1 DEF HeldBy, TypeOK
  <2>3. Cardinality(HeldBy)' = Cardinality(HeldBy) + 1
    BY <2>1, <2>2, HeldCounts
  <2>4. refcnt # 0
    BY <2>1, RefsPositive DEF TypeOK
  <2>5. StarterRefs' = StarterRefs + 0 /\ RunnerRefs' = RunnerRefs + 0
    BY <1>2
  <2>6. QED
    BY <2>1, <2>3, <2>4, <2>5, AddKeeps
<1>4. CASE DropRef(c)
  <2>1. DropRefs(1) /\ has[c] /\ has' = [has EXCEPT ![c] = FALSE]
    BY <1>4 DEF DropRef
  <2>2. HeldBy' = HeldBy \ {c}
    BY <2>1 DEF HeldBy, TypeOK
  <2>3. Cardinality(HeldBy)' = Cardinality(HeldBy) - 1
    BY <2>1, <2>2, HeldCounts
  <2>4. refcnt # 0
    BY <2>1, RefsPositive DEF TypeOK
  <2>5. StarterRefs' = StarterRefs - 0 /\ RunnerRefs' = RunnerRefs - 0
    BY <1>2
  <2>6. QED
    BY <2>1, <2>3, <2>4, <2>5, DropKeeps
<1>5. CASE \/ \E how \in {"forever", "timed"} : CallJoin(c, how)
           \/ JoinSeesExit(c) \/ JoinTimesOut(c) \/ JoinReports(c)
  <2>1. UNCHANGED <<refcnt, freed, has>>
    BY <1>5 DEF CallJoin, JoinSeesExit, JoinTimesOut, JoinReports, counted
  <2>2. QED
    BY <1>2, <2>1 DEF RefsCounted, HeldBy
<1>6. QED
  BY <1>3, <1>4, <1>5 DEF Joiner

LEMMA CountKept ==
  ASSUME ThreadInv, [Next]_vars
  PROVE  RefsCounted'
<1>1. CASE Starter
  BY <1>1, StarterCounts
<1>2. CASE Runner
  BY <1>2, RunnerCounts
<1>3. ASSUME NEW c \in Clients, Joiner(c) PROVE RefsCounted'
  BY <1>3, JoinerCounts
<1>4. CASE UNCHANGED vars
  BY <1>4 DEF ThreadInv, RefsCounted, StarterRefs, RunnerRefs, HeldBy, vars
<1>5. QED
  BY <1>1, <1>2, <1>3, <1>4 DEF Next

----------------------------------------------------------------------------
(* Who still uses the object has kept it alive.                            *)

LEMMA UsedIsAlive == TypeOK /\ RefsCounted => NoUseAfterDeletion
<1> SUFFICES ASSUME TypeOK, RefsCounted, freed
             PROVE  /\ startPc \in {"done", "threw"}
                    /\ threadPc \in {"none", "exit", "gone"}
                    /\ HeldBy = {}
  BY DEF NoUseAfterDeletion
<1>1. StarterRefs = 0 /\ RunnerRefs = 0 /\ HeldBy = {}
  BY RefsKnown, HeldCounts DEF RefsCounted
<1>2. startPc \in {"done", "threw"}
  BY <1>1 DEF StarterRefs, TypeOK, StartPcs
<1>3. threadPc \in {"none", "exit", "gone"}
  BY <1>1 DEF RunnerRefs, TypeOK, ThreadPcs
<1>4. QED
  BY <1>1, <1>2, <1>3

----------------------------------------------------------------------------
(* Types.                                                                  *)

LEMMA TypeKept ==
  ASSUME ThreadInv, [Next]_vars, RefsCounted'
  PROVE  TypeOK'
<1> USE DEF ThreadInv
<1>1. refcnt' \in Nat
  <2>1. StarterRefs' \in 0..3 /\ RunnerRefs' \in 0..2
    BY DEF StarterRefs, RunnerRefs
  <2>2. IsFiniteSet(HeldBy')
    BY ThreadAssumption, FS_Subset DEF HeldBy
  <2>3. Cardinality(HeldBy') \in Nat
    BY <2>2, FS_CardinalityType
  <2>4. refcnt' = StarterRefs' + RunnerRefs' + Cardinality(HeldBy')
    BY DEF RefsCounted
  <2>5. QED
    BY <2>1, <2>3, <2>4
<1>2. CASE Starter
  <2>1. /\ freed' \in BOOLEAN /\ open' \subseteq Handles
        /\ ahth' \in Handles \cup {"invalid"}
    BY <1>2 DEF Starter, StartReserves, CreateFails, CreateSucceeds, StarterAssigns, StartReturns,
           AddRefs, DropRefs, TryAssign, TypeOK, Handles, handle, counted
  <2>2. startPc' \in StartPcs /\ threadPc' \in ThreadPcs
    BY <1>2 DEF Starter, StartReserves, CreateFails, CreateSucceeds, StarterAssigns, StartReturns,
           TypeOK, StartPcs, ThreadPcs
  <2>3. /\ UNCHANGED <<exits, joinPc, result>>
        /\ has' \in [Clients -> BOOLEAN]
    BY <1>2 DEF Starter, StartReserves, CreateFails, CreateSucceeds, StarterAssigns, StartReturns,
           joins, TypeOK
  <2>4. QED
    BY <1>1, <2>1, <2>2, <2>3 DEF TypeOK, exits
<1>3. CASE Runner
  <2>1. /\ freed' \in BOOLEAN /\ open' \subseteq Handles
        /\ ahth' \in Handles \cup {"invalid"}
    BY <1>3 DEF Runner, ConsumesReserved, ChecksHandle, OpensItself, ThreadAssigns, SetsTls,
           FnReturns, RecordsExit, FnThrows, ResetsTls, ThreadReleases, ThreadEnds,
           AddRefs, DropRefs, TryAssign, TypeOK, Handles, handle, counted
  <2>2. threadPc' \in ThreadPcs
    BY <1>3 DEF Runner, ConsumesReserved, ChecksHandle, OpensItself, ThreadAssigns, SetsTls,
           FnReturns, RecordsExit, FnThrows, ResetsTls, ThreadReleases, ThreadEnds, ThreadPcs
  <2>3. /\ exitMethod' \in ExitMethods /\ exitCode' \in ExitCodes
        /\ outcome' \in ExitCodes \cup {Threw, Nothing}
    BY <1>3 DEF Runner, ConsumesReserved, ChecksHandle, OpensItself, ThreadAssigns, SetsTls,
           FnReturns, RecordsExit, FnThrows, ResetsTls, ThreadReleases, ThreadEnds,
           ThrownMethod, exits, TypeOK, ExitMethods
  <2>4. UNCHANGED <<startPc, has, joinPc, result>>
    BY <1>3 DEF Runner, ConsumesReserved, ChecksHandle, OpensItself, ThreadAssigns, SetsTls,
           FnReturns, RecordsExit, FnThrows, ResetsTls, ThreadReleases, ThreadEnds, joins
  <2>5. QED
    BY <1>1, <2>1, <2>2, <2>3, <2>4 DEF TypeOK
<1>4. ASSUME NEW c \in Clients, Joiner(c) PROVE TypeOK'
  <2>1. /\ UNCHANGED <<exits, ahth, startPc, threadPc>>
        /\ freed' \in BOOLEAN /\ open' \subseteq Handles
    BY <1>4 DEF Joiner, CallJoin, JoinSeesExit, JoinTimesOut, JoinReports, CopyRef, DropRef,
           AddRefs, DropRefs, handle, counted, TypeOK
  <2>2. has' \in [Clients -> BOOLEAN]
    BY <1>4 DEF Joiner, CallJoin, JoinSeesExit, JoinTimesOut, JoinReports, CopyRef, DropRef, TypeOK
  <2>3. joinPc' \in [Clients -> {"out", "forever", "timed", "collect"}]
    BY <1>4 DEF Joiner, CallJoin, JoinSeesExit, JoinTimesOut, JoinReports, CopyRef, DropRef, TypeOK
  <2>4. Reported \in ExitCodes \cup {Threw, Nothing}
    BY DEF Reported, TypeOK, ExitMethods
  <2>5. result' \in [Clients -> ExitCodes \cup {Threw, Nothing}]
    BY <1>4, <2>4 DEF Joiner, CallJoin, JoinSeesExit, JoinTimesOut, JoinReports, CopyRef, DropRef,
           TypeOK
  <2>6. QED
    BY <1>1, <2>1, <2>2, <2>3, <2>5 DEF TypeOK, exits
<1>5. CASE UNCHANGED vars
  BY <1>5 DEF TypeOK, vars
<1>6. QED
  BY <1>2, <1>3, <1>4, <1>5 DEF Next

----------------------------------------------------------------------------
(* The handle.                                                             *)

\* A step that drops references of an object which was there, away from the
\* places at which a handle is handed over.
LEMMA DropAccounts ==
  ASSUME HandlesAccounted, NoUseAfterDeletion', ~freed, NEW n \in Nat, DropRefs(n), ahth' = ahth,
         startPc # "assign", startPc' # "assign",
         threadPc' = "assign" <=> threadPc = "assign"
  PROVE  HandlesAccounted'
<1>1. CASE refcnt - n = 0
  <2>1. freed' /\ open' = open \ {ahth}
    BY <1>1 DEF DropRefs
  <2>2. threadPc' # "assign"
    BY <2>1 DEF NoUseAfterDeletion
  <2>3. open \subseteq {ahth}
    BY <2>2 DEF HandlesAccounted
  <2>4. QED
    BY <2>1, <2>2, <2>3 DEF HandlesAccounted
<1>2. CASE refcnt - n # 0
  <2>1. ~freed' /\ open' = open
    BY <1>2 DEF DropRefs
  <2>2. QED
    BY <2>1 DEF HandlesAccounted
<1>3. QED
  BY <1>1, <1>2

\* The same while the starter hands its handle over.
LEMMA RunnerDropAccounts ==
  ASSUME HandlesAccounted, NoUseAfterDeletion', ~freed, NEW n \in Nat, DropRefs(n), ahth' = ahth,
         startPc' = startPc, threadPc' # "assign", threadPc # "assign"
  PROVE  HandlesAccounted'
<1>1. CASE refcnt - n = 0
  <2>1. freed' /\ open' = open \ {ahth}
    BY <1>1 DEF DropRefs
  <2>2. startPc # "assign"
    BY <2>1 DEF NoUseAfterDeletion
  <2>3. open \subseteq {ahth}
    BY <2>2 DEF HandlesAccounted
  <2>4. QED
    BY <2>1, <2>2, <2>3 DEF HandlesAccounted
<1>2. CASE refcnt - n # 0
  <2>1. ~freed' /\ open' = open
    BY <1>2 DEF DropRefs
  <2>2. QED
    BY <2>1 DEF HandlesAccounted
<1>3. QED
  BY <1>1, <1>2

LEMMA HandlesKept ==
  ASSUME ThreadInv, [Next]_vars, NoUseAfterDeletion'
  PROVE  HandlesAccounted'
<1> USE DEF ThreadInv
<1>1. NoUseAfterDeletion
  BY UsedIsAlive
<1>2. CASE Starter
  <2>1. CASE StartReserves
    BY <2>1 DEF StartReserves, AddRefs, handle, HandlesAccounted
  <2>2. CASE CreateFails
    <3>1. /\ DropRefs(3) /\ ahth' = ahth /\ threadPc' = threadPc
          /\ startPc = "create" /\ startPc' = "threw"
      BY <2>2 DEF CreateFails, FailureRefs
    <3>2. ~freed
      BY <1>1, <3>1 DEF NoUseAfterDeletion
    <3>3. QED
      BY <3>1, <3>2, DropAccounts
  <2>3. CASE CreateSucceeds
    <3>1. /\ open' = open \cup {"started"} /\ ahth' = ahth /\ freed' = freed
          /\ startPc' = "assign" /\ threadPc = "none" /\ threadPc' = "created"
      BY <2>3 DEF CreateSucceeds, counted, PlacesAgree
    <3>2. "started" \in Handles
      BY DEF Handles
    <3>3. startPc = "create"
      BY <2>3 DEF CreateSucceeds
    <3>4. QED
      BY <3>1, <3>2, <3>3 DEF HandlesAccounted
  <2>4. CASE StarterAssigns
    <3>1. /\ TryAssign("started") /\ freed' = freed /\ threadPc' = threadPc
          /\ startPc = "assign" /\ startPc' = "return"
      BY <2>4 DEF StarterAssigns, counted
    <3>2. ~freed
      BY <1>1, <3>1 DEF NoUseAfterDeletion
    <3>3. ahth # "started"
      BY <3>1 DEF PlacesAgree
    <3>4. CASE ahth = "invalid"
      BY <3>1, <3>2, <3>4 DEF TryAssign, HandlesAccounted, Handles
    <3>5. CASE ahth # "invalid"
      BY <3>1, <3>2, <3>3, <3>5 DEF TryAssign, HandlesAccounted, Handles
    <3>6. QED
      BY <3>4, <3>5
  <2>5. ASSUME NEW c \in Clients, StartReturns(c) PROVE HandlesAccounted'
    <3>1. /\ DropRefs(1) /\ ahth' = ahth /\ threadPc' = threadPc
          /\ startPc = "return" /\ startPc' = "done"
      BY <2>5 DEF StartReturns
    <3>2. ~freed
      BY <1>1, <3>1 DEF NoUseAfterDeletion
    <3>3. QED
      BY <3>1, <3>2, DropAccounts
  <2>6. QED
    BY <1>2, <2>1, <2>2, <2>3, <2>4, <2>5 DEF Starter
<1>3. CASE Runner
  <2>1. CASE OpensItself
    <3>1. /\ open' = open \cup {"opened"} /\ ahth' = ahth /\ freed' = freed /\ startPc' = startPc
          /\ threadPc = "open" /\ threadPc' = "assign"
      BY <2>1 DEF OpensItself, counted
    <3>2. QED
      BY <3>1 DEF HandlesAccounted, Handles
  <2>2. CASE ThreadAssigns
    <3>1. /\ TryAssign("opened") /\ freed' = freed /\ startPc' = startPc
          /\ threadPc = "assign" /\ threadPc' = "tls"
      BY <2>2 DEF ThreadAssigns, counted
    <3>2. ~freed
      BY <1>1, <3>1 DEF NoUseAfterDeletion
    <3>3. ahth # "opened"
      BY <3>1 DEF PlacesAgree
    <3>4. CASE ahth = "invalid"
      BY <3>1, <3>2, <3>4 DEF TryAssign, HandlesAccounted, Handles
    <3>5. CASE ahth # "invalid"
      BY <3>1, <3>2, <3>3, <3>5 DEF TryAssign, HandlesAccounted, Handles
    <3>6. QED
      BY <3>4, <3>5
  <2>3. CASE ResetsTls \/ ThreadReleases
    <3>1. /\ DropRefs(1) /\ ahth' = ahth /\ startPc' = startPc
          /\ threadPc \in {"tail", "release"} /\ threadPc' # "assign"
      BY <2>3 DEF ResetsTls, ThreadReleases
    <3>2. ~freed
      BY <1>1, <3>1 DEF NoUseAfterDeletion
    <3>3. QED
      BY <3>1, <3>2, RunnerDropAccounts
  <2>4. CASE ConsumesReserved \/ ChecksHandle \/ RecordsExit \/ FnThrows \/ ThreadEnds
    BY <2>4 DEF ConsumesReserved, ChecksHandle, RecordsExit, FnThrows, ThreadEnds, handle, counted,
           HandlesAccounted
  <2>5. CASE SetsTls \/ \E code \in ExitCodes : FnReturns(code)
    BY <2>5 DEF SetsTls, FnReturns, AddRefs, handle, counted, HandlesAccounted
  <2>6. QED
    BY <1>3, <2>1, <2>2, <2>3, <2>4, <2>5 DEF Runner
<1>4. ASSUME NEW c \in Clients, Joiner(c) PROVE HandlesAccounted'
  <2>1. CASE DropRef(c)
    <3>1. /\ DropRefs(1) /\ ahth' = ahth /\ threadPc' = threadPc /\ startPc' = startPc
          /\ startPc = "done" /\ c \in HeldBy
      BY <1>4, <2>1 DEF DropRef, PlacesAgree, HeldBy
    <3>2. ~freed
      BY <1>1, <3>1 DEF NoUseAfterDeletion
    <3>3. QED
      BY <3>1, <3>2, DropAccounts
  <2>2. CASE ~DropRef(c)
    BY <1>4, <2>2 DEF Joiner, CallJoin, JoinSeesExit, JoinTimesOut, JoinReports, CopyRef, AddRefs,
           handle, counted, HandlesAccounted
  <2>3. QED
    BY <2>1, <2>2
<1>5. CASE UNCHANGED vars
  BY <1>5 DEF HandlesAccounted, vars
<1>6. QED
  BY <1>2, <1>3, <1>4, <1>5 DEF Next

----------------------------------------------------------------------------
(* The places.                                                             *)

LEMMA PlacesKept ==
  ASSUME ThreadInv, [Next]_vars
  PROVE  PlacesAgree'
<1> USE DEF ThreadInv
<1>1. ahth \in Handles \cup {"invalid"}
  BY DEF TypeOK
<1>2. CASE Starter
  <2>1. CASE StartReserves \/ CreateFails \/ CreateSucceeds
    BY <2>1 DEF StartReserves, CreateFails, CreateSucceeds, PlacesAgree, handle, joins
  <2>2. CASE StarterAssigns
    BY <1>1, <2>2 DEF StarterAssigns, TryAssign, PlacesAgree, joins
  <2>3. ASSUME NEW c \in Clients, StartReturns(c) PROVE PlacesAgree'
    <3>1. /\ startPc = "return" /\ startPc' = "done"
          /\ UNCHANGED <<ahth, threadPc, joinPc>>
          /\ \A d \in Clients : has[d] => has'[d]
      BY <2>3 DEF StartReturns, TypeOK
    <3>2. QED
      BY <3>1 DEF PlacesAgree
  <2>4. QED
    BY <1>2, <2>1, <2>2, <2>3 DEF Starter
<1>3. CASE Runner
  <2>1. /\ UNCHANGED <<startPc, has, joinPc>>
    BY <1>3 DEF Runner, ConsumesReserved, ChecksHandle, OpensItself, ThreadAssigns, SetsTls,
           FnReturns, RecordsExit, FnThrows, ResetsTls, ThreadReleases, ThreadEnds, joins
  <2>2. CASE ThreadAssigns
    BY <1>1, <2>1, <2>2 DEF ThreadAssigns, TryAssign, PlacesAgree
  <2>3. CASE ~ThreadAssigns
    <3>1. ahth' = ahth
      BY <1>3, <2>3 DEF Runner, ConsumesReserved, ChecksHandle, OpensItself, SetsTls,
             FnReturns, RecordsExit, FnThrows, ResetsTls, ThreadReleases, ThreadEnds, handle
    <3>2. /\ threadPc \notin {"none", "assign"}
          /\ threadPc' \notin {"none", "created"}
          /\ threadPc = "created" => threadPc' = "check"
          /\ threadPc = "check" => threadPc' = IF ahth = "invalid" THEN "open" ELSE "tls"
          /\ threadPc = "open" => threadPc' = "assign"
          /\ threadPc \notin {"created", "check", "open"} =>
                threadPc' \in {"fn", "record", "tail", "release", "exit", "gone"}
      BY <1>3, <2>3 DEF Runner, ConsumesReserved, ChecksHandle, OpensItself, SetsTls,
             FnReturns, RecordsExit, FnThrows, ResetsTls, ThreadReleases, ThreadEnds
    <3>3. threadPc \in ThreadPcs
      BY DEF TypeOK
    <3>4. QED
      BY <2>1, <3>1, <3>2, <3>3 DEF PlacesAgree, ThreadPcs
  <2>4. QED
    BY <2>2, <2>3
<1>4. ASSUME NEW c \in Clients, Joiner(c) PROVE PlacesAgree'
  <2>1. /\ UNCHANGED <<ahth, startPc, threadPc>>
        /\ has[c] /\ startPc = "done"
    BY <1>4 DEF Joiner, CallJoin, JoinSeesExit, JoinTimesOut, JoinReports, CopyRef, DropRef, handle,
           PlacesAgree
  <2>2. \A d \in Clients : joinPc'[d] # "out" => has'[d]
    BY <1>4, <2>1 DEF Joiner, CallJoin, JoinSeesExit, JoinTimesOut, JoinReports, CopyRef, DropRef,
           PlacesAgree, TypeOK
  <2>3. QED
    BY <2>1, <2>2 DEF PlacesAgree
<1>5. CASE UNCHANGED vars
  BY <1>5 DEF PlacesAgree, vars
<1>6. QED
  BY <1>2, <1>3, <1>4, <1>5 DEF Next

LEMMA ExitKept ==
  ASSUME ThreadInv, [Next]_vars
  PROVE  ExitAgrees'
<1> USE DEF ThreadInv
<1>1. CASE Starter
  <2>1. /\ UNCHANGED <<exitMethod, exitCode, outcome>>
        /\ threadPc' = threadPc \/ (threadPc = "none" /\ threadPc' = "created")
    BY <1>1 DEF Starter, StartReserves, CreateFails, CreateSucceeds, StarterAssigns, StartReturns,
           exits, PlacesAgree
  <2>2. QED
    BY <2>1 DEF ExitAgrees
<1>2. CASE Runner
  <2>1. CASE \E code \in ExitCodes : FnReturns(code)
    BY <2>1 DEF FnReturns, ExitAgrees
  <2>2. CASE RecordsExit \/ FnThrows
    BY <2>2 DEF RecordsExit, FnThrows, ThrownMethod, ExitAgrees
  <2>3. CASE ConsumesReserved \/ ChecksHandle \/ OpensItself \/ ThreadAssigns \/ SetsTls
    BY <2>3 DEF ConsumesReserved, ChecksHandle, OpensItself, ThreadAssigns, SetsTls, exits,
           ExitAgrees
  <2>4. CASE ResetsTls \/ ThreadReleases \/ ThreadEnds
    BY <2>4 DEF ResetsTls, ThreadReleases, ThreadEnds, exits, ExitAgrees
  <2>5. QED
    BY <1>2, <2>1, <2>2, <2>3, <2>4 DEF Runner
<1>3. ASSUME NEW c \in Clients, Joiner(c) PROVE ExitAgrees'
  BY <1>3 DEF Joiner, CallJoin, JoinSeesExit, JoinTimesOut, JoinReports, CopyRef, DropRef, exits,
         ExitAgrees
<1>4. CASE UNCHANGED vars
  BY <1>4 DEF ExitAgrees, vars
<1>5. QED
  BY <1>1, <1>2, <1>3, <1>4 DEF Next

----------------------------------------------------------------------------
(* The theorems.                                                           *)

\* In every reachable state the references are counted, the handles accounted
\* for, and the starter, the thread and the clients where the code of
\* start_thread and start_routine lets them be together.
THEOREM ThreadInductive == Spec => []ThreadInv
<1>1. Init => ThreadInv
  BY ThreadInit
<1>2. ThreadInv /\ [Next]_vars => ThreadInv'
  <2> SUFFICES ASSUME ThreadInv, [Next]_vars PROVE ThreadInv'
    OBVIOUS
  <2>1. RefsCounted'
    BY CountKept
  <2>2. TypeOK'
    BY <2>1, TypeKept
  <2>3. NoUseAfterDeletion'
    BY <2>1, <2>2, UsedIsAlive, PTL
  <2>4. HandlesAccounted'
    BY <2>3, HandlesKept
  <2>5. PlacesAgree' /\ ExitAgrees'
    BY PlacesKept, ExitKept
  <2>6. QED
    BY <2>1, <2>2, <2>4, <2>5 DEF ThreadInv
<1>3. QED
  BY <1>1, <1>2, PTL DEF Spec

\* The variables of a thread object stay in their ranges.
THEOREM ThreadTypes == Spec => []TypeOK
<1>1. ThreadInv => TypeOK
  BY DEF ThreadInv
<1>2. QED
  BY <1>1, ThreadInductive, PTL

\* The reference count is the number of references held by start_thread, the
\* new thread and any number of clients; the object is deleted with the last.
THEOREM CountIsRight == Spec => []RefsCounted
<1>1. ThreadInv => RefsCounted
  BY DEF ThreadInv
<1>2. QED
  BY <1>1, ThreadInductive, PTL

\* Neither start, nor a client, nor start_routine up to the end of its try block
\* finds the object deleted.
THEOREM AliveWhileUsed == Spec => []NoUseAfterDeletion
<1>1. ThreadInv => NoUseAfterDeletion
  BY UsedIsAlive DEF ThreadInv
<1>2. QED
  BY <1>1, ThreadInductive, PTL

\* The two handles of the thread are each closed once, whoever of start and
\* start_routine gets to store its own.
THEOREM HandlesClosedOnce == Spec => []HandlesAccounted
<1>1. ThreadInv => HandlesAccounted
  BY DEF ThreadInv
<1>2. QED
  BY <1>1, ThreadInductive, PTL

\* join_timeout_v's assertion that there is a handle holds for every caller.
THEOREM HandleForClients == Spec => []ClientsFindHandle
<1>1. ThreadInv => ClientsFindHandle
  BY DEF ThreadInv, PlacesAgree, ClientsFindHandle, HeldBy
<1>2. QED
  BY <1>1, ThreadInductive, PTL

\* What the object says of the exit agrees with what the function did and with
\* how far the thread has got.
THEOREM ExitsAgree == Spec => []StatesAgree
<1>1. ThreadInv => StatesAgree
  BY DEF ThreadInv, StatesAgree
<1>2. QED
  BY <1>1, ThreadInductive, PTL

\* try_assign_ahth never replaces a handle a client may be waiting on.
THEOREM HandleKept == Spec => HandleStays
<1>1. [Next]_vars => (ahth # "invalid" => ahth' = ahth)
  <2> SUFFICES ASSUME [Next]_vars, ahth # "invalid" PROVE ahth' = ahth
    OBVIOUS
  <2>1. CASE Starter
    BY <2>1 DEF Starter, StartReserves, CreateFails, CreateSucceeds, StarterAssigns, StartReturns,
           TryAssign, handle
  <2>2. CASE Runner
    BY <2>2 DEF Runner, ConsumesReserved, ChecksHandle, OpensItself, ThreadAssigns, SetsTls,
           FnReturns, RecordsExit, FnThrows, ResetsTls, ThreadReleases, ThreadEnds, TryAssign, handle
  <2>3. ASSUME NEW c \in Clients, Joiner(c) PROVE ahth' = ahth
    BY <2>3 DEF Joiner, CallJoin, JoinSeesExit, JoinTimesOut, JoinReports, CopyRef, DropRef, handle
  <2>4. CASE UNCHANGED vars
    BY <2>4 DEF vars
  <2>5. QED
    BY <2>1, <2>2, <2>3, <2>4 DEF Next
<1>2. QED
  BY <1>1, PTL DEF Spec, HandleStays

\* Every join tells the outcome the thread's function had, whichever of the two
\* stores of start_routine and of the clients' steps come in between: a thread
\* implements the abstract promise.
THEOREM ThreadKeepsPromise == Spec => KeepsPromise
<1>1. Init => ThreadPromise!Init
  BY DEF Init, ThreadPromise!Init
<1>2. ThreadInv /\ [Next]_vars => [ThreadPromise!Next]_ThreadPromise!promiseVars
  <2> SUFFICES ASSUME ThreadInv, [Next]_vars
               PROVE  ThreadPromise!Next \/ UNCHANGED <<outcome, result>>
    BY DEF ThreadPromise!promiseVars
  <2> USE DEF ThreadInv
  <2>1. CASE Starter
    BY <2>1 DEF Starter, StartReserves, CreateFails, CreateSucceeds, StarterAssigns, StartReturns,
           exits, joins
  <2>2. CASE Runner
    <3>1. ASSUME NEW code \in ExitCodes, FnReturns(code) PROVE ThreadPromise!Next
      BY <3>1 DEF FnReturns, ExitAgrees, joins, ThreadPromise!Next, ThreadPromise!Ends
    <3>2. CASE FnThrows
      BY <3>2 DEF FnThrows, ExitAgrees, joins, ThreadPromise!Next, ThreadPromise!Ends
    <3>3. CASE ConsumesReserved \/ ChecksHandle \/ OpensItself \/ ThreadAssigns \/ SetsTls
      BY <3>3 DEF ConsumesReserved, ChecksHandle, OpensItself, ThreadAssigns, SetsTls, exits, joins
    <3>4. CASE RecordsExit \/ ResetsTls \/ ThreadReleases \/ ThreadEnds
      BY <3>4 DEF RecordsExit, ResetsTls, ThreadReleases, ThreadEnds, exits, joins
    <3>5. QED
      BY <2>2, <3>1, <3>2, <3>3, <3>4 DEF Runner
  <2>3. ASSUME NEW c \in Clients, Joiner(c)
        PROVE  ThreadPromise!Next \/ UNCHANGED <<outcome, result>>
    <3>1. ASSUME NEW how \in {"forever", "timed"}, CallJoin(c, how) PROVE ThreadPromise!Next
      BY <3>1 DEF CallJoin, exits, ThreadPromise!Next, ThreadPromise!Forgets
    <3>2. CASE JoinReports(c)
      <4>1. outcome' = outcome /\ result' = [result EXCEPT ![c] = Reported]
        BY <3>2 DEF JoinReports, exits
      <4>2. CASE Reported = Nothing
        BY <4>1, <4>2 DEF ThreadPromise!Next, ThreadPromise!Forgets
      <4>3. CASE Reported # Nothing
        <5>1. Reported = outcome /\ outcome # Nothing
          BY <4>3, ThreadAssumption DEF Reported, ExitAgrees, TypeOK, ExitMethods
        <5>2. QED
          BY <4>1, <5>1 DEF ThreadPromise!Next, ThreadPromise!Tells
      <4>4. QED
        BY <4>2, <4>3
    <3>3. CASE JoinSeesExit(c) \/ JoinTimesOut(c)
      BY <3>3 DEF JoinSeesExit, JoinTimesOut, exits
    <3>4. CASE DropRef(c) \/ \E d \in Clients : CopyRef(c, d)
      BY <3>4 DEF DropRef, CopyRef, exits
    <3>5. QED
      BY <2>3, <3>1, <3>2, <3>3, <3>4 DEF Joiner
  <2>4. CASE UNCHANGED vars
    BY <2>4 DEF vars
  <2>5. QED
    BY <2>1, <2>2, <2>3, <2>4 DEF Next
<1>3. QED
  BY <1>1, <1>2, ThreadInductive, PTL DEF Spec, KeepsPromise, ThreadPromise!Spec

=============================================================================
