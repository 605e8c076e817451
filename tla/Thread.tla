------------------------------- MODULE Thread -------------------------------
(***************************************************************************)
(* One qak::thread object (thread_imp): the call of start_thread that      *)
(* makes it, the operating system's thread that runs its function, and the *)
(* clients that copy and drop references to it and join it.                *)
(*                                                                         *)
(* The object is kept alive by counted references.  start() reserves one   *)
(* for the new thread, which consumes it when it gets to run; the starter  *)
(* and the thread both try to provide the handle of the thread, and a      *)
(* compare-and-exchange decides who succeeds.  The model follows the Win32 *)
(* implementation; on POSIX join throws before it does anything.           *)
(***************************************************************************)
EXTENDS Integers, FiniteSets

CONSTANTS
    Clients,    \* threads that get to hold a reference
    ExitCodes,  \* what the thread's function may return
    Threw,      \* the result of a function that threw
    Nothing     \* no result

ASSUME ThreadAssumption ==
    /\ IsFiniteSet(Clients)
    /\ ExitCodes \subseteq Nat /\ 0 \in ExitCodes
    /\ Nothing \notin ExitCodes /\ Threw \notin ExitCodes /\ Nothing # Threw

VARIABLES
    refcnt,     \* the object's reference count
    freed,      \* whether the object has been deleted
    exitMethod, \* thread_imp::exit_method
    exitCode,   \* thread_imp::exit_code
    ahth,       \* thread_imp::ahth, "invalid" or one of Handles
    open,       \* the handles of the thread that are open
    startPc,    \* where start_thread is
    threadPc,   \* where the new thread is
    has,        \* whether each client holds a reference
    joinPc,     \* where each client is in join_timeout_v
    result,     \* what each client's last join told it
    outcome     \* history: how the thread's function really ended

counted == <<refcnt, freed>>
exits  == <<exitMethod, exitCode, outcome>>
handle == <<ahth, open>>
joins  == <<has, joinPc, result>>
vars == <<refcnt, freed, exitMethod, exitCode, ahth, open, startPc, threadPc,
          has, joinPc, result, outcome>>

\* The handle _beginthreadex returned and the one the thread opened itself.
Handles == {"started", "opened"}

ExitMethods == {"not_known_to_have_exited", "exited_normally",
                "exited_via_exception"}

StartPcs == {"new", "create", "assign", "return", "done", "threw"}

ThreadPcs == {"none", "created", "check", "open", "assign", "tls", "fn", "record",
              "tail", "release", "exit", "gone"}

Init ==
    /\ refcnt = 1 /\ freed = FALSE
    /\ exitMethod = "not_known_to_have_exited" /\ exitCode = 0 /\ outcome = Nothing
    /\ ahth = "invalid" /\ open = {}
    /\ startPc = "new" /\ threadPc = "none"
    /\ has = [c \in Clients |-> FALSE]
    /\ joinPc = [c \in Clients |-> "out"]
    /\ result = [c \in Clients |-> Nothing]

----------------------------------------------------------------------------
(* The reference count and the handle.                                     *)

AddRefs(n) == refcnt' = refcnt + n /\ UNCHANGED freed

\* Dropping the last reference deletes the object; its destructor closes ahth.
DropRefs(n) ==
    /\ refcnt' = refcnt - n
    /\ freed' = (freed \/ refcnt - n = 0)
    /\ open' = IF refcnt - n = 0 THEN open \ {ahth} ELSE open

\* Mutants: the handle is stored whether or not there is one already; never.
AssignAlways(h) == ahth' = h /\ UNCHANGED open
AssignNever(h) == open' = open \ {h} /\ UNCHANGED ahth

\* try_assign_ahth: the handle is stored if there is none, otherwise closed.
TryAssign(h) ==
    IF ahth = "invalid" THEN ahth' = h /\ UNCHANGED open
    ELSE open' = open \ {h} /\ UNCHANGED ahth

----------------------------------------------------------------------------
(* start_thread and thread_imp::start.                                     *)

\* Mutant: no reference is reserved for the new thread.
ReservedNone == 1

\* rp_this and the reference reserved for the new thread.
StartRefs == 2

StartReserves ==
    /\ startPc = "new"
    /\ AddRefs(StartRefs)
    /\ startPc' = "create"
    /\ UNCHANGED <<exits, handle, threadPc, joins>>

\* Mutant: the reserved reference is not given back.
FailureKeepsOne == 2

\* The reserved reference, rp_this, and the reference of start_thread.
FailureRefs == 3

\* The thread cannot be created: the exception unwinds both functions.
CreateFails ==
    /\ startPc = "create"
    /\ DropRefs(FailureRefs)
    /\ startPc' = "threw"
    /\ UNCHANGED <<exits, ahth, threadPc, joins>>

CreateSucceeds ==
    /\ startPc = "create"
    /\ threadPc' = "created"
    /\ open' = open \cup {"started"}
    /\ startPc' = "assign"
    /\ UNCHANGED <<counted, exits, ahth, joins>>

StarterAssigns ==
    /\ startPc = "assign"
    /\ TryAssign("started")
    /\ startPc' = "return"
    /\ UNCHANGED <<counted, exits, threadPc, joins>>

\* rp_this is destroyed; the reference of start_thread becomes its caller's.
StartReturns(c) ==
    /\ startPc = "return"
    /\ DropRefs(1)
    /\ has' = [has EXCEPT ![c] = TRUE]
    /\ startPc' = "done"
    /\ UNCHANGED <<exits, ahth, threadPc, joinPc, result>>

----------------------------------------------------------------------------
(* The new thread: start_routine.                                          *)

\* The reserved reference is replaced by rp_thread.
ConsumesReserved ==
    /\ threadPc = "created"
    /\ threadPc' = "check"
    /\ UNCHANGED <<counted, exits, handle, startPc, joins>>

ChecksHandle ==
    /\ threadPc = "check"
    /\ threadPc' = IF ahth = "invalid" THEN "open" ELSE "tls"
    /\ UNCHANGED <<counted, exits, handle, startPc, joins>>

OpensItself ==
    /\ threadPc = "open"
    /\ open' = open \cup {"opened"}
    /\ threadPc' = "assign"
    /\ UNCHANGED <<counted, exits, ahth, startPc, joins>>

ThreadAssigns ==
    /\ threadPc = "assign"
    /\ TryAssign("opened")
    /\ threadPc' = "tls"
    /\ UNCHANGED <<counted, exits, startPc, joins>>

\* The thread local storage gets a reference of its own.
SetsTls ==
    /\ threadPc = "tls"
    /\ AddRefs(1)
    /\ threadPc' = "fn"
    /\ UNCHANGED <<exits, handle, startPc, joins>>

\* The function returns; its result is stored first ...
FnReturns(code) ==
    /\ threadPc = "fn"
    /\ exitCode' = code /\ outcome' = code
    /\ threadPc' = "record"
    /\ UNCHANGED <<counted, exitMethod, handle, startPc, joins>>

\* ... and then the way it exited.
RecordsExit ==
    /\ threadPc = "record"
    /\ exitMethod' = "exited_normally"
    /\ threadPc' = "tail"
    /\ UNCHANGED <<counted, exitCode, outcome, handle, startPc, joins>>

\* Mutants: an exception is recorded as a normal exit, or not at all.
ThrownAsNormal == "exited_normally"
ThrownUnrecorded == "not_known_to_have_exited"

ThrownMethod == "exited_via_exception"

FnThrows ==
    /\ threadPc = "fn"
    /\ exitMethod' = ThrownMethod /\ outcome' = Threw
    /\ threadPc' = "tail"
    /\ UNCHANGED <<counted, exitCode, handle, startPc, joins>>

\* The function object is destroyed and the thread local reference dropped.
ResetsTls ==
    /\ threadPc = "tail"
    /\ DropRefs(1)
    /\ threadPc' = "release"
    /\ UNCHANGED <<exits, ahth, startPc, joins>>

\* The end of the try block destroys rp_thread ...
ThreadReleases ==
    /\ threadPc = "release"
    /\ DropRefs(1)
    /\ threadPc' = "exit"
    /\ UNCHANGED <<exits, ahth, startPc, joins>>

\* ... after which start_routine still reads exit_method and exit_code.
ThreadEnds ==
    /\ threadPc = "exit"
    /\ threadPc' = "gone"
    /\ UNCHANGED <<counted, exits, handle, startPc, joins>>

----------------------------------------------------------------------------
(* The clients.                                                            *)

\* A client that has a reference gives a copy to one that has none.
CopyRef(c, d) ==
    /\ has[c] /\ ~has[d]
    /\ AddRefs(1)
    /\ has' = [has EXCEPT ![d] = TRUE]
    /\ UNCHANGED <<exits, handle, startPc, threadPc, joinPc, result>>

DropRef(c) ==
    /\ has[c] /\ joinPc[c] = "out"
    /\ DropRefs(1)
    /\ has' = [has EXCEPT ![c] = FALSE]
    /\ UNCHANGED <<exits, ahth, startPc, threadPc, joinPc, result>>

ExitKnown == exitMethod # "not_known_to_have_exited"

\* join, timed_join_ns or finished: a thread not known to have exited is waited
\* for, without or with a limit.
CallJoin(c, how) ==
    /\ has[c] /\ joinPc[c] = "out"
    /\ result' = [result EXCEPT ![c] = Nothing]
    /\ joinPc' = [joinPc EXCEPT ![c] = IF ExitKnown THEN "collect" ELSE how]
    /\ UNCHANGED <<counted, exits, handle, startPc, threadPc, has>>

\* WaitForSingleObject returns when the thread is gone; when it times out, as it
\* also does in a wait without limit, the exit method is looked at again.
JoinSeesExit(c) ==
    /\ joinPc[c] \in {"forever", "timed"}
    /\ ExitKnown
    /\ joinPc' = [joinPc EXCEPT ![c] = "collect"]
    /\ UNCHANGED <<counted, exits, handle, startPc, threadPc, has, result>>

JoinTimesOut(c) ==
    /\ joinPc[c] = "timed"
    /\ joinPc' = [joinPc EXCEPT ![c] = "collect"]
    /\ UNCHANGED <<counted, exits, handle, startPc, threadPc, has, result>>

\* The switch over the exit method.
Reported ==
    CASE exitMethod = "not_known_to_have_exited" -> Nothing
      [] exitMethod = "exited_normally" -> exitCode
      [] exitMethod = "exited_via_exception" -> Threw

JoinReports(c) ==
    /\ joinPc[c] = "collect"
    /\ result' = [result EXCEPT ![c] = Reported]
    /\ joinPc' = [joinPc EXCEPT ![c] = "out"]
    /\ UNCHANGED <<counted, exits, handle, startPc, threadPc, has>>

----------------------------------------------------------------------------
Starter ==
    \/ StartReserves \/ CreateFails \/ CreateSucceeds \/ StarterAssigns
    \/ \E c \in Clients : StartReturns(c)

Runner ==
    \/ ConsumesReserved \/ ChecksHandle \/ OpensItself \/ ThreadAssigns \/ SetsTls
    \/ \E code \in ExitCodes : FnReturns(code)
    \/ RecordsExit \/ FnThrows \/ ResetsTls \/ ThreadReleases \/ ThreadEnds

Joiner(c) ==
    \/ \E how \in {"forever", "timed"} : CallJoin(c, how)
    \/ JoinSeesExit(c) \/ JoinTimesOut(c) \/ JoinReports(c)
    \/ \E d \in Clients : CopyRef(c, d)
    \/ DropRef(c)

Next == Starter \/ Runner \/ \E c \in Clients : Joiner(c)

Spec == Init /\ [][Next]_vars

(***************************************************************************)
(* Fairness.  The operating system runs the new thread, whose function     *)
(* ends; a client inside a join is woken.  Nobody needs to join or drop.   *)
(***************************************************************************)
FairSpec ==
    /\ Spec
    /\ WF_vars(Runner)
    /\ \A c \in Clients : WF_vars(JoinSeesExit(c) \/ JoinReports(c))

----------------------------------------------------------------------------
(* Properties.                                                             *)

\* Every variable stays in the range the program gives it.
TypeOK ==
    /\ refcnt \in Nat /\ freed \in BOOLEAN
    /\ exitMethod \in ExitMethods
    /\ exitCode \in ExitCodes
    /\ outcome \in ExitCodes \cup {Threw, Nothing}
    /\ ahth \in Handles \cup {"invalid"}
    /\ open \subseteq Handles
    /\ startPc \in StartPcs /\ threadPc \in ThreadPcs
    /\ has \in [Clients -> BOOLEAN]
    /\ joinPc \in [Clients -> {"out", "forever", "timed", "collect"}]
    /\ result \in [Clients -> ExitCodes \cup {Threw, Nothing}]

\* The references start_thread holds, those of the thread (reserved, on its
\* stack, thread local), and those of the clients.
StarterRefs ==
    CASE startPc = "new" -> 1 [] startPc \in {"assign", "return"} -> 2
      [] startPc = "create" -> 3 [] OTHER -> 0

RunnerRefs ==
    CASE threadPc \in {"created", "check", "open", "assign", "tls", "release"} -> 1
      [] threadPc \in {"fn", "record", "tail"} -> 2
      [] OTHER -> 0

HeldBy == {c \in Clients : has[c]}

\* The count is the number of references, however the starter, the thread and
\* the clients come and go: the object is deleted with the last of them and
\* neither before (a use after the deletion) nor never (a leak).
RefsCounted ==
    /\ refcnt = StarterRefs + RunnerRefs + Cardinality(HeldBy)
    /\ freed <=> refcnt = 0

\* Nobody who is still to use the object finds it deleted.
NoUseAfterDeletion ==
    freed =>
        /\ startPc \in {"done", "threw"}
        /\ threadPc \in {"none", "exit", "gone"}
        /\ HeldBy = {}

\* start_routine reads exit_method to assert that the exit was recorded (line
\* 604): the object is still there.
AliveAtTheEnd == threadPc = "exit" => ~freed

\* Every open handle has one place that will close it: the object, or the
\* function about to hand it over.
HandlesAccounted ==
    open = {h \in Handles :
              \/ ahth = h /\ ~freed
              \/ h = "started" /\ startPc = "assign"
              \/ h = "opened" /\ threadPc = "assign"}

\* Whoever has a reference finds a handle in the object: the assertion at the
\* start of the wait (line 397), and get_id.
ClientsFindHandle == HeldBy # {} => ahth # "invalid"

\* Once there is a handle it stays: a client may be waiting on it.
HandleStays == [][ahth # "invalid" => ahth' = ahth]_vars

\* Joins tell what the function did, and only once it has ended (module Promise).
ThreadPromise == INSTANCE Promise WITH
    Outcomes <- ExitCodes \cup {Threw}, told <- result

KeepsPromise == ThreadPromise!Spec

\* A join without limit returns when the thread's function does.
JoinReturns == \A c \in Clients : joinPc[c] # "out" ~> joinPc[c] = "out"

----------------------------------------------------------------------------
(* The inductive invariant behind the safety properties.                   *)

\* Where the starter, the thread and the clients can be at the same time, and
\* who has seen to the handle.
PlacesAgree ==
    /\ startPc \in {"new", "create", "threw"} <=> threadPc = "none"
    /\ \A c \in Clients : has[c] => startPc = "done"
    /\ \A c \in Clients : joinPc[c] # "out" => has[c]
    /\ startPc \in {"return", "done"} => ahth # "invalid"
    /\ threadPc \in {"tls", "fn", "record", "tail", "release", "exit", "gone"} =>
          ahth # "invalid"
    /\ ahth = "started" => startPc \in {"return", "done"}
    /\ ahth = "opened" => threadPc \notin {"none", "created", "check", "open", "assign"}

\* What the object says of the exit is what happened.
ExitAgrees ==
    /\ exitMethod = "exited_normally" => outcome = exitCode
    /\ exitMethod = "exited_via_exception" => outcome = Threw
    /\ exitMethod = "not_known_to_have_exited" =>
          threadPc \notin {"tail", "release", "exit", "gone"}
    /\ threadPc \in {"none", "created", "check", "open", "assign", "tls", "fn"} =>
          outcome = Nothing
    /\ threadPc \in {"none", "created", "check", "open", "assign", "tls", "fn", "record"} =>
          exitMethod = "not_known_to_have_exited"
    /\ threadPc = "record" => outcome = exitCode

\* The starter, the thread, the handle and the recorded exit agree at every
\* point at which another of them can look.
StatesAgree == PlacesAgree /\ ExitAgrees

=============================================================================
