---------------------------- MODULE ThreadGroup ----------------------------
(***************************************************************************)
(* A qak::thread_group: a pool whose clients set a target number of        *)
(* threads or join the pool, while the worker threads start, offer a stop  *)
(* function, return and are joined.                                        *)
(*                                                                         *)
(* Every client call of thread_group_data is broken at the points where    *)
(* another thread can see or change what it uses: the acquisition and the  *)
(* release of mut_, the unlocked reads and writes of target_cnt_threads_,  *)
(* and each call of a user's stop function.  Entries of threadinfos_ are   *)
(* numbered in the order push_back appends them; entries are only ever     *)
(* removed, so the vector's order is the order of the numbers and "the     *)
(* first entry such that" is "the least number such that".                 *)
(***************************************************************************)
EXTENDS Integers, FiniteSets

CONSTANTS
    Clients,        \* threads that call the group's methods
    NoOne,          \* the owner of mut_ when it is free
    MaxThreads,     \* bound: threads the group starts in its life
    MaxCpus,        \* bound: cpus host_info may report available
    Targets,        \* counts the clients pass to set_target_cnt_threads
    SizeMod,        \* std::size_t counts modulo this
    Impatient,      \* the clients whose timed_join has a finite timeout
    StartMayFail,   \* whether the OS may refuse to create a thread
    FnMayThrow,     \* whether the user's thread function may throw
    StopFnMayThrow, \* whether the stop function it provides may throw
    CopyMayThrow,   \* the states of a thread in which its stop function may fail to be copied
    JoinMayThrow    \* whether thread::join may throw (on POSIX it always does)

ThreadStates == {"not_started", "starting", "started", "stoppable",
                 "stop_requested", "exiting", "joining", "joined"}

ASSUME GroupAssumption ==
    /\ NoOne \notin Clients
    /\ MaxThreads \in Nat
    /\ MaxCpus \in Nat \ {0}
    /\ SizeMod \in Nat /\ MaxThreads < SizeMod
    /\ Targets \subseteq 0..(SizeMod - 1)
    /\ Impatient \subseteq Clients
    /\ StartMayFail \in BOOLEAN /\ FnMayThrow \in BOOLEAN
    /\ CopyMayThrow \subseteq ThreadStates
    /\ StopFnMayThrow \in BOOLEAN /\ JoinMayThrow \in BOOLEAN

VARIABLES
    target,     \* target_cnt_threads_, atomic, written without mut_
    requested,  \* cnt_threads_requested_
    nyj,        \* cnt_threads_not_yet_joined_
    mut,        \* the client inside a critical section of mut_, or NoOne
    infos,      \* the entries of threadinfos_
    created,    \* how many entries were ever appended
    state,      \* thread_info::state
    cpu,        \* thread_info::cpu_ix
    stopFn,     \* whether thread_info::stop_fn holds a function
    run,        \* how far the entry's OS thread is
    asked,      \* history: the entries whose stop_fn has been called
    pc,         \* where each client is in its call
    joinee,     \* rp_ti_to_join of each client, 0 when null
    todo,       \* cnt_to_stop of the call that holds mut_
    busy,       \* cpu_thread_cnts of the call that holds mut_
    online      \* what host_info::cnt_cpus_available returns

counts  == <<requested, nyj>>
entries == <<infos, created, cpu>>
workers == <<state, stopFn, run>>
locals  == <<todo, busy>>
vars == <<target, requested, nyj, mut, infos, created, state, cpu, stopFn,
          run, asked, pc, joinee, todo, busy, online>>

Ids == 1..MaxThreads

\* No OS thread; created; inside fn_; fn_ returned; past the last critical
\* section of the thread's lambda; exit_method recorded.
RunStates == {"absent", "created", "fn", "returned", "tail", "done"}

\* "true" is the idle client whose last call was a timed_join that returned true.
Idle == {"idle", "true"}

StopPcs == {"stop", "join_stop"}

HoldPcs == {"cmp_stop", "nothing_to_do", "read_stop"} \cup StopPcs

Pcs == Idle \cup HoldPcs \cup
       {"loop", "join_top", "join_lock", "join_timeout", "join_scan",
        "join_wait", "join_mark"}

\* Mutant: the counters are signed.
WrapMissing(n) == n

Wrap(n) == n % SizeMod

----------------------------------------------------------------------------
(* Helpers over the entries.                                               *)

UnjoinedStates == ThreadStates \ {"not_started", "joined"}

\* The recount of clean_out_exited_threads.
NotYetJoined == {t \in infos : state[t] \in UnjoinedStates}

\* Mutant: an entry is dropped as soon as somebody is joining its thread.
RemainingUnclaimed == {t \in infos : state[t] \notin {"joining", "joined"}}

\* The entries clean_out_exited_threads leaves in threadinfos_.
Remaining == {t \in infos : state[t] # "joined"}

\* Mutant: an off-by-one in the comparison of states.
StoppableOnceStarted == {t \in infos : state[t] \in {"started", "stoppable"}}

\* The entries stop_specific_thread acts upon.
Stoppable == {t \in infos : state[t] = "stoppable"}

\* The entries figure_cpu_thread_counts stops: their cpu has gone away.
Stranded == {t \in Stoppable : cpu[t] >= online}

\* The counts it returns: every remaining entry, whatever its state.
CpuThreadCnts == [k \in 0..(online - 1) |->
                     Cardinality({t \in Remaining : cpu[t] = k})]

\* k is the first cpu with the fewest threads.
IsLeastBusy(k) ==
    \A j \in 0..(online - 1) :
        \/ CpuThreadCnts[k] < CpuThreadCnts[j]
        \/ CpuThreadCnts[k] = CpuThreadCnts[j] /\ k <= j

\* No cpu has a positive count: busiest_cpu_cnt is 0.
AllIdle == \A k \in DOMAIN busy : busy[k] = 0

BusiestCnt == CHOOSE n \in {busy[k] : k \in DOMAIN busy} :
                  \A k \in DOMAIN busy : busy[k] <= n

\* How many threads share t's cpu; one that is out of range passes for the busiest.
Crowd(t) == IF cpu[t] \in DOMAIN busy THEN busy[cpu[t]] ELSE BusiestCnt

\* The entry the two inner loops of stop_some_threads stop at.
IsVictim(t) ==
    /\ t \in Stoppable
    /\ \A u \in Stoppable :
        Crowd(u) < Crowd(t) \/ (Crowd(u) = Crowd(t) /\ t <= u)

----------------------------------------------------------------------------
\* The vector cpu_thread_cnts before it is filled.
NoCnts == [k \in {} |-> 0]

Init ==
    /\ target = 0 /\ requested = 0 /\ nyj = 0
    /\ mut = NoOne
    /\ infos = {} /\ created = 0
    /\ state  = [t \in Ids |-> "not_started"]
    /\ cpu    = [t \in Ids |-> 0]
    /\ stopFn = [t \in Ids |-> FALSE]
    /\ run    = [t \in Ids |-> "absent"]
    /\ asked = {}
    /\ pc = [c \in Clients |-> "idle"]
    /\ joinee = [c \in Clients |-> 0]
    /\ todo = 0 /\ busy = NoCnts
    /\ online \in 1..MaxCpus

Goto(c, label) == pc' = [pc EXCEPT ![c] = label]

Lock(c) == mut = NoOne /\ mut' = c

Unlock(c) == mut = c /\ mut' = NoOne /\ todo' = 0 /\ busy' = NoCnts

\* clean_out_exited_threads: drop the joined entries, recount the others.
CleanOut ==
    /\ infos' = Remaining
    /\ nyj' = Cardinality(NotYetJoined)

----------------------------------------------------------------------------
(* set_target_cnt_threads, request_all_stop and start_or_stop.             *)

\* The store of the target, without the lock.
SetTarget(c, n) ==
    /\ pc[c] \in Idle
    /\ target' = n
    /\ Goto(c, "loop")
    /\ UNCHANGED <<counts, mut, entries, workers, asked, joinee, locals, online>>

\* figure_cpu_thread_counts at the head of start_some_new_thread.  extra is 1
\* when the entry is appended as well and 0 when memory ran out before that.
FigureAndCount(extra) ==
    /\ requested' = Wrap(requested - Cardinality(Stranded) + extra)
    /\ nyj' = Wrap(Cardinality(NotYetJoined) + extra)
    /\ asked' = asked \cup Stranded

\* start_some_new_thread appends an entry, counts it and starts its thread.
\* When start_thread throws the entry stays behind and the call ends.
StartSomeNewThread(c, started) ==
    /\ pc[c] = "loop" /\ mut = NoOne
    /\ requested < target
    /\ created < MaxThreads
    /\ FigureAndCount(1)
    /\ created' = created + 1
    /\ infos' = Remaining \cup {created'}
    /\ \E k \in 0..(online - 1) :
        IsLeastBusy(k) /\ cpu' = [cpu EXCEPT ![created'] = k]
    /\ state' = [state EXCEPT ![created'] = "starting"]
    /\ run' = [run EXCEPT ![created'] = IF started THEN "created" ELSE "absent"]
    /\ Goto(c, IF started THEN "loop" ELSE "idle")
    /\ UNCHANGED <<target, mut, stopFn, joinee, locals, online>>

\* The allocation of the thread_info fails: the call ends, nothing is appended.
StartRunsOutOfMemory(c) ==
    /\ pc[c] = "loop" /\ mut = NoOne
    /\ requested < target
    /\ FigureAndCount(0)
    /\ infos' = Remaining
    /\ Goto(c, "idle")
    /\ UNCHANGED <<target, mut, created, cpu, workers, joinee, locals, online>>

\* The first comparison fails; the lock is held across the next ones.
NothingToStart(c) ==
    /\ pc[c] = "loop" /\ Lock(c)
    /\ requested >= target
    /\ Goto(c, "cmp_stop")
    /\ UNCHANGED <<target, counts, entries, workers, asked, joinee, locals, online>>

\* The second comparison reads the target again.
CompareToStop(c) ==
    /\ pc[c] = "cmp_stop"
    /\ Goto(c, IF target < requested THEN "read_stop" ELSE "nothing_to_do")
    /\ UNCHANGED <<target, counts, mut, entries, workers, asked, joinee, locals, online>>

\* The loop's else branch: start_or_stop returns.
StartOrStopReturns(c) ==
    /\ pc[c] = "nothing_to_do"
    /\ Unlock(c)
    /\ Goto(c, "idle")
    /\ UNCHANGED <<target, counts, entries, workers, asked, joinee, online>>

\* stop_some_threads(n) up to its loop: clean out, stop the stranded, count.
BeginStop(c, n, label) ==
    /\ CleanOut
    /\ requested' = Wrap(requested - Cardinality(Stranded))
    /\ asked' = asked \cup Stranded
    /\ todo' = n
    /\ busy' = CpuThreadCnts
    /\ Goto(c, label)

\* The third read of the target gives the number to stop.
ReadCountToStop(c) ==
    /\ pc[c] = "read_stop"
    /\ BeginStop(c, Wrap(requested - target), "stop")
    /\ UNCHANGED <<target, mut, created, cpu, workers, joinee, online>>

\* stop_specific_thread: the stop function is called, the count goes down.
\* The new state is assigned to a local only; thread_info::state stays.
StopSpecificThread(t) ==
    /\ asked' = asked \cup {t}
    /\ requested' = Wrap(requested - 1)
    /\ UNCHANGED state

\* One round of the loop of stop_some_threads that finds a thread to stop.
StopOne(c) ==
    /\ pc[c] \in StopPcs
    /\ todo > 0 /\ ~AllIdle
    /\ \E t \in infos :
        /\ IsVictim(t)
        /\ StopSpecificThread(t)
        /\ busy' = [k \in DOMAIN busy |->
                        IF k = cpu[t] THEN Wrap(busy[k] - 1) ELSE busy[k]]
    /\ todo' = todo - 1
    /\ UNCHANGED <<target, nyj, mut, entries, stopFn, run, pc, joinee, online>>

\* Mutant: line 592 is missing, the loop goes on when no thread can be stopped.
NeverRunsOut == todo = 0 \/ AllIdle

StopLoopOver == todo = 0 \/ AllIdle \/ Stoppable = {}

\* The loop ends: enough were stopped, or no cpu is busy, or none can be stopped.
StopEnds(c) ==
    /\ pc[c] \in StopPcs
    /\ StopLoopOver
    /\ Unlock(c)
    /\ Goto(c, IF pc[c] = "stop" THEN "loop" ELSE "join_timeout")
    /\ UNCHANGED <<target, counts, entries, workers, asked, joinee, online>>

\* Plausible bug: mut_ is not given back when the exception passes.
StopFnThrowsLocked(c) ==
    /\ StopFnMayThrow
    /\ pc[c] \in StopPcs /\ todo > 0 /\ ~AllIdle
    /\ \E t \in infos : IsVictim(t) /\ asked' = asked \cup {t}
    /\ Goto(c, "idle")
    /\ UNCHANGED <<target, counts, mut, entries, workers, joinee, locals, online>>

\* The stop function throws: the thread was asked but is not counted off, mut_ is
\* given back and the exception ends the client's call.
StopFnThrows(c) ==
    /\ StopFnMayThrow
    /\ pc[c] \in StopPcs /\ todo > 0 /\ ~AllIdle
    /\ \E t \in infos : IsVictim(t) /\ asked' = asked \cup {t}
    /\ Unlock(c)
    /\ Goto(c, "idle")
    /\ UNCHANGED <<target, counts, entries, workers, joinee, online>>

\* c is about to call figure_cpu_thread_counts, to start a thread or to stop some.
AboutToFigure(c) ==
    \/ pc[c] = "loop" /\ mut = NoOne /\ requested < target
    \/ pc[c] = "read_stop"
    \/ pc[c] = "join_lock" /\ mut = NoOne /\ Remaining # {}

\* The cpus cannot be counted, or there is no memory for the cleaned vector or for the
\* counts: the exception ends the call before any thread is asked.  Entries that were only
\* reset to null are gone for every later look at threadinfos_.
FigureThrows(c) ==
    /\ AboutToFigure(c)
    /\ CleanOut
    /\ mut' = NoOne
    /\ Goto(c, "idle")
    /\ UNCHANGED <<target, requested, created, cpu, workers, asked, joinee, locals, online>>

\* The stop function of a stranded thread throws: those before it were asked and counted
\* off, nothing is started and no other is stopped.
StrandedStopThrows(c) ==
    /\ StopFnMayThrow
    /\ AboutToFigure(c)
    /\ CleanOut
    /\ \E t \in Stranded :
        LET before == {u \in Stranded : u < t} IN
        /\ requested' = Wrap(requested - Cardinality(before))
        /\ asked' = asked \cup before \cup {t}
    /\ mut' = NoOne
    /\ Goto(c, "idle")
    /\ UNCHANGED <<target, created, cpu, workers, joinee, locals, online>>

----------------------------------------------------------------------------
(* timed_join and join_exiting_threads.                                    *)

CallJoin(c) ==
    /\ pc[c] \in Idle
    /\ Goto(c, "join_top")
    /\ UNCHANGED <<target, counts, mut, entries, workers, asked, joinee, locals, online>>

\* Every round of timed_join first overwrites the target.
JoinClearsTarget(c) ==
    /\ pc[c] = "join_top"
    /\ target' = 0
    /\ Goto(c, "join_lock")
    /\ UNCHANGED <<counts, mut, entries, workers, asked, joinee, locals, online>>

\* Nothing is left after the clean-out: timed_join returns true.
JoinReturnsTrue(c) ==
    /\ pc[c] = "join_lock" /\ mut = NoOne
    /\ Remaining = {}
    /\ CleanOut
    /\ Goto(c, "true")
    /\ UNCHANGED <<target, requested, mut, created, cpu, workers, asked, joinee, locals, online>>

\* Otherwise it asks as many threads to stop as there are entries.
JoinStopsSome(c) ==
    /\ pc[c] = "join_lock" /\ Lock(c)
    /\ Remaining # {}
    /\ BeginStop(c, Cardinality(Remaining), "join_stop")
    /\ UNCHANGED <<target, created, cpu, workers, joinee, online>>

\* The time is up: timed_join returns false.
JoinTimesOut(c) ==
    /\ pc[c] = "join_timeout" /\ c \in Impatient
    /\ Goto(c, "idle")
    /\ UNCHANGED <<target, counts, mut, entries, workers, asked, joinee, locals, online>>

JoinKeepsWaiting(c) ==
    /\ pc[c] = "join_timeout"
    /\ Goto(c, "join_scan")
    /\ UNCHANGED <<target, counts, mut, entries, workers, asked, joinee, locals, online>>

Exiting == {t \in infos : state[t] = "exiting"}

\* Mutant: the claim is not recorded in the entry.
ClaimUnrecorded(t) == t \in Ids /\ UNCHANGED state

Claim(t) == state' = [state EXCEPT ![t] = "joining"]

\* join_exiting_threads claims the first exiting entry under the lock ...
JoinClaims(c) ==
    /\ pc[c] = "join_scan" /\ mut = NoOne
    /\ \E t \in Exiting :
        /\ \A u \in Exiting : t <= u
        /\ joinee' = [joinee EXCEPT ![c] = t]
        /\ Claim(t)
    /\ Goto(c, "join_wait")
    /\ UNCHANGED <<target, counts, mut, entries, stopFn, run, asked, locals, online>>

\* ... or finds none and goes back, after a sleep, to the top of timed_join.
JoinFindsNone(c) ==
    /\ pc[c] = "join_scan" /\ mut = NoOne
    /\ Exiting = {}
    /\ Goto(c, "join_top")
    /\ UNCHANGED <<target, counts, mut, entries, workers, asked, joinee, locals, online>>

\* Mutant: the group does not wait for the thread it has seen exiting.
JoinsAtOnce(t) == run[t] # "absent"

\* What thread::join waits for: the thread has recorded how it exited.
HasExited(t) == run[t] = "done"

JoinWaits(c) ==
    /\ pc[c] = "join_wait"
    /\ HasExited(joinee[c])
    /\ Goto(c, "join_mark")
    /\ UNCHANGED <<target, counts, mut, entries, workers, asked, joinee, locals, online>>

\* thread::join is not implemented, or its wait fails: the exception ends the call.
JoinThrows(c) ==
    /\ pc[c] = "join_wait" /\ JoinMayThrow
    /\ joinee' = [joinee EXCEPT ![c] = 0]
    /\ Goto(c, "idle")
    /\ UNCHANGED <<target, counts, mut, entries, workers, asked, locals, online>>

\* Mutants: the count is not brought down; the entry is not marked.
MarkUncounted(t) == state' = [state EXCEPT ![t] = "joined"] /\ UNCHANGED nyj
CountUnmarked(t) == t \in Ids /\ nyj' = Wrap(nyj - 1) /\ UNCHANGED state

MarkJoined(t) ==
    /\ state' = [state EXCEPT ![t] = "joined"]
    /\ nyj' = Wrap(nyj - 1)

\* The joiner registers the transition under the lock and looks for another.
JoinMarks(c) ==
    /\ pc[c] = "join_mark" /\ mut = NoOne
    /\ MarkJoined(joinee[c])
    /\ joinee' = [joinee EXCEPT ![c] = 0]
    /\ Goto(c, "join_scan")
    /\ UNCHANGED <<target, requested, mut, entries, stopFn, run, asked, locals, online>>

----------------------------------------------------------------------------
(* The worker threads: the lambda start_some_new_thread runs.              *)

WorkerStarts(t) ==
    /\ run[t] = "created" /\ mut = NoOne
    /\ state' = [state EXCEPT ![t] = "started"]
    /\ run' = [run EXCEPT ![t] = "fn"]
    /\ UNCHANGED <<target, counts, mut, entries, stopFn, asked, pc, joinee, locals, online>>

\* Mutants: the check of the state is dropped; the state is not set.
OfferUnchecked(t) == state' = [state EXCEPT ![t] = "stoppable"]
OfferUnnoticed(t) == t \in Ids /\ UNCHANGED state

Offer(t) == state' = [state EXCEPT ![t] = IF @ = "started" THEN "stoppable" ELSE @]

\* provide_thread_stop_fn, which the user's function may call at any time, and
\* may hand to another thread that calls it after the function has returned.
ProvideStopFn(t) ==
    /\ run[t] \notin {"absent", "created"} /\ mut = NoOne
    /\ stopFn' = [stopFn EXCEPT ![t] = TRUE]
    /\ Offer(t)
    /\ UNCHANGED <<target, counts, mut, entries, run, asked, pc, joinee, locals, online>>

\* The function given cannot be copied.  By then the assignment has dropped the one that was
\* there, and the state stays as it is: a thread that was stoppable has nothing to stop it by.
ProvideFails(t) ==
    /\ run[t] \notin {"absent", "created"} /\ mut = NoOne
    /\ state[t] \in CopyMayThrow
    /\ stopFn' = [stopFn EXCEPT ![t] = FALSE]
    /\ UNCHANGED <<target, counts, mut, entries, state, run, asked, pc, joinee, locals, online>>

\* The user's function returns, because it was asked to or of its own accord.
FnReturns(t) ==
    /\ run[t] = "fn"
    /\ run' = [run EXCEPT ![t] = "returned"]
    /\ UNCHANGED <<target, counts, mut, entries, state, stopFn, asked, pc, joinee, locals, online>>

\* Its exception leaves the lambda at once; start_routine records the exit.
FnThrows(t) ==
    /\ FnMayThrow /\ run[t] = "fn"
    /\ run' = [run EXCEPT ![t] = "done"]
    /\ UNCHANGED <<target, counts, mut, entries, state, stopFn, asked, pc, joinee, locals, online>>

WorkerExits(t) ==
    /\ run[t] = "returned" /\ mut = NoOne
    /\ state' = [state EXCEPT ![t] = "exiting"]
    /\ run' = [run EXCEPT ![t] = "tail"]
    /\ UNCHANGED <<target, counts, mut, entries, stopFn, asked, pc, joinee, locals, online>>

\* start_routine stores exit_method after the lambda has returned.
WorkerIsGone(t) ==
    /\ run[t] = "tail"
    /\ run' = [run EXCEPT ![t] = "done"]
    /\ UNCHANGED <<target, counts, mut, entries, state, stopFn, asked, pc, joinee, locals, online>>

\* The number of available cpus changes.
CpusChange ==
    /\ online' \in 1..MaxCpus
    /\ UNCHANGED <<target, counts, mut, entries, workers, asked, pc, joinee, locals>>

----------------------------------------------------------------------------
\* What a client inside a call does next by itself.
Advance(c) ==
    \/ StartSomeNewThread(c, TRUE)
    \/ NothingToStart(c) \/ CompareToStop(c) \/ StartOrStopReturns(c)
    \/ ReadCountToStop(c) \/ StopOne(c) \/ StopEnds(c)
    \/ JoinClearsTarget(c) \/ JoinReturnsTrue(c) \/ JoinStopsSome(c)
    \/ JoinKeepsWaiting(c) \/ JoinClaims(c) \/ JoinFindsNone(c)
    \/ JoinWaits(c) \/ JoinMarks(c)

Client(c) ==
    \/ Advance(c)
    \/ \E n \in Targets : SetTarget(c, n)
    \/ StartMayFail /\ StartSomeNewThread(c, FALSE)
    \/ StartRunsOutOfMemory(c)
    \/ StopFnThrows(c) \/ StrandedStopThrows(c) \/ FigureThrows(c)
    \/ CallJoin(c) \/ JoinTimesOut(c) \/ JoinThrows(c)

Worker(t) ==
    \/ WorkerStarts(t) \/ ProvideStopFn(t) \/ ProvideFails(t)
    \/ FnReturns(t) \/ FnThrows(t)
    \/ WorkerExits(t) \/ WorkerIsGone(t)

Next ==
    \/ \E c \in Clients : Client(c)
    \/ \E t \in Ids : Worker(t)
    \/ CpusChange

Spec == Init /\ [][Next]_vars

(***************************************************************************)
(* Fairness.  A client inside a call and a worker outside the user's code  *)
(* keep running, and each gets mut_ in the end although others take it     *)
(* again and again: start_or_stop spins without a pause and timed_join     *)
(* sleeps between rounds, so this is the operating system's part, hence    *)
(* strong fairness.  A thread function is one that the header asks for: it *)
(* provides a stop function and returns once that was called.  Nothing     *)
(* makes a client call, a timeout expire, or memory run out.               *)
(***************************************************************************)
ReturnsWhenAsked(t) == t \in asked /\ FnReturns(t)

Fairness ==
    /\ \A c \in Clients : SF_vars(Advance(c))
    /\ \A t \in Ids :
        /\ SF_vars(WorkerStarts(t) \/ ProvideStopFn(t) \/ WorkerExits(t))
        /\ WF_vars(ReturnsWhenAsked(t))
        /\ WF_vars(WorkerIsGone(t))

FairSpec == Spec /\ Fairness

----------------------------------------------------------------------------
(* Properties.                                                             *)

\* Every variable stays in the range the program gives it.
TypeOK ==
    /\ target \in 0..(SizeMod - 1)
    /\ requested \in 0..(SizeMod - 1)
    /\ nyj \in 0..(SizeMod - 1)
    /\ mut \in Clients \cup {NoOne}
    /\ infos \subseteq Ids
    /\ created \in 0..MaxThreads
    /\ state \in [Ids -> ThreadStates]
    /\ cpu \in [Ids -> Nat]
    /\ stopFn \in [Ids -> BOOLEAN]
    /\ run \in [Ids -> RunStates]
    /\ asked \subseteq Ids
    /\ pc \in [Clients -> Pcs]
    /\ joinee \in [Clients -> 0..MaxThreads]
    /\ todo \in 0..(SizeMod - 1)
    /\ \E n \in 0..MaxCpus : busy \in [0..(n - 1) -> 0..(SizeMod - 1)]
    /\ online \in 1..MaxCpus

\* The running count of threads to join equals a recount of the entries at
\* every moment, whoever starts, marks or cleans out entries (the assertion of
\* clean_out_exited_threads, line 360); so the decrement of
\* join_exiting_threads never wraps.
NotYetJoinedCounted == nyj = Cardinality(NotYetJoined)

\* However many clients join at once, a thread is waited for and marked joined
\* by one client only, which finds it in the state in which it left it (the
\* assertion of line 321).
OneJoinerPerThread ==
    /\ \A c \in Clients : joinee[c] # 0 => state[joinee[c]] = "joining"
    /\ \A c, d \in Clients : joinee[c] # 0 /\ joinee[c] = joinee[d] => c = d

\* A thread that was claimed for joining has a client that will mark it joined:
\* "Joins any threads in the exiting state, changing them to the joined state"
\* (line 112).
NoAbandonedJoin ==
    \A t \in Ids : state[t] = "joining" => \E c \in Clients : joinee[c] = t

\* Only an entry whose thread is certainly gone is dropped from threadinfos_,
\* and none is lost on the way: a thread that may still run user code is there
\* for a join to find.
NoThreadIsLost ==
    \A t \in 1..created :
        /\ run[t] \in RunStates \ {"absent", "done"} => t \in infos
        /\ t \notin infos => state[t] = "joined"

\* timed_join tells the caller that all threads have exited only in a state in
\* which no thread of the group runs, although threads start and end while
\* the call scans, unlocks, waits and locks again.
JoinTellsTheTruth ==
    [][\A c \in Clients : pc'[c] = "true" /\ pc[c] # "true" =>
          \A t \in 1..created : run[t] = "done"]_vars

\* A stop function is called only after the thread has provided one (the
\* assertion of line 609) and never once the group knows the thread to be
\* exiting, whoever calls the provider and how often.
StopFnCalledWhenProvided ==
    [][\A t \in asked' \ asked :
          stopFn[t] /\ state[t] \in {"stoppable", "stop_requested"}]_vars

StateOrder == [s \in ThreadStates |->
    CASE s = "not_started" -> 0 [] s = "starting" -> 1 [] s = "started" -> 2
      [] s = "stoppable" -> 3   [] s = "stop_requested" -> 4
      [] s = "exiting" -> 5     [] s = "joining" -> 6 [] s = "joined" -> 7]

\* The state of a thread only moves forward in the order of the enumeration,
\* with workers, joiners and a late provide_thread_stop_fn all writing it.
StatesMoveForward ==
    [][\A t \in Ids : StateOrder[state[t]] <= StateOrder[state'[t]]]_vars

\* What thread_group promises: each thread is launched, ends and is reaped once,
\* and joins answer truthfully (module WorkerPool).  An entry whose thread could
\* not be started counts as one that is still to be waited for.
Phase(t) ==
    CASE t > created -> "none"
      [] t <= created /\ state[t] = "joined" -> "reaped"
      [] t <= created /\ state[t] # "joined" /\ run[t] = "done" -> "ended"
      [] OTHER -> "running"

Phases == [t \in Ids |-> Phase(t)]

\* The clients whose last call was a join that returned true.
Told == {c \in Clients : pc[c] = "true"}

Pool == INSTANCE WorkerPool WITH phase <- Phases, told <- Told

ImplementsPool == Pool!Spec

InJoin(c) == pc[c] \in {"join_top", "join_lock", "join_stop", "join_timeout",
                        "join_scan", "join_wait", "join_mark"}

\* A join ends when the thread functions keep to the header's protocol, however
\* many clients join and however the stop requests and the exits interleave.
JoinReturns == \A c \in Clients : InJoin(c) ~> pc[c] \in Idle

\* The lock is not kept: the loops run under mut_ come to an end.
LockIsReleased == mut # NoOne ~> mut = NoOne

InSetTarget(c) == pc[c] \in {"loop", "cmp_stop", "nothing_to_do", "read_stop", "stop"}

\* request_all_stop "does not actually block" (thread_group.hxx, line 60): with
\* the target left at 0 and a thread function that provides a stop function and
\* returns when asked to, the call returns.
RequestAllStopReturns ==
    \A c \in Clients : InSetTarget(c) /\ target = 0 ~> pc[c] \in Idle \/ target # 0

\* join "blocks until all threads in the group have exited" (thread_group.hxx,
\* line 64): when they have, and no new one is started, it returns.
AllExited == \A t \in 1..created : run[t] = "done"

JoinReturnsOnceAllExited ==
    \A c \in Clients : InJoin(c) /\ AllExited ~> pc[c] \in Idle \/ ~AllExited

\* cnt_threads_requested_ is "the count of threads that have been requested to
\* start and have not yet been requested to stop" (thread_group.cxx, line 56).
RequestedCountsUnasked ==
    mut = NoOne => requested = Cardinality(1..created \ asked)

\* start_or_stop leaves its loop with the count at the target (the assertion of
\* line 426).
LoopExitAssertion ==
    \A c \in Clients : pc[c] = "nothing_to_do" => requested = target

----------------------------------------------------------------------------
(* The inductive invariant behind the safety properties.                   *)

\* The clients in a multi-step critical section are exactly the owner of mut_.
LockHeld == \A c \in Clients : pc[c] \in HoldPcs <=> mut = c

\* What thread_info::state tells of the OS thread.
RunsOf(s) ==
    CASE s = "not_started" -> {"absent"}
      [] s = "starting" -> {"absent", "created"}
      [] s \in {"started", "stoppable"} -> {"fn", "returned", "done"}
      [] s \in {"exiting", "joining"} -> {"tail", "done"}
      [] s = "joined" -> {"done"}
      [] OTHER -> {}

\* The state written under the lock and the thread itself do not contradict
\* each other, at any point between two critical sections.
StateTellsRun == \A t \in Ids : run[t] \in RunsOf(state[t])

\* A thread that the group may ask to stop has a function to ask by, unless one that was to
\* replace it could not be copied.
StoppableHasFn == \A t \in Ids : state[t] = "stoppable" => stopFn[t]

\* Entries appear in order and are all accounted for.
EntriesAccounted ==
    /\ infos \subseteq 1..created
    /\ \A t \in Ids : t > created <=> state[t] = "not_started"
    /\ \A t \in 1..created : t \notin infos => state[t] = "joined"

\* A client has a joinee exactly while it waits for it and marks it.
JoineeHeld ==
    \A c \in Clients :
        /\ joinee[c] # 0 <=> pc[c] \in {"join_wait", "join_mark"}
        /\ joinee[c] # 0 => joinee[c] \in infos
        /\ pc[c] = "join_mark" => run[joinee[c]] = "done"

Consistent == LockHeld /\ StateTellsRun /\ StoppableHasFn /\ EntriesAccounted /\ JoineeHeld

=============================================================================
