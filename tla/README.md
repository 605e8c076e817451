# A specification of qak

qak is a C++11 utility library (namespace `qak`, built as `libqak`, with a test program): a threading layer
(`qak::mutex`, `qak::thread`, `qak::thread_group`, `qak::atomic`), counted pointers, containers, permutations, UTF-8, clocks and
counts of cpus. These modules specify what is hard to get right by testing in each of them. Line numbers below are those of
`src/libqak/*.cxx` and `src/include/qak/*.hxx`.

- `tlc -workers 2 -config X.cfg M.tla` model-checks (`PROJECT.json` names the module of each run);
- `tlapm YProofs.tla` checks the proofs.

## 1. The system

### 1.1 Components

| component | state | operations | what makes it correct |
|---|---|---|---|
| `thread_group` | `mut_`; the vector of `thread_info` (state, cpu, stop function, `thread`); counters `target_cnt_threads_`, `cnt_threads_requested_`, `cnt_threads_not_yet_joined_` | `set_target_cnt_threads`, `request_all_stop`, `timed_join`/`join`; per worker `provide_thread_stop_fn` and the lambda around the user's function | counters agree with the entries; each thread is reaped once; join tells the truth and ends; stop functions are called only when there is one |
| `mutex`, `mutex_lock` | owner id beside the system's mutex or critical section; the pointer in each lock object | `lock`, `try_lock`, `is_locked_by_this_thread`; move and destruction of `mutex_lock` | mutual exclusion; the id is right when read without a lock; a relock throws |
| `thread` (`thread_imp`) | reference count, handle, exit code, exit method, function objects, a thread-local reference | `start_thread`, `start_routine`, `join`, `timed_join_ns`, `finished`; `sleep_ns`, `set_cpu_affinity`, `this_thread::get` | alive while used, deleted in the end; handles closed once; joins tell the outcome; sleeps last as long as asked for; any index binds a thread to a cpu |
| `atomic` | one word, maybe wider than the type | load, store, exchange, compare-exchange, `++`, `--` | no increment is lost; a compare-exchange loop ends |
| `rptr` | intrusive count; the pointer, with garbage for a moved-from one in debug builds | construction, copy, move, assign, swap, reset, destruction | count = pointers; an object exists while it is pointed to |
| `vector` | three pointers: buffer, end of the elements, end of the buffer; the life time of the elements | constructors, `assign`, `resize`, `reserve`, `push_back`, ... | the slots below the size hold elements and no others; each element is constructed and destroyed once, exceptions or not |
| `optional` | a byte and room for one element | constructors, assignments, `swap`, `reset` | the byte tells whether there is an element; what calls leave |
| `index_permutation`, `rotate_sequence` | a forward and a reverse mapping | `reset`, `extend`, `invert`, `swap`, `rotate`, `remove`, `mult_by`, `square`, assignment | the mappings are inverse to each other; a rotation rotates |
| `ucs` | the validator's count of missing octets, least valid value and bits | writing, validating octet by octet | accepts just what is written |
| `stopwatch`, `now` | start time and accumulated time | start, stop, restart, reset, read | the time read is the time run, never more |
| `host_info` | a 500 ms cache of the numbers of cpus | `cnt_cpus_configured`, `cnt_cpus_available` | an answer was true in the last 500 ms |
| `prng64`, `hash` | 64-bit words | arithmetic | - |
| `threadls`, `static_data`, `io`, `fail`, macros, test application | - | - | - |

### 1.2 How they interact

- `thread_group` starts a `thread` per entry. The lambda the thread runs takes the group's `mut_` to record
  `started`, `stoppable` (in `provide_thread_stop_fn`) and `exiting`; clients take it to start, count, stop and join.
- `mut_` is **not** held while a client waits in `thread::join` (line 317), nor when `target_cnt_threads_`, an atomic, is
  stored (line 168, and at the top of each round of `timed_join`), so `start_or_stop`, which holds it, may read
  different targets in one round (lines 415, 419, and 421 or 426).
- The user's stop function is called back under `mut_`, and may throw.
- `thread` is reference counted by `rptr`; the creating call, the new thread and its clients share the object.
- `thread_group` asks `host_info` how many cpus there are, on every pass, and the answer may change between passes. It gives
  each entry a cpu, but the call that would bind the thread to it is compiled out (lines 522-526): the number is only counted by.
- `thread::set_cpu_affinity`, public but without a caller, asks `host_info` as well.
- `vector` holds the group's entries and the mappings of permutations; `rotate_sequence` is the core of `rotate`.

### 1.3 What is hard

- **Interleavings.** Several clients in `start_or_stop` and `timed_join` at once, with workers in between; threads that give up
  and copy pointers to a shared object; a compare-exchange loop among increments.
- **State used after it may have changed.** The target in `start_or_stop`; the entry a joiner claimed before it let
  go of `mut_`; the handle found missing in `start_routine`; the thread object after the last reference is dropped; the source of
  an assignment after what its target held is deleted; the number of cpus; `errno`.
- **Partial failure.** `start_thread` throws after the entry was appended; the thread function, or the stop function, throws;
  `join` throws (on POSIX always); the thread cannot be created after a reference was reserved for it; an element throws in the
  middle of a loop of `vector`, or between the assignments of a permutation's two mappings; `sysconf` fails.
- **Liveness.** `start_or_stop` and `timed_join` are loops that end only when other threads do their part.
- **Numbers.** All counts are `std::size_t`: one decrement too many wraps. Clocks are unsigned and may be set back, representations
  of atomics are wider than their types, sizes of permutations wrap, and UTF-8 has limits at both ends of each length.

`PROJECT.json` lists each hazard at its line with the properties that catch it.

## 2. The modules

| module | what it is |
|---|---|
| `ThreadGroup` | `thread_group_data`, its clients and its workers |
| `WorkerPool` | what a thread group promises: threads are launched, end and are reaped once; "all exited" is told truthfully |
| `Mutex` | `mutex` and `mutex_lock` on both platforms |
| `MutexPromise` | what a mutex promises: one thread at a time has it, from the return of `lock` to the destructor |
| `Thread` | one `thread_imp`: its creation, its thread, its clients |
| `Promise` | what a thread promises those who join it: it ends once and they are told how |
| `Sleep` | `this_thread::sleep_ns` on both platforms, with signals |
| `Affinity` | `thread::set_cpu_affinity` on both platforms, with cpus that come and go |
| `Atomic` | a signed integral `atomic` whose representation may be wider |
| `Rptr` | `rptr` and `rptr_imp` in both builds: pointers of several threads, and pointers inside the objects |
| `Elements`, `Vector` | `vector<T>`, one element at a time |
| `Optional` | `optional<T>`, one element operation at a time |
| `Permutation` | `index_permutation`, `rotate_sequence` |
| `Utf8` | the writer and the validator of `ucs` |
| `Stopwatch` | `stopwatch` and the clock under it |
| `HostInfo` | the cached numbers of cpus |
| `MCThreadGroup` | the symmetry of the clients, for TLC |
| `MCThreads`, `MCComponents` | the other modules for TLC, one in turn (section 3) |
| `ThreadGroupProofs`, `MutexProofs`, `ThreadProofs`, `RptrProofs`, `VectorProofs` | theorems about the module of that name |
| `ContainerProofs` | theorems about `Permutation` and `Optional` |
| `MCThreadsProofs` | theorems about `Sleep` and `Atomic`, and about the whole of `MCThreads` |
| `MCComponentsProofs` | theorems about `Stopwatch`, `HostInfo`, `Affinity` and `Utf8`, and about the whole of `MCComponents` |

Detailed modules implement the abstract ones by `INSTANCE ... WITH`; the mapped state is defined beside the property
(`Phases` and `Told` in `ThreadGroup`, `LockedBy` in `Mutex`, `result` in `Thread`). `ThreadGroup` uses of
the other two what `MutexPromise` and `Promise` state: one client inside a critical section of `mut_`, and a join that
returns after the thread's function has. The sequential components have the abstract value beside the concrete one instead: `goal` in
`Vector` and `meant` in `Optional` are what the user may expect after a call, `balance` in `Atomic` what was put in, `ran` in
`Stopwatch` the time passed.

### 2.1 ThreadGroup

Entries are numbered in the order of `push_back`; since the vector is only appended to and filtered, "the first entry
such that" is the least number. Variables follow the fields (`target`, `requested`, `nyj`, `state`, `cpu`, `stopFn`);
`run` is how far the entry's OS thread is, `pc` where a client is, and `todo` and `busy` are the local variables of
`stop_some_threads`, which need no index because their owner holds `mut_`.

A critical section that nothing outside can look into is one action, with the calls it makes inside it
(`clean_out_exited_threads`, `figure_cpu_thread_counts`). It is split where something outside can: `start_or_stop` is
`NothingToStart`, `CompareToStop`, `ReadCountToStop` / `StartOrStopReturns`, one step for each read of the target; and
`stop_some_threads` is one `StopOne` per stop function called. In `timed_join` the claim (`JoinClaims`), the wait
(`JoinWaits`) and the mark (`JoinMarks`) are separate because `mut_` is released in between.

`stop_specific_thread` leaves `state` alone: the code assigns `stop_requested` to a local variable (line 614). That is
modelled as it is, and is why the count of requested threads drifts (`group_requested_drifts`).

Failures: `StartSomeNewThread(c, FALSE)` is a refused thread creation, `StartRunsOutOfMemory` a failed allocation of the
entry, `FnThrows` a thread function that throws, `JoinThrows` a join that throws: always on POSIX, where it is not implemented,
and on Win32 when the wait fails. The model lets a join throw or wait, which includes both platforms. `StopFnThrows` and
`StrandedStopThrows` are a stop function that throws: the thread was asked but is not counted off, and the exception leaves
`stop_some_threads`, or `figure_cpu_thread_counts` where it stops the threads of cpus that are gone, and then the client's call,
which gives `mut_` back. `FigureThrows` is an exception before any thread is asked: the cpus cannot be counted, or memory for the
cleaned vector or the counts is lacking. `provide_thread_stop_fn` may be called at any time after the thread function began, also late
and again, and copying the function may fail (`ProvideFails`), after the assignment has dropped the one that was there
(`optional.hxx:181`). `CopyMayThrow` names the states of a thread in which it may. It leaves out `stoppable`: an entry that is
`stoppable` and has lost its function makes the next pass dereference an empty `optional`, and with `stoppable` in it TLC
finds `Consistent` and `StopFnCalledWhenProvided` violated. The hazards list that case.

### 2.2 Mutex

`owner` is `OWNING_THREAD_ID`; `osOwner` and `depth` are the system's mutex or (recursive) critical section. Every access
to the id and every system call is an action. A thread has room for `Objects` lock objects, so that one can be moved.
`Win32` selects the platform: only there does `lock` look whether the thread had the mutex already.

### 2.3 Thread, Sleep and Affinity

In `Thread`, `startPc` and `threadPc` follow `start_thread`/`start` and `start_routine` from one access of the shared object to the
next. `refcnt` counts the object's references; the destructor closes `ahth`. `open` is the set of open handles, the
one `_beginthreadex` returned and the one the thread opens itself when it finds none. The clients copy, drop and join;
`CallJoin` stands for `join`, `timed_join_ns` and `finished`, which differ in the limit of the wait. The two kinds
of thread function (with and without a result) differ in the result only. The module follows the Win32 code, because
`join_timeout_v` throws at once on POSIX.

`Sleep` follows both loops of `sleep_ns`. On POSIX `clock_nanosleep` returns its error, but the code looks at `errno`, which other
calls of the thread have set (`OtherError`): an interrupted sleep is resumed (`Resumes`) or throws (`Fails`) by that. On Win32
`Sleep` takes milliseconds, rounded up, at most `MostMs` at a time.

`Affinity` splits `set_cpu_affinity` where the cpus may change: the count (`CountsCpus`), the choice in the mask (`Chooses`,
`FindsNone`) and the system call (`SetsOwn`, `SetsMask`). The process may get any of the `Masks` at any time. `boundBy` keeps with which
index and among which cpus a thread was bound, and outlives every change: `SpreadsOut` compares threads bound among the same cpus,
however many changes lie between the calls or between the steps of one. `gone` marks the calls that have lost a cpu since they counted,
the only ones of which `AnyIndexBinds` promises nothing. On Linux the count is the cached one, the index is the cpu, the thread bound
is always the caller, and a failure is only an assertion; so `AnyIndexBinds` is restricted there to cpus without gaps. Nothing in
the repository calls the function: the call in `thread_group` is compiled out.

### 2.4 Atomic

One step is one operation of the `std::atomic` beneath; a loop around `compare_exchange_weak` is a load, and exchanges that
succeed or fail. `repr` is unsigned and has `ReprValues` values, of which the `T` is the low bits (`Loaded`) and as which a `T` is stored
with its sign extended (`Stored`). `++` and `--` work on `repr`: once they leave the range of `T`, several representations load as
one `T`, and a compare-exchange, which compares representations, never succeeds again until the next store. The properties say
that this is the only case (`strayed`).

### 2.5 Rptr

A pointer is a local of one thread, or the member of an object. `GiveUp` is `tpointee_dec_ref_` with the `delete` it may end in; the
pointer inside the deleted object is destroyed next (`DestroyMember`). Assignment and `reset` give up what the target held
*before* they read the source (lines 240-246; `std::shared_ptr` takes the new object first), so each is two steps with the
deletion in between, in which other threads run too. That order is safe only if the user keeps the source, and the target if
it is a member, alive by another pointer: the constant `Careful`. With `Careful = FALSE` the assignment reads a deleted object.
The header does not ask for this, but neither does it promise otherwise, so it is a constant here and no finding.

### 2.6 Vector and Optional

A vector is its capacity, its size and, per slot, the element there or `Raw`. A call starts a loop (`phase`, `ix`), one step
of which constructs, assigns or destroys one element or throws; what a throw leaves behind is what the `catch` and the
destructors of locals do with it. `faults` records what a call did to memory it should not: destroying or assigning an
element where there is none, constructing over one, storage released twice or never. `Avoided` names the calls that a user must avoid,
because the code gets them wrong:

| pitfall | what happens |
|---|---|
| `shrink` | `resize` to fewer destroys the slot above each one it gives up (line 279; run `vector_shrink`) |
| `regrow` | `reserve` on an emptied vector that has storage deletes the storage as an array of `T` (line 322) |
| `own` | `assign(n, v[i])` passes the reference on and calls itself for ever (line 219) |
| `shorter` | `assign` from a range shorter than the vector leaves the elements above alive (line 205) |
| `unborn` | an exception in a constructor leaks the elements constructed so far and the storage (line 106) |

The properties are those of a user who avoids all pitfalls. The `components` run also follows a careless user, up to the first time
memory is not in order, so that every path of the calls is taken; that this user's memory does get out of order is shown for `shrink` by
the run `vector_shrink`, and `VectorProofs` shows that the five pitfalls are all there are.

`Optional` has a list `todo` of element operations per call, which an exception cuts short. An optional that is assigned from its own
element may misuse it: `assign` resets first (lines 163, 181). Assignments from a value make the copy first (152). `MaySelf` says whether
the user does that; `ContainerProofs` shows that nothing else misuses an element.

### 2.7 Permutation, Utf8, Stopwatch, HostInfo

`Permutation` has both mappings as functions, `rotate_sequence` by its three ways through temporary memory, and the loops that
repair the reverse mapping as `WriteBack`. Sizes wrap modulo `Modulus`. A permutation whose assignment threw between the two
mappings is `torn`, and its size assertion then forbids all but `reset`, assignment, and destruction.

`Utf8` has the writer as an operator and the validator as a state machine; shifts and masks are divisions and
remainders. Octets and scalar values are those on both sides of each limit in the code.

`Stopwatch` has a clock that can be set back, unsigned readings modulo `ClockModulus` and a signed sum. `HostInfo` has the cache with its
stamp modulo `AgeModulus`, cpus that come and go, and a `sysconf` that fails; `seen` says when there were last so many cpus.

## 3. The runs

| run | bounds | shows |
|---|---|---|
| `group_two_clients` | 2 clients, 2 threads, 1-2 cpus; starts, joins, thread functions, stop functions, their copies and the counts of cpus may fail; 1,241,272 states | the counts, the joiners' claims, the entries and join's answers are right in every interleaving, after a failure too; the group implements `WorkerPool` |
| `group_live` | 2 clients, 2 threads, 1 cpu; 134,274 states | joins that do not throw leave no thread claimed; joins return; `mut_` is released |
| `threads` | below; 24,146 states | threads, mutexes, sleeps and atomics: safety, the two refinements and liveness |
| `components` | below; 817,123 states | containers, permutations, UTF-8, clocks and cpus |

The last two check several modules that share no state. A variable `part`, chosen at the beginning, says which of them runs, and in
which build or way of use; the variables of all the others stay at one initial state, so the state space is the sum of the
modules' own. `MCThreads` and `MCComponents` extend the modules they check, so that the runs check the very properties that the theorems
are about. `INSTANCE`s are only the second builds and users: the POSIX mutex, the release build of `rptr`, the careless user of
vectors, and the user who assigns an optional its own element.

| part | bounds | properties |
|---|---|---|
| thread | 2 clients, 2 exit codes | `RefsCounted`, `HandlesAccounted`, `KeepsPromise`, `JoinReturns` |
| mutex on Win32, with relocks; on POSIX, without | 3 threads, 2 lock objects each | `NoOwnerOnEntry`, `LockObjectsTellOwner`, `ImplementsLock`, `LockReturns` |
| sleep on POSIX, on Win32 | sleeps up to 7 ns, 3 ns a second, 2 ns a millisecond, 2 ms a call | `SleepsLongEnough`, `SleepsNoLonger` |
| atomic | 2 threads, 3 operations each, a `T` of 2 bits in 4 | `LosesNoIncrement`, `LoopsEnd` |
| vector (a careless user: no property, section 2.6) | 2 vectors, 2 values, sizes up to 2 per call, everything may throw | `SlotsHoldElements`, `NoFaults`, `OutcomeAsPromised` |
| rptr, debug and release | 2 threads with 2 and 1 local pointers, 2 objects with a pointer inside | `ExistsWhilePointedTo`, `SourceOutlivesTarget` |
| permutation | 2 of them, sizes up to 3, a size type of 5 values | `MutuallyInverse`, `RotateRotates` |
| optional, and one assigned from its own element | 2 optionals, 2 values | `NeverMisused`, `OutcomeAsMeant` |
| utf8 | 23 octets, 11 scalar values, at the limits | `AcceptsWhatIsWritten` |
| stopwatch | a clock from 2 to 6, set back to 2 at the earliest | `TimeAddsUp` |
| hostInfo | 3 ticks, a cache valid for 1, 2 counts | `AnswersAreRecent` |
| affinity on Linux, on Win32 | 2 threads, cpus that come and go (0; 0 and 1; 1 and 2), indexes up to 2 | `SpreadsOut`, `AnyIndexBinds` |

Why these bounds. *Groups:* two clients are needed for one to change what the other has read, and what a third could do to either
the second can do as well, there being one lock and two phases of joining. Two threads let one be joined while the
other starts, and two cpus let one go away under its thread. `SizeMod` is just larger than the largest count, so
that one decrement below zero shows in `TypeOK` and in the comparisons. *Mutex:* an owner, one being admitted and one that reads
the id. *Thread:* one client drops while the other copies. *Sleep:* a sleep of 7 takes three
seconds and a rest, or two full calls of `Sleep` and a rounded one. *Atomic:* three operations of two threads take a `T` of two bits out of its
range in both directions. *Vector:* two elements make a first and a last one in each loop; a sequence of calls reaches more
(`push_back`) than one asks for. *Rptr:* two objects make a pointer inside one own the other, three locals give each thread one
and let one copy. *Permutation:* the theorems cover all sizes, TLC confirms them for sizes up to three, at which rotations by
each of the three ways and a wrapping size all happen. *Stopwatch, HostInfo:* modulus and latest time are such that a wrapped
number is told from any time there is.

Deadlock is checked in all passing runs; a `Finished` step stands for the ends there are (a thread that is gone, the
atomic's bound, a careless user whose memory is out of order). It is not checked in runs that look for a violation where the system may stop.

### Fairness

`ThreadGroup` assumes that a client inside a call and a worker outside the user's code keep running, and that each gets
`mut_` in the end although others take it again and again (strong fairness: it is the system's mutex that must not
starve them, `start_or_stop` has no pause). Of the user's thread function it assumes what the header asks for: it provides a
stop function and returns once that was called. Nothing makes a client call, a timeout expire or an allocation
fail. `Mutex` assumes that a thread inside a call is admitted if the mutex is free again and again, and that holders
let go. `Thread` assumes that the new thread runs, its function ends, and a waiting client is woken when the thread
has. `Atomic` assumes that a thread in its loop keeps running and that a `compare_exchange_weak` that would match again and again does
not fail each time, neither spuriously nor by what others do. `MCThreads` restates these for the part that is chosen.

### What the code does differently from what it says

Each of these runs finds a behaviour of the model, and so of the code, that contradicts a comment or an assertion:

| run | the code | what it contradicts |
|---|---|---|
| `group_requested_drifts` | a thread asked to stop is asked again by the next pass, and counted off again (line 614 stores to a local); a join does so every round, so the count may end below zero, and the next `set_target_cnt_threads` finds it above any target | "have not yet been requested to stop" (`thread_group.cxx:56`) |
| `group_stop_blocks` | a thread that ended by itself keeps the count above the target: `request_all_stop` spins for ever | "does not actually block" (`thread_group.hxx:60`) |
| `group_loop_exit` | both comparisons find the count at the target (415, 419), another client stores a new target without `mut_`, and the assertion's own read, the third, differs | the assertion at `thread_group.cxx:426` |
| `group_thrown` | a thread function that throws leaves its entry where no join looks: join waits for ever | "until all threads in the group have exited" (`thread_group.hxx:64`) |
| `mutex_posix_relock` | a thread that locks twice waits for itself | "Throws if the mutex is already locked" (`mutex.hxx:55`) |
| `thread_end` | `start_routine` reads its object after dropping what may be the last reference | the assertion at `thread.cxx:604`, which reads it |
| `vector_shrink` | `resize` to fewer elements destroys a slot that holds none and leaves one alive above the size | "we're at least consistent with the remaining elements" (`vector.hxx:277`) |
| `stopwatch_set_back` | a clock set back to before the start of the program reads as nearly 2^64, and the stopwatch shows a negative time | "we can at least avoid returning a negative value" (`stopwatch.cxx:106`) |

A join that throws after the claim, as every join on POSIX does, leaves its entry in `joining` for good. This is part of
`group_two_clients`, where the other properties are shown to survive it; `NoAbandonedJoin` is checked in `group_live` and proved
(`ClaimsKept`) where joins do not throw.

## 4. The proofs

All theorems rest on no unproved statement, and hold for every value of the constants that the assumptions allow: the
`ASSUME`s of `ThreadGroup`, `Thread` and `Elements`, and in each of the other modules a predicate (`MutexAssumption`, `VectorAssumption`,
`RptrAssumption`, `PermutationAssumption`, `SleepAssumption`, `AtomicAssumption`, `StopwatchAssumption`, `HostInfoAssumption`,
`AffinityAssumption`, `OptionalAssumption`, `Utf8Assumption`), which is a hypothesis of the theorems and which the MC modules `ASSUME` of
each instance they check. In each proof module the argument is: an inductive invariant holds initially, every action
keeps it (one step per action, below it one per part the action can disturb), and the properties follow. Every safety property that a
passing run checks is a theorem.

**ThreadGroupProofs** (any clients, thread bound, cpus, targets, and a `size_t` larger than the
number of threads ever started). The safety properties are not inductive alone: that a joiner finds its entry in
`joining` needs to know that nobody else writes the entry then, which needs to know where the thread itself is. The
invariant adds `LockHeld` (who is inside a long critical section), `StateTellsRun` (what `thread_info::state` tells of
the OS thread), `EntriesAccounted` and `JoineeHeld`, whose conjunction `Consistent` TLC checks too. Proved: type
correctness (`TypeCorrect`), `GroupConsistent`, `OneJoiner`, `ThreadsKept`, `JoinsCounted`, `JoinsTellTheTruth`, `StopsProvided`,
`StatesForward`, that the group implements `WorkerPool` (`GroupIsAPool`), and, where joins do not throw, `ClaimsKept`.
`GroupConsistent` and `StopsProvided` have the hypothesis that no copy of a stop function fails while the thread is `stoppable`
(section 2.1); the others hold without it, since `StoppableHasFn`, which needs it, is a part of the invariant by itself.
`JoinsCounted` is why the decrement of `cnt_threads_not_yet_joined_` cannot wrap; `GroupConsistent` says, among others, that `mut_` is
given back whatever throws.

**MutexProofs** (any set of threads and lock objects, both platforms). The invariant adds `SystemAgrees`: who is
inside the system's mutex, and how deep, follows from the lock objects and the places of the threads. Proved:
`OwnerIsTold`, `NoOwnerFound`, that a mutex keeps what `MutexPromise` says (`MutexIsALock`), and three properties that no run checks: at most one object
locks (`OneObjectLocks`), `lock` throws only to the thread that has the mutex (`ThrowsToHolder`), and `SystemAgrees` itself (`SystemKnowsOwner`).

**ThreadProofs** (any finite set of clients, any exit codes). The invariant joins `RefsCounted`, an equation between
the count and the references at each place, with `HandlesAccounted`, `PlacesAgree` (which places of the starter, the thread
and the clients go together and who has seen to the handle) and `ExitAgrees`. The count is the difficult part:
an action changes the cardinality of the set of holders, the two place functions and the count together
(`AddKeeps`, `DropKeeps`), and from the equation follows that the object is alive wherever it is used (`UsedIsAlive`).
Proved: `CountIsRight`, `HandlesClosedOnce`, that a thread keeps its promise (`ThreadKeepsPromise`), and without a run of
their own `AliveWhileUsed`, `HandleForClients`, `ExitsAgree` and `HandleKept`.

**RptrProofs** (any threads, any finite sets of pointers and objects, both builds; `Careful`). The invariant `RptrInv` says that the
count of each object is the number of its pointers, that an object exists while its count is not zero, and, for threads
in the middle of an assignment, that the target is `Loose`, that no two assignments share a target or a source
(`WorksApart`), and that the thread has a local pointer to each object that is part of it (`WorksKept`). The last is what makes
`SourceOutlivesTarget` inductive: deletions cascade from member to member, and what keeps the source alive through a cascade is a
local pointer, which no cascade touches. Proved: `CountsPointersHolds`, `ExistsWhilePointedToHolds`, `SourceOutlivesTargetHolds`.

**VectorProofs** (any values, sizes, vectors and exceptions; a user who avoids all pitfalls). The invariant says, for each
phase of a call, which slots hold elements and how far the loop has got (`CallAgrees`), for the vectors and the local variable of a
reallocation. Proved: `SlotsBelowSize` and `NothingLost`. What the elements are, and not only that they are there, is in a second invariant,
`Promised`: which slots already hold what the call is for (`WhileAppending`, `WhileCopying`, `WhileOverwriting`, `WhileDropping`), which
still hold what was there before, and that no other vector has changed (`OthersHeld`). A reallocation makes this the longest of
the proofs, because the elements are then in two vectors. Proved: `CallsKeepPromises`.

**ContainerProofs.** Two modules.
- `PermInv` (any sizes below the modulus of their type): `IsPermutation` is shown of what each operation makes: `ExtendedPermutes`,
  `SwappedPermutes`, `RotatedPermutes`, `MultipliedPermutes`, `RemovedPermutes`. For the two that write the reverse mapping back by a loop,
  `WrittenBack` says what it is afterwards if the forward mapping is one-to-one, and a rotation is written as a map of
  indexes with an explicit inverse. `SequenceRotates` proves the three ways of `rotate_sequence` for all lengths by composing the copies
  (`CopyWithinCopies`). Proved: `MutuallyInverseHolds`, `RotateRotatesHolds`.
- `OptInv` (any optionals and values): whatever is left to do of a call `GoesWell`. That is, there is a path of states through the remaining
  element operations, each of which is `Fine` in its state (finds an element where it needs one and room where it constructs one), at
  each of which an exception would leave what a failing call may leave (`FailsWell`), and the path ends as the call is meant to (`Ends`).
  Steps and exceptions keep this by its form; the work is to show of each call that its list goes well from any tidy state.
  TLC cannot evaluate this invariant, which ranges over sequences of states; its consequences are what it checks.
  The theorems are about users who do not assign an optional from its own element (`MaySelf = FALSE`). Proved:
  `OptionalNeverMisused`, `OptionalOutcomeAsMeant`.

The types of both hold without any of this, also for an optional that is assigned its own element (`PermIsTyped`, `OptIsTyped`).

**MCThreadsProofs**, two modules:
- `SleepInv` (any lengths of the second, the millisecond and the longest call of `Sleep`): what has passed and what is still requested
  make up what was asked for, on POSIX exactly, on Win32 rounded up to milliseconds.
- `AtomicInv` (any threads, any even number of values of the type, any multiple of it for the representation): what is loaded is, modulo
  the width of the type, the balance of what was put in; and until the value leaves the range of the type, the representation is the sign extension of
  what is loaded, which is why a compare-exchange finds it again.

Proved: `SleepLastsLongEnough`, `SleepLastsNoLonger`, `AtomicLosesNoIncrement`.

**MCComponentsProofs**, four modules:
- `WatchInv` (any clock width, times and number of readings): what the stopwatch has handed out, holds and is about to add is at most the
  time it ran (`NothingAdded`), and exactly that if the clock was not set back (`NoneMissing`). The hypothesis `ClockStart <= Earliest` says
  that the clock is never set back to before the program's start. Without it the theorem is
  false: with the constants of `stopwatch_set_back` TLC finds `TimeAddsUp` violated as well.
- `HostInv` (any cpu counts, clock width and age): what is cached was true when it was stamped or later (`CacheIsTrue`), and an age that wraps
  is told from a young one because the modulus is larger than all times that can lie between. `MaxAge` must be positive, as the code's 500 ms
  are: with an age of 0 the first stamp would look fresh, and the cache would be read before it was written.
- `AffinityWell` (any threads, finite sets of cpus as masks, and indexes): a thread bound on Win32 is on the cpu whose rank among the
  cpus it was bound among is its index (`BoundWell`), the cpu chosen has that rank among those the call goes by (`ChosenWell`), and a
  call that has lost no cpu finds one (`CallGoesWell`). The lemmas count: a rank is less than the number of cpus, differs for different
  cpus, and each is taken, so the search of the code ends at the right bit for any mask.
- `Utf8Inv` (any octets, all valid scalar values): the validator's count, least value and bits are what the octets since the last scalar value come
  to (`Consumed`), or the last octet was out of place (`Refused`). `WrittenReads` and `ReadIsWritten` say that decoding is
  the inverse of writing, for all lengths and at all limits.

Proved: `StopwatchAddsUp`, `HostInfoAnswersAreRecent`, `AffinitySpreadsOut`, `AffinityAnyIndexBinds` and `Utf8AcceptsWhatIsWritten`, the last
over all 1,112,064 scalar values where TLC takes 11.

**The specifications that TLC runs.** The theorems above are about one module each. The end of `MCThreadsProofs` and of
`MCComponentsProofs` carries them over to `PartsSpec`, the specification of the run itself, with every build and way of use that it
chooses from. Three facts make this possible. A behaviour of `PartsSpec` is a behaviour of each component, since a step of one part is a
stuttering step of all others (`PartsAreThread` ..., `PartsStep`). Where one part may run in two builds, the choice never changes, so the
behaviour is wholly one of the first build or wholly one of the second (`PartsAreMutex`, `PartsAreRptr`). And the second
build has the theorems of the first: the proof modules of mutex, pointers and containers are themselves instantiated with other
constants (`Posix`, `Ndebug`, `Self`), and each action that the run uses is shown to be the one that they are about (`PosixNext`,
`ReleaseNext`, `OwnNext`). Each module has the theorems
- `PartsTyped`: every variable of every part keeps its range (`PartsTypeOK`). Of the modules whose other proofs need only some of the
  types there is an inductive invariant for this too, which is not always the type invariant itself: of `Utf8` it bounds the value read so
  far by the octets still to come (`LeavesRoom`), of `Optional` it says that what is left to do consists of steps.
- `PartsKeepInvariants`: all other invariants of the run,
- `PartsImplement` (`MCThreads`): `KeepsPromise` and `ImplementsLock`, the latter on both platforms.

The hypotheses are those of the components: in `MCComponents` a user who avoids the pitfalls of vectors, keeps the sources of assignments
alive and does not assign an optional (the one the properties are about) its own element, and a clock that is not set back to before the
program's start. The instances in `Components.cfg` are such, so that what TLC finds on them is an instance of the theorems.

So every safety property that a passing run checks is a theorem: those of `group_two_clients` and `group_live` in
`ThreadGroupProofs`, about the specification these runs check, and those of `threads` and `components` here.

Only model-checked:
- everything under fairness (`JoinReturns`, `LockIsReleased`, `RelockThrows`, `LockReturns`, `LoopsEnd`), because the prover handles
  neither `ENABLED` nor fairness;
- what the careless user of vectors does, and the runs that look for a contradiction.

## 5. What is not modelled

- The memory order of the atomics and fences: each access is one step.
- `thread_group`: reads of the counts, `set_target_cpu_coverage` (a float times the cpu count, then
  `set_target_cnt_threads`), `swap`, and a stop function that calls back into the group (which waits for `mut_`, and on POSIX for ever).
- `thread`: a thread that joins itself (the wait is skipped and `join` throws), `this_thread::get` for a thread that qak did not
  start (its object is made on each call and not stored, line 641), the comparison of ids, and `OpenThread` failing in the
  new thread (it terminates the process).
- A join returns when the exit is recorded (line 395), before the thread has destroyed its function object and reset
  its thread-local reference, although "suspends the caller until the thread exits" (`thread.hxx:66`). `Thread` shows
  it (`JoinReports` does not wait for `threadPc = "gone"`); what destroying the function object does is the user's.
- `mutex`: its own construction and destruction, which the callers order before and after all other calls.
- `vector`: `reverse_inplace`, which swaps elements in place, and the accessors. `optional`: the accessors.
- `stopwatch`: the clock of a thread's cpu time and the cycle counter, which are the system's, and the conversion to `double`.
- `host_info` on Win32: `cnt_cpus_configured` asks the system and keeps nothing.
- `prng64`, `hash`: arithmetic on 64-bit words without control, beyond what TLC can enumerate.
- `threadls`, `static_data`, `io`, `fail`, the headers of macros, the test application, the Win32
  declarations and the build files: no state of their own that a property could be about.

## 6. Plan

1. *Done:* `ThreadGroup`, `Mutex`, `Thread` with their abstract specifications and proofs.
2. *Done:* `Rptr`, `Vector`, `Permutation` with proofs; `Optional`, `Utf8`, `Stopwatch`, `HostInfo`, `Sleep`, `Affinity`, `Atomic`.
3. *Done:* proofs of all safety properties of the components.
4. *Done:* the type invariants of all modules, and the theorems about the specifications that the runs check (`MCThreadsProofs`,
   `MCComponentsProofs`).
5. Left: a run for each pitfall of `Vector`, which TLC shows for `shrink` only (that there are no others is proved).
6. Left: `Thread` with a client that is the thread itself and `this_thread::get`.
