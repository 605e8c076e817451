------------------------------ MODULE HostInfo ------------------------------
(***************************************************************************)
(* qak::host_info on POSIX: the numbers of cpus that the system is asked   *)
(* for and that are cached for a while.  All callers take one mutex, so at *)
(* most one of them is between its reading of the clock and its return.    *)
(***************************************************************************)
EXTENDS Integers

CONSTANTS
    Kinds,      \* "configured" and "available": each has its own cache
    Counts,     \* the numbers of cpus there may be
    MaxAge,     \* fc_max_sysconf_age_ns
    AgeModulus, \* 2^64
    MaxTime,    \* bound: how long the program runs
    Nobody      \* the mutex is free

HostInfoAssumption ==
    /\ Counts \subseteq Nat \ {0} /\ Nobody \notin Kinds
    /\ MaxAge \in Nat \ {0} /\ MaxTime \in Nat /\ AgeModulus \in Nat
    /\ MaxTime + 2 * MaxAge < AgeModulus

VARIABLES
    time,       \* the wall clock
    cpus,       \* how many cpus of each kind there are
    seen,       \* when there were last so many, or Never
    stamp,      \* f_most_recent_sysconf_cnt_cpus_..._ns
    cached,     \* f_cnt_cpus_...
    asking,     \* the kind that the owner of the mutex asks for
    now,        \* its now_ns
    told        \* what the last call has returned and the now_ns that it worked with

hostVars == <<time, cpus, seen, stamp, cached, asking, now, told>>

Never == 0 - MaxAge - 1

Times == 0..MaxTime

\* Mutant: a program that has just begun takes the empty cache for a fresh one.
StampZero == 0

\* uint64_t(0) - fc_max_sysconf_age_ns*2
FirstStamp == (0 - 2 * MaxAge) % AgeModulus

HostInit ==
    /\ time = 0
    /\ cpus \in [Kinds -> Counts]
    /\ seen = [k \in Kinds |-> [n \in Counts |-> IF n = cpus[k] THEN 0 ELSE Never]]
    /\ stamp = [k \in Kinds |-> FirstStamp]
    /\ cached = [k \in Kinds |-> 0]
    /\ asking = Nobody /\ now = 0
    /\ told \in {[kind |-> k, count |-> cpus[k], now |-> 0] : k \in Kinds}

----------------------------------------------------------------------------
(* The system.                                                             *)

TimePasses ==
    /\ time < MaxTime
    /\ time' = time + 1
    /\ seen' = [k \in Kinds |-> [seen[k] EXCEPT ![cpus[k]] = time + 1]]
    /\ UNCHANGED <<cpus, stamp, cached, asking, now, told>>

\* A cpu is plugged in, or goes offline.
CpuCountChanges(k, n) ==
    /\ cpus' = [cpus EXCEPT ![k] = n]
    /\ seen' = [seen EXCEPT ![k][n] = time]
    /\ UNCHANGED <<time, stamp, cached, asking, now, told>>

----------------------------------------------------------------------------
(* cnt_cpus_configured, cnt_cpus_available, cnt_threads_recommended.       *)

\* now_ns - f_most_recent...
Age(k) == (now - stamp[k]) % AgeModulus

\* Mutant: the comparison is the other way around.
StaleWrong(k) == Age(k) < MaxAge

Stale(k) == MaxAge < Age(k)

\* The mutex is taken and the clock read.
Enter(k) ==
    /\ asking = Nobody
    /\ asking' = k /\ now' = time
    /\ UNCHANGED <<time, cpus, seen, stamp, cached, told>>

Return(n) ==
    /\ told' = [kind |-> asking, count |-> n, now |-> now]
    /\ asking' = Nobody /\ now' = 0
    /\ UNCHANGED <<time, cpus, seen>>

AnswerFromCache ==
    /\ asking # Nobody /\ ~Stale(asking)
    /\ Return(cached[asking])
    /\ UNCHANGED <<stamp, cached>>

\* sysconf: it takes what there is now, which may be later than now_ns.
AskSystem ==
    /\ asking # Nobody /\ Stale(asking)
    /\ stamp' = [stamp EXCEPT ![asking] = now]
    /\ cached' = [cached EXCEPT ![asking] = cpus[asking]]
    /\ Return(cpus[asking])

\* Mutant: the time of the call is recorded before it is known to have succeeded.
StampAnyway == [stamp EXCEPT ![asking] = now]

\* fail_unless throws: the cache and its time stay.
StampOnFailure == stamp

SystemFails ==
    /\ asking # Nobody /\ Stale(asking)
    /\ stamp' = StampOnFailure
    /\ asking' = Nobody /\ now' = 0
    /\ UNCHANGED <<time, cpus, seen, cached, told>>

HostNext ==
    \/ TimePasses \/ AnswerFromCache \/ AskSystem \/ SystemFails
    \/ \E k \in Kinds : Enter(k) \/ \E n \in Counts : CpuCountChanges(k, n)

HostSpec == HostInit /\ [][HostNext]_hostVars

----------------------------------------------------------------------------
(* Properties.                                                             *)

\* "cache their result for up to 500 ms" (host_info.cxx, line 45): what a call returns was so at
\* some time in the last MaxAge before it, or during it, and is "greater than 0" (host_info.hxx),
\* also right after the start, when the clock says 0, and after the system has failed to answer.
AnswersAreRecent ==
    told.count \in Counts /\ seen[told.kind][told.count] >= told.now - MaxAge

HostTypeOK ==
    /\ time \in Times /\ cpus \in [Kinds -> Counts] /\ now \in Times
    /\ seen \in [Kinds -> [Counts -> Times \cup {Never}]]
    /\ stamp \in [Kinds -> Times \cup {FirstStamp}]
    /\ cached \in [Kinds -> Counts \cup {0}]
    /\ asking \in Kinds \cup {Nobody}
    /\ told \in [kind : Kinds, count : Counts \cup {0}, now : Times]
=============================================================================
