------------------------------ MODULE Affinity ------------------------------
(***************************************************************************)
(* thread::set_cpu_affinity.  The cpus available are counted, and the      *)
(* index taken modulo that count, before the cpu is picked; the cpus that  *)
(* the process may run on can change between these steps, and on Win32     *)
(* once more before the thread's mask is set.  On Linux the count is the   *)
(* cached one of host_info.  In the repository only a statement under      *)
(* `#if 0' of thread_group calls it; for others it is public.              *)
(***************************************************************************)
EXTENDS Integers, FiniteSets

CONSTANTS
    Callers,    \* threads: each binds itself or another
    Masks,      \* bound: the sets of cpus that the process may get to use, a cpu being its bit
    MostIndex,  \* bound: the largest index given
    Anywhere    \* a thread not bound

Cpus == UNION Masks

AffinityAssumption ==
    /\ MostIndex \in Nat
    /\ Masks # {} /\ \A mask \in Masks : mask \subseteq Nat /\ mask # {} /\ IsFiniteSet(mask)
    /\ Anywhere \notin Cpus \cup [index : 0 .. MostIndex, among : Masks]

VARIABLES
    posix,      \* the build: QAK_LINUX, otherwise QAK_API_WIN32
    available,  \* the cpus that the process may use
    known,      \* Linux: the cpus whose number host_info has cached
    place,      \* of each thread: the cpu it was bound to last, or Anywhere
    boundBy,    \* history, of each thread: the reduced index that bound it and among which cpus
    at,         \* of each thread: the call it makes; among: the cpus that the call goes by
    gone        \* history, of each thread: cpus went away since those it goes by were counted

affinityVars == <<posix, available, known, place, boundBy, at, gone>>

\* The cpus that host_info counts: the bits of the mask on Win32, on Linux those there were when
\* it asked the system last.
Counted == IF posix THEN known ELSE available

\* cnt_cpus_available
Told == Cardinality(Counted)

AffinityInit ==
    /\ posix \in BOOLEAN /\ available \in Masks /\ known = available
    /\ place = [t \in Callers |-> Anywhere] /\ boundBy = place
    /\ at = [t \in Callers |->
                [step |-> "out", subject |-> t, index |-> 0, cpu |-> 0, among |-> available]]
    /\ gone = [t \in Callers |-> FALSE]

\* Cpus are unplugged or plugged in, or the mask of the process is set.
CpusChange ==
    /\ available' \in Masks \ {available}
    /\ gone' = [t \in Callers |-> gone[t] \/ ~(available \subseteq available')]
    /\ UNCHANGED <<known, place, boundBy, at>>

\* The number cached has become too old, and host_info asks again.
CacheRenewed ==
    /\ posix /\ known' = available
    /\ UNCHANGED <<available, place, boundBy, at, gone>>

\* Plausible bug: the index is used as it was given.
NotReduced(ix) == ix

\* cpu_ix %= cnt_avail
Reduced(ix) == ix % Told

\* set_cpu_affinity on the thread object u: cnt_cpus_available
CountsCpus(t, u, ix) ==
    /\ at[t].step \notin {"counted", "chosen"}
    /\ at' = [at EXCEPT ![t] = [step |-> "counted", subject |-> u, index |-> Reduced(ix),
                                cpu |-> 0, among |-> Counted]]
    /\ gone' = [gone EXCEPT ![t] = ~(Counted \subseteq available)]
    /\ UNCHANGED <<available, known, place, boundBy>>

Finishes(t, step) ==
    at' = [at EXCEPT ![t] = [step |-> step, subject |-> @.subject, index |-> 0,
                             cpu |-> 0, among |-> @.among]]

Binds(t, u, cpu) ==
    /\ place' = [place EXCEPT ![u] = cpu]
    /\ boundBy' = [boundBy EXCEPT ![u] = [index |-> at[t].index, among |-> at[t].among]]

\* sched_setaffinity(0, ...): of the calling thread, whichever the object is.  The index is the
\* cpu; where that cpu is not online the call fails, which goes unnoticed.
SetsOwn(t) ==
    /\ posix /\ at[t].step = "counted"
    /\ IF at[t].index \in available THEN Binds(t, t, at[t].index) ELSE UNCHANGED <<place, boundBy>>
    /\ Finishes(t, "returned")
    /\ UNCHANGED <<available, known, gone>>

\* Plausible bug: bits of the mask that are not available are counted too.
CountsAllBits(t, cpu) == cpu >= at[t].index /\ \A c \in available : c >= at[t].index => cpu <= c

\* cpu is the one that the loop over the bits of the mask stops at.
StopsAt(t, cpu) == Cardinality({c \in available : c < cpu}) = at[t].index

Chooses(t) ==
    /\ ~posix /\ at[t].step = "counted"
    /\ \E cpu \in available :
        /\ StopsAt(t, cpu)
        /\ at' = [at EXCEPT ![t].step = "chosen", ![t].cpu = cpu, ![t].among = available]
    /\ UNCHANGED <<available, known, place, boundBy, gone>>

\* The mask has too few bits by now.
FindsNone(t) ==
    /\ ~posix /\ at[t].step = "counted"
    /\ ~\E cpu \in available : StopsAt(t, cpu)
    /\ Finishes(t, "threw")
    /\ UNCHANGED <<available, known, place, boundBy, gone>>

\* SetThreadAffinityMask, which fails if the process may not use the cpu.
SetsMask(t) ==
    /\ ~posix /\ at[t].step = "chosen"
    /\ IF at[t].cpu \in available
       THEN Binds(t, at[t].subject, at[t].cpu) /\ Finishes(t, "returned")
       ELSE UNCHANGED <<place, boundBy>> /\ Finishes(t, "threw")
    /\ UNCHANGED <<available, known, gone>>

AffinityNext ==
    /\ \/ CpusChange \/ CacheRenewed
       \/ \E t \in Callers :
            \/ \E u \in Callers, ix \in 0 .. MostIndex : CountsCpus(t, u, ix)
            \/ SetsOwn(t) \/ Chooses(t) \/ FindsNone(t) \/ SetsMask(t)
    /\ UNCHANGED posix

AffinitySpec == AffinityInit /\ [][AffinityNext]_affinityVars

-----------------------------------------------------------------------------
AffinityTypeOK ==
    /\ posix \in BOOLEAN /\ available \in Masks /\ known \in Masks
    /\ place \in [Callers -> Cpus \cup {Anywhere}]
    /\ boundBy \in [Callers -> [index : 0 .. MostIndex, among : Masks] \cup {Anywhere}]
    /\ at \in [Callers -> [step : {"out", "counted", "chosen", "returned", "threw"},
                           subject : Callers, index : 0 .. MostIndex, cpu : Cpus \cup {0},
                           among : Masks]]
    /\ gone \in [Callers -> BOOLEAN]

(***************************************************************************)
(* Whatever cpus come and go, before, between and after the steps of the   *)
(* calls: threads bound among the same cpus are on different cpus if their *)
(* indexes differ modulo the number that was counted, and on the same cpu  *)
(* if they do not, although the index and the mask that it is used on are  *)
(* of different moments.  On Linux a thread bound is the caller.           *)
(***************************************************************************)
SpreadsOut ==
    \A t, u \in Callers :
        /\ boundBy[t] # Anywhere /\ boundBy[u] # Anywhere
        /\ boundBy[t].among = boundBy[u].among
        => (place[t] = place[u] <=> boundBy[t].index = boundBy[u].index)

(***************************************************************************)
(* A call with any index whatever binds a thread to a cpu that is there    *)
(* (thread.hxx:154-155, "so it can be any value"), unless a cpu has gone   *)
(* away since those it goes by were counted: cpus that come meanwhile do   *)
(* no harm.  On Linux only where the cpus counted are numbered without a   *)
(* gap; the thread bound is the caller.                                    *)
(***************************************************************************)
AnyIndexBinds ==
    \A t \in Callers :
        LET bound == place[IF posix THEN t ELSE at[t].subject]
        IN  /\ at[t].step \in {"returned", "threw"} /\ ~gone[t]
            /\ posix => at[t].among = 0 .. (Cardinality(at[t].among) - 1)
            => at[t].step = "returned" /\ bound \in available
=============================================================================
