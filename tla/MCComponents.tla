---------------------------- MODULE MCComponents ----------------------------
(***************************************************************************)
(* The containers and services that threads and thread groups are built    *)
(* from, for TLC.  They share no state: a behaviour chooses one of them at *)
(* its beginning, in one of the builds or ways of use it is checked in,    *)
(* and the others stay as they are.                                        *)
(***************************************************************************)
EXTENDS Vector, Rptr, Permutation, Optional, Utf8, Stopwatch, HostInfo, Affinity

CONSTANTS
    t1, t2,                 \* threads
    v1, v2,                 \* vectors, permutations, or optionals
    a1, a2, b1              \* local pointers

VARIABLES
    part,                                                       \* the component chosen
    vec2, born2, phase2, call2, ix2, threw2, goal2, faults2,    \* Vector, of the careless user
    opt2, todo2, acts2, failing2, meant2, misused2              \* Optional, of the careless user

carelessVars == <<vec2, born2, phase2, call2, ix2, threw2, goal2, faults2>>
ownOptVars == <<opt2, todo2, acts2, failing2, meant2, misused2>>
containerVars == <<vars, carelessVars, rptrVars, permVars, optVars, ownOptVars, utf8Vars>>
serviceVars == <<watchVars, hostVars, affinityVars>>

partsVars == <<part, containerVars, serviceVars>>

-----------------------------------------------------------------------------
(* The users and builds besides those that the constants choose.           *)

\* The user of the vectors avoids the pitfalls; a careless one avoids none, but does nothing any
\* more once memory is not as it should be.
Careless == INSTANCE Vector WITH
    Avoided <- {}, vec <- vec2, born <- born2, phase <- phase2, call <- call2, ix <- ix2,
    threw <- threw2, goal <- goal2, faults <- faults2

\* Thread t1 has two local pointers, t2 one.
ThreadOfLocal == [l \in {a1, a2, b1} |-> IF l = b1 THEN t2 ELSE t1]
Release == INSTANCE Rptr WITH Debug <- FALSE

\* Optionals that are assigned from the element they hold.
Own == INSTANCE Optional WITH
    MaySelf <- TRUE, opt <- opt2, todo <- todo2, acts <- acts2, failing <- failing2,
    meant <- meant2, misused <- misused2

ASSUME PartsAssumption ==
    /\ VectorAssumption /\ Careless!VectorAssumption /\ PermutationAssumption
    /\ RptrAssumption /\ Release!RptrAssumption
    /\ OptionalAssumption /\ Utf8Assumption
    /\ StopwatchAssumption /\ HostInfoAssumption /\ AffinityAssumption

-----------------------------------------------------------------------------
Parts == {"vector", "careless", "rptrDebug", "rptrRelease", "permutation", "optional", "ownOptional",
          "utf8", "stopwatch", "hostInfo", "affinity"}

\* The parts that are not chosen have one initial state.
PartsInit ==
    /\ part \in Parts
    /\ Init /\ Careless!Init /\ RptrInit /\ PermInit
    /\ OptInit /\ Own!OptInit /\ Utf8Init /\ WatchInit /\ HostInit /\ AffinityInit
    /\ part # "stopwatch" => stopped
    /\ part # "hostInfo" => told = [kind |-> "available", count |-> 1, now |-> 0] /\ cpus.configured = 1
    /\ part # "affinity" => posix /\ available = CHOOSE mask \in Masks : TRUE

VectorRuns ==
    /\ part = "vector" /\ Next
    /\ UNCHANGED <<part, carelessVars, rptrVars, permVars, optVars, ownOptVars, utf8Vars, serviceVars>>

MemoryIsInOrder == Careless!SlotsHoldElements /\ Careless!NoFaults

CarelessRuns ==
    /\ part = "careless"
    /\ \/ Careless!Step
       \/ MemoryIsInOrder /\ \E v \in Vectors : Careless!CallOn(v)
    /\ UNCHANGED <<part, vars, rptrVars, permVars, optVars, ownOptVars, utf8Vars, serviceVars>>

RptrRuns ==
    /\ \/ part = "rptrDebug" /\ RptrNext
       \/ part = "rptrRelease" /\ Release!RptrNext
    /\ UNCHANGED <<part, vars, carelessVars, permVars, optVars, ownOptVars, utf8Vars, serviceVars>>

PermRuns ==
    /\ part = "permutation" /\ PermNext
    /\ UNCHANGED <<part, vars, carelessVars, rptrVars, optVars, ownOptVars, utf8Vars, serviceVars>>

OptRuns ==
    /\ \/ part = "optional" /\ OptNext /\ UNCHANGED ownOptVars
       \/ part = "ownOptional" /\ Own!OptNext /\ UNCHANGED optVars
    /\ UNCHANGED <<part, vars, carelessVars, rptrVars, permVars, utf8Vars, serviceVars>>

Utf8Runs ==
    /\ part = "utf8" /\ Utf8Next
    /\ UNCHANGED <<part, vars, carelessVars, rptrVars, permVars, optVars, ownOptVars, serviceVars>>

WatchRuns ==
    /\ part = "stopwatch" /\ WatchNext
    /\ UNCHANGED <<part, containerVars, hostVars, affinityVars>>

HostRuns ==
    /\ part = "hostInfo" /\ HostNext
    /\ UNCHANGED <<part, containerVars, watchVars, affinityVars>>

AffinityRuns ==
    /\ part = "affinity" /\ AffinityNext
    /\ UNCHANGED <<part, containerVars, watchVars, hostVars>>

\* The careless user does nothing any more.
Finished == part = "careless" /\ ~MemoryIsInOrder /\ UNCHANGED partsVars

PartsNext ==
    \/ VectorRuns \/ CarelessRuns \/ RptrRuns \/ PermRuns \/ OptRuns \/ Utf8Runs
    \/ WatchRuns \/ HostRuns \/ AffinityRuns \/ Finished

PartsSpec == PartsInit /\ [][PartsNext]_partsVars

-----------------------------------------------------------------------------
\* Every variable of every component stays in its range.
PartsTypeOK ==
    /\ TypeOK /\ RptrTypeOK /\ PermTypeOK /\ OptTypeOK /\ Own!OptTypeOK /\ Utf8TypeOK
    /\ WatchTypeOK /\ HostTypeOK /\ AffinityTypeOK
=============================================================================
