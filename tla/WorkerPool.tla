----------------------------- MODULE WorkerPool -----------------------------
(***************************************************************************)
(* What a thread_group promises its clients, without lock, counters or     *)
(* stop functions: threads are launched, end, and are reaped once each,    *)
(* and a call is told "all threads have exited" only when every thread     *)
(* ever launched has ended and been reaped.                                *)
(***************************************************************************)
EXTENDS Naturals

CONSTANTS Clients, Ids

VARIABLES
    phase,   \* the life of each thread
    told     \* the clients whose last call returned "all exited"

poolVars == <<phase, told>>

Init ==
    /\ phase = [t \in Ids |-> "none"]
    /\ told = {}

Moves(t, from, to) ==
    /\ phase[t] = from
    /\ phase' = [phase EXCEPT ![t] = to]

Launch(t) == Moves(t, "none", "running") /\ UNCHANGED told

End(t) == Moves(t, "running", "ended") /\ UNCHANGED told

Reap(t) == Moves(t, "ended", "reaped") /\ UNCHANGED told

\* A client starts another call.
Call(c) == c \in told /\ told' = told \ {c} /\ UNCHANGED phase

AllReaped == \A t \in Ids : phase[t] \in {"none", "reaped"}

\* The answer of join: hxx "Blocks until all threads in the group have exited."
TellAllExited(c) == AllReaped /\ told' = told \cup {c} /\ UNCHANGED phase

Next ==
    \/ \E t \in Ids : Launch(t) \/ End(t) \/ Reap(t)
    \/ \E c \in Clients : Call(c) \/ TellAllExited(c)

Spec == Init /\ [][Next]_poolVars

=============================================================================
