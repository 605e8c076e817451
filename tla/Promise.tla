------------------------------- MODULE Promise -------------------------------
(***************************************************************************)
(* What a qak::thread promises those who join it: the thread's function    *)
(* ends once, and whoever is told its outcome is told the one it had.      *)
(***************************************************************************)
CONSTANTS Clients, Outcomes, Nothing

VARIABLES
    outcome,    \* how the thread's function ended, or Nothing
    told        \* the outcome each client was told last, or Nothing

promiseVars == <<outcome, told>>

Init ==
    /\ outcome = Nothing
    /\ told = [c \in Clients |-> Nothing]

Ends(x) ==
    /\ outcome = Nothing
    /\ outcome' = x
    /\ UNCHANGED told

Tells(c) ==
    /\ outcome # Nothing
    /\ told' = [told EXCEPT ![c] = outcome]
    /\ UNCHANGED outcome

\* The client joins again, or its join gave up.
Forgets(c) == told' = [told EXCEPT ![c] = Nothing] /\ UNCHANGED outcome

Next ==
    \/ \E x \in Outcomes : Ends(x)
    \/ \E c \in Clients : Tells(c) \/ Forgets(c)

Spec == Init /\ [][Next]_promiseVars

=============================================================================
